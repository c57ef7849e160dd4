# rtsp_server_par: a verification project

The program puts IP cameras on the web. An operator adds cameras and public
links in a panel; a viewer opens a link, and a media server (MediaMTX) pulls the
camera's stream and serves it; every media request is authorised by the
program. This directory holds TLA+ models of the parts where the program can
go wrong without any test noticing, TLC runs that check them on small instances,
and theorems that TLAPS proves for instances of every size.

Paths below are relative to `src/backend/app/` unless they begin with `src/`.

## 1. The system

Two processes of the program's own share PostgreSQL and Redis: **api**, one
uvicorn process whose handlers interleave at every `await`, and **worker**, a
process of loops. **MediaMTX** keeps its paths in memory and asks `api` for
permission through **Caddy**'s `forward_auth`. A handler has a database session of
its own at READ COMMITTED and keeps the objects it has read after a commit
(`db.py:39-50`), so what it knows may be old after each await. A Redis pipeline
is atomic; a sequence of Redis calls is not.

| component | state | operations | talks to | what makes it correct |
|---|---|---|---|---|
| access by links (`internal/authz.py`, `web/public_views.py`, `web/panel_views.py`) | rows of links and cameras; in Redis `viewer:<vid>`, `link_viewers:<link>`, `authz:link:<link>`; WebRTC sessions in MediaMTX | open page, password form, reload; authorise a media request; create, revoke, rotate, delete a link; switch off, on, delete a camera | Redis, PostgreSQL, MediaMTX, browsers | nobody watches who was not invited; a link that died lets nobody in for longer than a known time; the limit of viewers |
| paths (`media/reconciler.py`, `media/mtx_client.py`, pushes in `web/panel_views.py`) | rows of cameras, paths of MediaMTX, failure streaks | push, drop, cycle of the worker, re-creation of a path that does not come up | MediaMTX, worker, panel | the paths end up as the rows say, after any crash |
| turning cameras (`ptz/`) | lock in Redis, watchdog tasks and last directions in memory, the camera itself | press, stop, watchdog, shutdown | Redis, cameras over HTTP | the camera always stops; one holder at a time; no lock without a holder |
| sessions (`auth/sessions.py`, `auth/deps.py`) | hash of a session, index of a user | create, touch, rotate, delete, end all | Redis, every panel request | ended sessions stay ended; a hard limit on a session's life |
| signing in (`web/auth_views.py`, `auth/ratelimit.py`, `recovery.py`) | counters of attempts in Redis, `failed_attempts` and `locked_until` of the row, hashes, links of letters | sign in, change, forget and reset the password; reset from the command line | PostgreSQL, Redis, mail | a lock that nothing but its reasons lifts; no old password comes back; one link that works; a bound on attempts |
| second factor (`auth/totp.py`, `web/profile_views.py`, `web/auth_views.py`) | secret and flag of the row, recovery codes, keys of used codes and the offered secret in Redis | offer, turn on, turn off, enter with a code of either kind, the administrator's reset | PostgreSQL, Redis | a code works once; flag, secret and codes belong together |
| invitations, administration (`invites.py`, `web/invite_views.py`, `web/admin_views.py`, `mail.py`) | rows of invitations and users | create, send again, revoke, accept, clean up; switch a user on and off, change a role | PostgreSQL, mail | one working link per address; one active administrator at least; a letter's link is stored |
| probing (`worker.py`, `media/probe.py`, `web/panel_views.py`) | what the camera's row stores of its probe and of its identification for PTZ | worker's batches, operator's diagnosis, identification, edit | cameras, PostgreSQL | a result belongs to the address and settings it was taken with; every camera is probed in the end |
| path configuration and diagnosis (`media/paths.py`, `media/diagnose.py`, `media/probe.py`) | the report under way, the path in MediaMTX | build and compare configurations; the steps of a diagnosis and of a preview | cameras, MediaMTX, reconciler | a good report is of a camera that is served; nothing equal is replaced; the path follows the row |
| journal, clean-up (`audit.py`, `worker.py`) | journal, ended views, tokens | record, prune in batches | PostgreSQL | nothing younger than the limit goes |
| metrics (`metrics/`), pages, settings, forms | ring buffer in Redis | sample, read | host | bounded buffer |
| start-up, encryption, schema (`main.py`, `crypto.py`, `db.py`, `schema_check.py`, `cli.py`) | keys, schema | start, rotate keys | all | appears in the models as rows that cannot be decrypted |
| installation (`src/install.sh`, `src/ops/*.sh`, compose, CI) | files | run by hand | docker | not modelled |

The hard behaviours, with their lines, are the `hazards` of `PROJECT.json`.
Most are of one kind: something is read, the handler waits, and acts on what
it read.

## 2. The modules

| module | stands for | proofs |
|---|---|---|
| `Watching` | the abstract promise of a public link: who is let through, and until when | in `LinkAccessProofs` |
| `LinkAccess` (implements `Watching`) | access by public links, cut at the awaits, with the life of every Redis key | `LinkAccessProofs` |
| `ViewerLimit` (extends `LinkAccess`) | history variables to say who may pass a link's limit, and who may watch uncounted | in `LinkAccessProofs` |
| `Reconciler` | the paths of MediaMTX against the rows of cameras | `PathProofs` |
| `PtzControl` | one camera, its lock, its watchdog and the drivers' ways to stop | `PtzControlProofs` |
| `Sessions` | the sessions of one user, the set that lists them, and everything that ends them | `SessionsProofs` |
| `RateLimit` | one counter of attempts, a fixed window in Redis | in `SignInProofs` |
| `SignIn` (extends `RateLimit`) | one account: password, lock, hashes made anew, forgotten passwords | `SignInProofs` |
| `OneTime` | the abstract promise of a one-time code | in `SecondFactorProofs` |
| `SecondFactor` (implements `OneTime`) | the second factor of one account and its recovery codes | `SecondFactorProofs` |
| `Accounts` | invitations and the administration of accounts | `AccountsProofs` |
| `Probing` | what is stored of asking a camera, against edits and deletions | `ProbingProofs` |
| `Diagnosis` | the configuration of a path, a diagnosis and a preview, against edits and the reconciler | in `PathProofs` |

`MC<module>` gives the constants their values for TLC, one `.cfg` per run.
Actions are named after the handler, or the step of it, that they stand for; a
definition whose name says how it differs from the one below it (*A mutant:*) is
a plausible bug kept for the sensitivity of the properties and used by nothing.

### LinkAccess

State: the rows (`link`, `token`, `camera`), three kinds of Redis keys with the
ticks they have left (`viewerHash`/`viewerTtl`, `linkViewers`/`setTtl`, `cache`),
the media server (`paths`, `rtc`), one page request and one media request per
browser (`page`, `media`), one operation of the panel (`op`), and `deadFor`, a
history variable: the ticks since a link could last be watched.

* **Page** (`public_views.py:52-242, 321-360`): `PageOpen` finds and judges the
  link, `PageAuthorize` decides between token, password form and reload on the
  grant alone, `PageCapacity` checks the limit after the password,
  `PageGrant` writes the grant. The limit and the grant are different steps.
* **Media** (`authz.py:206-378`): `MediaLookup` reads the grant; the verdict
  comes from the cache (`MediaHit`), or from the rows (`MediaMiss`) and is then
  written to the cache in another step (`MediaFill`); `MediaServe` is what follows
  at MediaMTX. Every way that allows extends the keys as `_allow` does.
* **Panel** (`panel_views.py:306-418, 837-945`): each operation in the order the
  code has it, commits and Redis calls and requests to MediaMTX as steps;
  `link_delete` and `camera_delete` take the keys away before their commit, the
  others after. `Kick` and `DropPath` may fail when `MtxFails`.

Read as one step, because nothing can tell the difference: the link and
its camera (one query after another in the same function, judged together),
`SISMEMBER` and `SCARD` of the limit, the write of the cached verdict with the
extension that follows it. Read as one step as well, though a key can go between them: the
cached verdict and the extension it allows (`MediaHit`); such a key is then not extended, as when
it goes between `MediaLookup` and `MediaHit`, which the model has. One operation of the panel is
in flight at a time, and links are created before the story begins.

**Watching** is what all this is for: `LetThrough` is allowed to a viewer who is entitled to
the link, on its own camera, while it lives and for `Grace` after, and to an operator;
`Answered` ends the request and may leave a WebRTC session that begins within `Patience` more.
It knows no keys, no cache and no pages. `LinkAccess` maps to it (`Watch`) the requests that
have been allowed and not answered, the sessions, and its own `deadFor`; a request that goes
through the cache, the rows and Redis is one step there, and so is everything the panel does.

**ViewerLimit** adds nothing that happens, only what must be remembered: `overtaken`
(somebody took a place between a request's check and its grant), `late` (the viewers who
came in overtaken), `given` (what a browser was granted since it last had nothing and no
request of its was reading) and `crossed` (who came in between the `SMEMBERS` and the
pipeline of `drop_link_viewers`). `Remember` is conjoined with every step.

### Reconciler

State: rows with a number for their configuration (it grows with each
edit), MediaMTX's `paths` and whether it is `up`, the panel's requests (an edit after
its commit, a diagnosis after its reading of the row), the worker's place in its cycle with
what it has read, and two history variables. `calm`: nothing but the worker has acted since its cycle began.
`doubtful`: the cameras whose last push may not have left what the row asks for. An
edit makes its camera doubtful when another push or a diagnosis of it is under way, when the
worker has read the rows and not ended its loop, or when it pushes a camera that is
switched off (`Met`); so do the diagnosis of a camera that is switched off, a push that fails or
is lost with the api, and a crash of MediaMTX (for all). The write of a diagnosis that fails
changes nothing and makes nothing doubtful. The next edit that meets nothing clears the doubt, and
so does a reconcile that nothing disturbed, for the cameras nobody of the panel's requests can
still write (`Writers`).

`ReadDesired`, `ListPaths`, `ApplyOne`, `RemoveOne`, `ReadStatuses`, `Repush`, `Readd` follow
`reconciler.py:44-196`; one request to MediaMTX is one step that happens, or fails, or (add)
finds the path there already. The panel commits and pushes from what it committed
(`panel_views.py:204-596`), switching a camera off drops its path, a profile change pushes
whatever the switch says, and a URL that cannot be decrypted ends the request with an error
after its commit. A diagnosis reads the row of a camera, switched on or off (`Diagnose`), speaks
to the camera for up to half a minute, compares the path with what that row asked for
(`Compare`, which also stands for the earlier steps that end it), and writes it when it differs
(`media/diagnose.py:293-323`), by the same replace and add as a push. `MtxCrash` loses every
path; `PanelRestart` and `WorkerRestart` lose what was in flight. Loading a camera's row and
committing it are one step; a request that MediaMTX carries out after the client has given up is
not in the model.

### PtzControl

State: the `lock` in Redis, the requests in flight, the `watchdog` entry of
`_watchdogs`, `last` (the entry of `_LAST_DIRECTION`), the `camera` with the
direction it turns in and the ticks since the last command, and the history variables
(`told`, `letGo`, `neglected` and the counters of the bounds). A press is `PressTaken` (or
`PressBusy`), `CameraMoves`, `MoveAnswered`; it can fail before or after the
camera has obeyed. A stop is `Release` (which cancels the watchdog first, as
`service.py:299` does), `StopSent`, `CameraStops`, `Unlock`. An error of Redis is caught by
nobody (`service.py:281` lists what is): `RedisFails` ends a request that is on its way to the
camera or to the lock, leaves the lock as it is, and the panel without an answer. The watchdog wakes,
sends, stops. Resolving the camera and sending to it count as one wait for a
move, and as two for a stop, because the Dahua driver forgets its direction in
between. A Dahua camera obeys a stop only of the direction it turns in, as
`vendors.py:154-155` says; a request that failed is not obeyed later.
Axis, Hikvision and ONVIF stop whatever the direction. A camera is identified and
configured before the story begins; rate limits and the journal are left out.

### Sessions

State: the hashes (`sess`, each with its kind, the ticks it has left and, for a
remembered one, the ticks up to its limit), the set `index` with its own
lifetime, the columns of the user's row that matter (`active`, `totp`, the
number of the `password`), the requests in flight (`req`), and the runs of
`delete_all_for_user` and `list_for_user` (`endings`). History variables: the
password a session was opened with (`ver`), the last password whose reset is
over (`settled`), and the sessions that worked when an ending began (`before`).

* **Signing in** (`auth_views.py:84-263`): `PasswordRight` has judged the row it
  read; `SignIn` or `SignInPending` writes the session after further awaits.
  `CodeArrives`, `CodeRight`, `Rotate` and then the deletion of the old identifier
  are the second factor; `CodeRefused` is too many codes.
* **A request** (`deps.py:60-98`): `PageArrives` loads the hash, `ReadUser` the row,
  `Touch` writes `last_seen` and the lifetimes from what was loaded. A hash that
  has gone meanwhile comes back with `last_seen` alone: the kind `ghost`.
* **Ending** (`sessions.py:169-247`): `FindOwner` and `Drop` are `delete`;
  `ListIndex`, `ReadSessions`, `Purge`, `DeleteAll` are `delete_all_for_user`
  with the listing inside it, begun by the action that commits its cause (`Reset`,
  `ChangePassword`, `EndOthers`, `Disable`, `ResetTotp`). `ProfilePage` lists and
  ends nothing. `CliResetPassword` ends nothing either.

A handler that fails is one that takes no further step. Read as one step: loading the row and
committing it within an ending's cause. Left out: the CSRF token, the role (read again with each
request), the limits on attempts (`SignIn`), other users (sessions of different users share no
key).

### RateLimit and SignIn

`RateLimit` is `ratelimit.py:52-109`: `Hit` is one transaction of Redis, which sets
the key with its end if it is not there and counts; `passes` remembers when an attempt was
let through. `SignIn` uses one such counter, the one by account; the counter by address is a
choice (`byIp`), because other accounts share it, and those of the forgotten-password
form are left out, being further instances of `RateLimit`.

State: the user's row (`pw` is the number of the password, `old` whether its hash has old
parameters, `failed`, `locked`), the rows `links` of letters, and what every request
has read. An action that commits writes what it has changed of the row it read
(`Updated`): SQLAlchemy leaves the other columns alone. `LoginArrives`, `LoginReads`,
then `LoginMisses` or `LoginSucceeds` and `LoginResets` (the counter) are
`auth_views.py:84-190`; `ChangeArrives`/`ChangeCommits` are the profile's form,
`ForgotArrives`/`ForgotCommits` and `ResetArrives`/`ResetCommits` the letter and its link
(`recovery.py:40-129`), `CliResets` the command line. `Restarts` loses what was in flight.
What a new password does to the sessions is in `Sessions`.

### OneTime and SecondFactor

`OneTime` accepts a code that was never accepted, and nothing else. `SecondFactor` gets there
with keys that Redis forgets: `spent` holds the steps of TOTP with the moment of
oblivion, and `accepted`, a history, is what `OneTime` calls `spent`; `Once!Spec` is the
refinement. The unit of time is a step of TOTP (30 s), and a code fits for
`ValidWindow` steps around now.

`VerifyReads`, `VerifyTotp` or `VerifyRecovery`, `VerifyCommits` are the second page of
signing in (`auth_views.py:193-286`); `SetupOffers`, `EnableArrives`, `EnableProves`,
`EnableCommits`, `EnableForgets` and `DisableArrives`, `DisableCommits` are
`profile_views.py:96-183`; the administrator's reset (`admin_views.py:234-254`) is a
disabling. Recovery codes made together are one set with one code standing for all.
Deletions are of the rows that were read (`dels`). `clashes`, a history, counts changes
that commit over a row or codes that are not what they had read. The reading of the row and
what is read of Redis with it are one step.

### Accounts

State: the rows of `users` and `invites` (numbered as they are inserted), and the
requests in flight. Inviting is `AdminArrives`, `CreateChecks`, `CreateReads`,
`CreateFlushes`, then the letter (`MailSent`, or `MailFailed`, which may have arrived all the
same) and `CreateCommits`; `Reissue` and `ReissueCommits` send again; `Revoke`, `Toggle`,
`ChangeRole` have a step that reads and one that commits; `AcceptArrives`, `AcceptInserts`,
`AcceptCommits` or `AcceptTaken` are the guest's page; `CliCreateUser`, `Expires` and
`CleanupInvite` the command line, time and the worker. A flushed row is locked until the
commit (`Locked`, `Taking`), as PostgreSQL locks it. Histories: `adrift` (tokens mailed and not
stored), `overlaps` (invitations whose requests overlapped), `raced` (an account changed by
one who had lost the right).

### Probing

State: of each row what concerns its probe and its identification, with numbers for
addresses and settings; the batch the worker has read; the requests of the panel. `ReadBatch`,
`CommitBatch`, `WorkerRestarts` are `worker.py:93-162, 283-305`: one commit for all, which
fails for all when one row is gone. `EditArrives`/`EditCommits`
(`panel_views.py:306-418, 616-664`), `DiagnosisArrives`/`DiagnosisCommits`,
`CheckArrives`/`CheckCommits` read and commit; an edit clears what it has *read* to be
there. An identification stores the driver it found among the settings as well
(`panel_views.py:684-687`), which makes them new settings when they did not name it
(`settles`). `late` and `metaLate`, histories, say that the last edit overlapped somebody who
asked; `metaLate` also that two identifications have overlapped since.

### Diagnosis

`BuildPathConf`, `ConfDiff`, `SameValue` are `media/paths.py`, with the durations as MediaMTX
writes them back (`Stored`). A diagnosis (`media/diagnose.py`) takes the steps `CheckDns`,
`CheckTcp`, `CheckRtsp`, `GrabFrame`, `CheckPathConfig`, `PollStream` and what comes of it,
`CheckWhep`; each may end it. The camera's `stream` is chosen once, and what only
the network decides is chosen at each step. `Change`, `PushRow` and `Reconcile` write the same path;
`Reconcile` is one step here, `Reconciler` takes it apart. `Summary` is the verdict.

## 3. The runs

| run | asks | bounds |
|---|---|---|
| `link_lifetimes` | for how long can a dead link be watched, cached, opened? when may a WebRTC session begin? | 1 link, 1 viewer, every way to die (revoke, delete, camera off or deleted, expiry), a new address, every failing request to MediaMTX, 1 session, a handler as long as a cached verdict lives, the viewer an operator as well |
| `link_two_links` | can one link's grant, or the operator's, open another link's page? who passes a limit, and who watches uncounted? | 2 links on 1 camera, each with a limit of one, both sent to 2 viewers, one with a password only one of them knows, an operator; keys of 1 tick, no operation of the panel; both viewers are sent both links, so of an invitation only the password is at stake here |
| `rec_cycles` | does one undisturbed cycle repair everything, does a push stay, and do the paths converge? | 2 cameras (one undecryptable), 2 requests in flight, 2 edits or diagnoses, 2 mishaps |
| `ptz_buttons` | does the camera stop in time, is the lock given back, and does only its holder move the camera? | 2 holders, 2 requests in flight, 2 directions, 5 requests in all, 2 mishaps, Axis and Hikvision |
| `sessions_endings` | is every session of a user found and ended, does what has ended stay so, how long may one live? | 2 requests in flight, 1 ending or listing, 2 sessions ever, windows of 1 and 2 ticks, 1 new password, both second factor settings, the command line |
| `accounts_invitations` | which links work, who can administer, what became of a letter? | 2 requests in flight, 2 addresses (one the first administrator's), 2 invitations, 3 tokens |
| `probing_batches` | is what is stored of today, and is every camera probed in the end? | 3 cameras (one unreadable, one that does not answer) in batches of 2, 1 request beside the worker, 1 edit, 1 crash or restart |
| `diagnosis_reports` | what does a good report mean, and who has the last word on the path? | a codec of every kind, TCP, UDP and no transport, 1 edit by the form or the button |
| `signin_passwords` | who lifts a lock, does an old password come back, which links work, how many attempts pass? | 2 requests in flight, limit 1 in a window of 2, a lock after 2 failures, 4 ticks, 1 new password, 2 links, an old hash |
| `factor_codes` | is a code accepted once, do flag, secret and codes belong together? | 2 requests in flight, 4 steps of TOTP (a key lives for 4), 2 accepted codes, 2 secrets, 2 sets of recovery codes |
| `ptz_dahua` (violation) | a Dahua camera nobody stops | 4 requests, no failure at all |
| `sessions_reset` (violation) | a session of the old password that works after its reset | 1 session, 1 request, 1 reset |

Why the bounds are enough: two of everything that competes (viewers of a link, links of a
camera, requests of the panel, holders) is the least that can race, and the races the code has
are between two; lifetimes matter by their order and by whether a key runs out between two steps
of a handler, which one or two ticks show. One user's endings are single in `sessions_endings`,
because two of them with two requests take the run past its time; `EndingsEndAll` proves the
same property for any number. In `probing_batches` there is one request beside the worker,
because three cameras and a full batch matter for its liveness; two requests that overlap each
other are covered by `ProbingProofs`, and the safety properties pass with two cameras, two
requests and two edits as well (four million states). In `link_two_links` nobody drops viewers,
for the same reason: with a revocation, and without the operator and the password, the instance
has seven million states, takes three minutes, and passes. `ViewersLimited` proves it with every
operation. The theorems below remove the bounds from every safety property a passing run checks.
Deadlock is not checked: a story ends when its bound is used up and nobody has to act.

**Fairness.** `rec_cycles`: weak fairness of the worker's steps (its loop
goes on after any exception, `worker.py:268-305`), of each request's remaining
steps (a handler that runs ends), and of `MtxStart` (`restart: unless-stopped`
in `docker-compose.yml`). `probing_batches`: of the worker's steps alone, by the same loop;
nobody has to finish a request. `diagnosis_reports`: of the reconciler's cycle and of
pushes, which a timeout bounds. No edit, crash or failure is ever required, and the
bounds on them are what "mishaps stop" means. Time in the other
modules needs no fairness: `Tick` may not pass a handler's limit, so what a bound
says is true of every behaviour.

### What the properties say

* `StaleVerdictBounded`: after a link dies a cached "valid" lives at most `CacheTtl +
  RequestTicks`. The documents promise zero (`internal/authz.py:13`); this sum is what
  the code gives.
* `WatchedByRight`: `LinkAccess` implements `Watching`. Whoever is let through was sent the link
  and knows its password, asks for the link's camera, and the link lives or died no longer ago
  than that (a WebRTC session: than that and one request's length); or he is an operator. Every
  revocation, rotation, deletion, failure and expiry of a key is in it, because nothing of them
  is in `Watching`.
* `LimitKept`: a link's limit is passed only by viewers whom another one overtook between the
  counting of the places and the taking of theirs; and a browser that holds the link's grant
  is in `link_viewers` unless it was given another grant as well, which keeps its hash alive when the set
  has run out, or came in while the link's viewers were being dropped.
* `LateGrantBounded`: only a page request already running when the link died
  still opens it, on the reload without a token as well.
* `GrantOnlyToInvited`: a grant, or a place among a link's viewers, goes only to
  those who were sent that link and know its password. The run, where everybody is invited,
exercises the password; the theorem `GrantsAreInvited` has both halves.
* `PathsFollowRows`: one undisturbed cycle repairs whatever came before
  (`CalmCycleRepairs`), and the path of a camera that is not `doubtful` and has no push under
  way is what its row asks for (`PushesStick`). The worker acts on rows and paths read
  several requests ago, and a diagnosis on a row read half a minute ago; neither takes a path
  back except in the races `doubtful` names. `Converges`: see `rec_cycles`.
* `StopsInTime`: a camera turns no longer than its own limit or, when it has
  none, `MoveTicks + 3 * RequestTicks` after the last command: the answer of the
  move, the watchdog's delay, the watchdog's stop that is cancelled at the last
  moment by a stop, and that stop. The exception (`neglected`) is a stop, or a
  move already carried out, that fails, and a restart, until the next answered
  move; `service.py:14-22` accepts only the restart.
* `LockMeansControl`: the lock is held only for a holder with a request in flight, one who was
  told that the camera follows him, or one who was left without an answer by a restart or a
  failure of Redis (`HeldForSomebody`); and a move on its way to the camera is of the one who
  holds the lock, unless he let go of it himself, with a second request that stopped or failed
  meanwhile (`MovesAreHeld`; it takes a lock that outlives a request, 15 s against requests of 4
  s each).
* `IndexOutlives`: a working session is in the index of its user, and the index
  lives as long. What ends sessions or shows them sees nothing else.
* `EndingsEnd`: when an ending is over, nothing that worked when its cause was
  committed still works. It says nothing of sessions created later; that is
  what `ResetEndsSessions` asks, and what the code does not give.
* `LifetimeBounded`: how long a session lives after its last request: one window,
  or the rest up to the limit of a remembered session, rounded up to a second.
* `OverForGood` (`Sessions`): an ended session never works again, whoever still writes to it.
* `TwiceAtMost`: a counter lets through at most twice its limit in any stretch as long as
  its window. This is what keeps a password from being guessed, because `failed_attempts`
  loses parallel attempts.
* `LockStands`: a lock ends early only by the right password, a link from a letter or the
  command line; or by a request that took as long as the lock.
* `PasswordStays`: the password is the last one set, but for the hash made anew from
  old parameters, which is written without looking.
* `OneWorkingReset`, `OneWorkingLink`: two links of letters, or of invitations, work
  together only if the requests that made them overlapped. The comments promise one
  link with no exception (`recovery.py:43`, `invites.py:83`).
* `OnlyOnce`: a code of the phone is accepted once (the refinement of `OneTime`).
* `RecoveryBounded`: a recovery code signs in at most as often as requests can overlap.
* `FactorWhole`, `SecretIsProven`: without overlapping changes the flag, the secret and the
  codes are one; an account that asks for codes and has no secret takes two overlaps;
  no secret is stored that its owner has not shown a code of.
* `AdminRemains`: somebody can administer, unless an account was changed by one who had
  lost the right between its check and his commit.
* `AcceptedMadeAccount`, `LettersKept`, `OverForGood` (`Accounts`): the account of an
  accepted invitation is the one it made; a mailed link is stored, about to be, or its
  request died; what is revoked or accepted never works again, though a late commit of a
  sending writes a new token to it.
* `ProbeOfItsUrl`: the probe that is stored was taken with the address of today, unless its last
  edit overlapped somebody who asked.
* `MetaOfItsSettings`: the identification that is stored was taken with the PTZ settings of today,
  the driver it found among them, unless their last edit overlapped an identification or two
  identifications have overlapped since. The address is not one of these settings: an edit of
  it keeps what was made with the old one (see below).
* `EventuallyProbed`: every camera that can be read is probed in the end, as long as those
  that cannot be read do not fill a batch.
* `GreenMeansServed`: a report of a diagnosis with no failure is of a camera MediaMTX was serving
  over TCP, transcoded or not, in a codec browsers play and the probe would not transcode. So
  no diagnosis of a camera that gives its stream over UDP alone ends well, with any profile.
* `NeverNeedless`: no path is replaced by a configuration that means the same.
* `PathFollows`: after the edits the path agrees with the row again and again, and for a
  camera that is on for good.

### What the runs refute

Each is a `finding` in `PROJECT.json` with the sentence it contradicts:
a Dahua camera left turning with no failure; a sign-in with the old
password that gets its session after the reset has ended them all (a session
that waits for its second factor is replaced in the same gap by a new one the
reset has not seen).

Behaviour of the same models that a document, a comment or a test speaks against, and that
has no run of its own (the property that bounds it is named where there is one):

* A revocation is overtaken by a verdict read before it and cached after it
  (`internal/authz.py:280`, against line 13; `StaleVerdictBounded`).
* Two viewers pass a limit of one: it is checked in one round trip and the viewer added
  in a later one (`web/public_views.py:88`, against line 79; `LimitKept`).
* A pushed edit is taken back by the cycle that read the row before it, until the next
  (`media/reconciler.py:79`, against line 8; `PushesStick` excepts, among edits whose
  push succeeds, those that meet such a cycle, another push or a diagnosis, the profile of a
  camera that is switched off, and the diagnosis of such a camera).
* A pushed edit is taken back by a diagnosis that read the row before it: it finds the path
  different from what that row asked for, writes the old configuration over it, and reports
  that the path was brought up to date (`media/diagnose.py:314`, against
  `media/reconciler.py:8`; until the next cycle, `PushesStick`).
* The diagnosis of a camera that gives its stream over UDP alone tells the operator to switch
  to transcoding, because ffmpeg can pull over UDP (`media/diagnose.py:183-184`); the command
  of a transcoded path says `-rtsp_transport tcp` (`media/paths.py:120`), so the camera stays
  dark, and the next diagnosis fails too and repeats the advice (`GreenMeansServed` says that
  it never ends well).
* A press whose Redis call fails after the lock was taken leaves it taken until it expires,
  with nobody who was told that the camera follows him (`ptz/service.py:281`, against the comment at
  line 282; the case `HeldForSomebody` admits).
* A camera is stopped by somebody who does not hold it (`ptz/service.py:299`, against
  `ptz/lock.py:5`).
* A password reset from the command line ends no session (`cli.py:97`, against
  `src/docs/security.md:122`).
* An edit of the address alone keeps the identification for PTZ made with the old one
  (`web/panel_views.py:635`, against line 630).
* A sign-in that makes an old hash anew brings the old password back over a reset that
  committed meanwhile (`web/auth_views.py:166`; the case `PasswordStays` admits).
* Two overlapping requests for a letter, or two administrators inviting one address,
  leave two links that work (`recovery.py:48`, `invites.py:82`).
* Two administrators who switch each other off leave nobody to administer
  (`web/admin_views.py:226`; the case `AdminRemains` admits).
* The same recovery code signs in twice if the requests overlap
  (`web/auth_views.py:277`).
* A diagnosis of a camera that is switched off creates its path; the next cycle takes it
  away (`media/diagnose.py:304`; the reason for the first half of `PathFollows`).
* The only viewer of a link with a limit of one opens its password form again and is
  refused: the check does not ask whether he is among those counted
  (`web/public_views.py:341`, against the comment at line 81).
* A rotation takes away the grants of a neighbouring link: a viewer's grant for a
  camera names one link, the last opened, and dropping the link's viewers drops
  the hash (`internal/authz.py:197`, against `web/panel_views.py:936`).
* A request that touches a session after its deletion leaves a ghost. It gives
  access to nothing, but `/login` takes it for a session (`web/auth_views.py:72`)
  and sends the browser to a page that sends it back, until the ghost expires.
* A remembered session used in the last second before its limit is extended by a
  second each time: `load()` does not look at the limit, and `_ttl_for` rounds up
  (`auth/sessions.py:84`, against `src/docs/security.md:122`).
* A page request authorised with the old address before a rotation grants
  after it; the link is alive, so the viewer stays (against
  `web/panel_views.py:873`).
* A WebRTC session allowed before a revocation appears after its kick and
  nothing ends it (against `web/panel_views.py:934-935`).
* A holder of a grant is missing from `link_viewers`: its two keys are extended
  by different requests (against `internal/authz.py:366`; `LimitKept`).
* A short operator grant gets the long life of the viewer's hash with the first
  media request (against `internal/authz.py:337`).
* A profile change pushes the path of a camera that is switched off
  (`web/panel_views.py:505`), until the next cycle.

## 4. The theorems

| theorem | of | says |
|---|---|---|
| `LinkAccessProofs!TypeCorrect`, `PathProofs!TypeCorrect`, `PtzControlProofs!TypeCorrect`, `SessionsProofs!TypeCorrect` | `TypeOK` | type correctness |
| `StaleVerdict` | `StaleVerdictBounded` | the bound on a cached verdict |
| `WatchedRightfully` | `WatchedByRight` | `LinkAccess` implements `Watching`, from `DeadLinkAccess` (no request passes on a link that has been dead for longer) and the rights below |
| `LateGrant` | `LateGrantBounded` | |
| `GrantsAreInvited` | `GrantOnlyToInvited` | |
| `ViewersLimited` | `LimitKept` | for any limits, links, viewers and operations |
| `CalmCycle`, `PathsFollow` | `CalmCycleRepairs`, `PathsFollowRows` | for any cameras, requests, edits, diagnoses and mishaps |
| `GoodReports`, `NothingNeedless` | `GreenMeansServed`, `NeverNeedless` of `Diagnosis` | for any number of changes |
| `CameraStopsInTime` | `StopsInTime` | for every driver but Dahua's |
| `LockIsControl` | `LockMeansControl` | from `LockHeldForSomebody`, for any holders and requests |
| `IndexOutlivesSessions`, `EndingsEndAll`, `Lifetimes` | `IndexOutlives`, `EndingsEnd`, `LifetimeBounded` | for any number of endings at once |
| `OverStaysOver` | `OverForGood` of `Sessions` | an action property, from type correctness and the invariant |
| `SignInProofs!TwiceTheLimit`, `CounterHolds` | `TwiceAtMost` | of the counter alone, and as signing in uses it |
| `SignInProofs!Types`, `LastPassword`, `OneLink`, `LockHolds` | `TypeOK`, `PasswordStays`, `OneWorkingReset`, `LockStands` | for any limits, times, requests and links |
| `SecondFactorProofs!Types`, `CodesOnce` | `TypeOK`, `OnlyOnce` | `SecondFactor` implements `OneTime` |
| `SecondFactorProofs!FactorHolds`, `SecretProven`, `RecoveryHolds` | `FactorWhole`, `SecretIsProven`, `RecoveryBounded` | for any number of requests and sets |
| `AccountsProofs!Types`, `OneLinkHolds`, `AdminStays`, `AcceptedHolds`, `LettersStay`, `OverHolds` | `TypeOK`, `OneWorkingLink`, `AdminRemains`, `AcceptedMadeAccount`, `LettersKept`, `OverForGood` | for any number of requests, addresses and invitations |
| `ProbingProofs!Types`, `ProbesAreOfToday`, `MetaIsOfToday` | `TypeOK`, `ProbeOfItsUrl`, `MetaOfItsSettings` | for any number of cameras and requests and any batch |

They assume only the named `ASSUME`s of the modules: constants are numbers or
sets of the right kind, `Nobody` is no holder, requests are finitely many (for the
cardinality in `RecoveryBounded`), and (for `CameraStopsInTime`) no Dahua camera.

The arguments:

* **LinkAccess, the grace.** `DeadLinkAccessBounded` is not inductive: what a
  media request is allowed on was read earlier. `GraceInv` adds that a watchable
  link has `deadFor = 0`, and that a verdict, or a page's judgement, that is being
  carried by a request is no older than the request (`FreshRead`, `FreshPage`).
  A tick ages link and request together; a fill then starts at most
  `RequestTicks` after death and lasts `CacheTtl`.
* **LinkAccess, the invited.** `InvitedInv` adds what each stage of a page
  request has earned (`PageEarned`): a token shows that the address was sent,
  the form that the password is known, a reload that the grant was the link's own.
* **LinkAccess implements Watching.** `RightsInv` says who may have what names a link: a field of
  a viewer's hash is the operator's own, or names a link of that field's camera (`HashRights`),
  and a media request keeps the right it found there, whatever becomes of the hash
  (`MediaRights`); that the viewer was sent the link comes from `InvitedInv`, the times from
  `GraceInv`. An allowed request is then a `LetThrough`, `MediaServe` is `Answered`, kicks and
  crashes are `SessionsEnd`, a commit of the panel or an expiry is `LinksChange`, a tick is
  `TimePasses`, and every other step is a stutter.
* **ViewerLimit, the places.** `LimitInv` adds to the property that a request which has been
  checked and not overtaken has its viewer among the counted or a place free for him
  (`PlacesHeld`). Every step but a grant leaves each set of viewers as it is or empties it
  (`Orderly`); a grant overtakes every other request that waits for the same link.
* **ViewerLimit, the counted.** The set of a link outlives the hash of every viewer who was
  given nothing else (`CountedInv`): a grant gives both the same time, a media request extends
  the set to the longest life there is when it extends the hash (`SetBound`), and nobody but
  `drop_link_viewers` empties a set before its time. Of those it empties, all but the `crossed`
  lose their field of the hash in the same pipeline (`CrossedInv`), which goes by the camera of
  the link (`OpAims`, `HashRights`).
* **Reconciler, the calm cycle.** `CalmInv` follows the cycle: what was read is what
  the rows say (`Fresh`), what is left to apply is exactly what differs
  (`Applying`), what is left to remove is exactly what nobody wants (`Removing`),
  and in the last stage everything agrees (`Agrees`, `Pushing`), as long as
  `calm` holds.
* **Reconciler, the pushes.** `DoubtInv` says of every camera beyond doubt (`Undoubted`) that
  whoever is still going to write its path writes what the row asks for: of the panel's requests
  the push under way is the only one, every one of them, push or diagnosis, carries the row's
  configuration, and an "add" finds nothing or what it would add (`WritesWanted`); the worker,
  between its reading and its last request, holds the row as it still is, and what it removes is
  wanted by nobody (`RemovesUnwanted`). The invariant of the calm cycle is what lets
  `RemoveEnds` clear the doubt.
* **PtzControl, the stop.** `CareInv` says who is going to stop a turning camera:
  a move that waits for its answer (and will arm the watchdog), the watchdog
  asleep or on its way, or a stop on its way, each with the ticks it can still
  take. Each hand-over from one to the next adds one request's length.
  With Dahua a hand-over can drop the direction, which is where the proof fails
  and `ptz_dahua` has its trace.
* **PtzControl, the lock.** `HeldForSomebody` is inductive as it stands. `GripInv` says that a
  move under way has the lock with at least `HoldTicks` less the request's age to go; a request that
  is no older than `RequestTicks` therefore never loses it to the clock.
* **Sessions.** `SessInv` is `IndexOutlives`, `EndingsEnd` and `LifetimeBounded`
  with what carries them. An ending works from a snapshot of the index, so it
  must be shown that a session which worked at its start is in whatever part of
  the snapshot the ending has reached (`Listed`). Its `stale` part is removed from
  the index later, without looking again; this is harmless because an identifier
  that was once found gone never works again (`StaleOver`), which rests on
  identifiers being new (`Born`, `Known`). A touch uses limits
  loaded earlier; they have aged exactly as the session itself (`Snapshots`).

* **RateLimit.** `TwiceAtMost` compares an attempt with the one two limits later.
  `WindowInv` says that the attempts up to `Before` were let through before the running window
  opened (`Opened`), and those a whole limit earlier more than a window before that. When
  a new window opens, the second part follows from the first.
* **SignIn.** `PasswordStays` is nearly inductive: it needs only that no row has an old hash
  unless the account began with one (`HashKnown`), because a commit writes the password only
  when it has changed it. `OneWorkingReset` rests on `LinksSeen`: of the links that were there
  at its SELECT, a request for a letter holds every unused one. `LockStands` is a property
  of steps, from type correctness and the count of failures it contains.
* **SecondFactor.** `ReplayInv`: an accepted step whose code still fits has a key that
  outlives its fitting; the refinement maps acceptance to `Accept` and
  everything else to a stutter. `FactorInv` adds to the properties what a request has
  in hand (`InHand`): a proven secret to turn on, a whole row to turn off as long as nothing
  has clashed. `RecoveryInv` counts the sign-ins with a set together with the requests
  that are about to commit one (`Committers`): a used set gains no new ones.
* **Accounts.** `Typed` is type correctness with `RowsMeant` (which requests have a row and a
  token). `FreshInv`: an invitation that is not committed belongs to one request and has
  made no account. `SeatsInv`: an account that is being inserted is not there, and by one
  request only. `AdminInv`: nobody changes his own account, so whoever acts remains an
  administrator, or had ceased to be one (`raced`). `AcceptInv`: a guest's request knows the
  address of its invitation. `PairInv`: whoever invites has in hand every pending invitation
  to the address, as one it has read or as one that was committed since (`missed`); the first it
  revokes, the second go into `overlaps`.
* **Probing.** `ProbingInv` has a part for each camera (`CamInv`: stored results, and what the
  worker asks with, are of today unless `late`) and for each request (`ReqMeans`: it asks with
  today's address unless `late`, and with today's settings unless `metaLate` or another
  identification met it; an edit has read what is stored, or knows that it was met). An edit
  that was met by nobody therefore clears everything that is stored.

* **Diagnosis.** `DiagnosisInv` follows a report through its steps: what the steps before
  have found and not ended it with (`ReportSoFar`), so that a playlist once given means that
  MediaMTX could pull the stream, or that the camera was changed meanwhile (`Pulled`); and that
  before the first change there is nothing but the first configuration (`Unchanged`).
  `NothingNeedless` is inductive as it stands: a path equal to what is wanted has no `ConfDiff`.

Only model-checked: `Converges`, `EventuallyProbed`, `PathFollows` (liveness under fairness
is out of the prover's reach). Refuted properties have no theorem, of course.

## 5. Plan

What is left, in the order of its worth:

1. `ViewerRegistry`: the registry of links with viewers, counted and cleaned by
   `count_all_viewers`, against page grants. Extends `LinkAccess`.
2. `PathMirror`, an abstract specification (the paths are some earlier state of the rows,
   corrected step by step) implemented by `Reconciler`.
3. The composition of `SignIn` with `Sessions`: both have the reset, each with its own half.
4. `Cleanup`: the pruning of the journal in batches, of views and of tokens; the ring buffer
   of metrics.
5. The statuses and failure streaks `refresh_statuses` writes, with the cameras that are
   deleted under its single commit.

## 6. Not modelled, and why

Rendering, forms, validation of single fields, logging and settings hold no state
between requests. Reading procfs, ffmpeg and ffprobe, DNS and SMTP are
input and output; the models have their failures. The shell scripts and compose
files run once. Cryptography is trusted: a token is a number only those have
who were sent it. Caddy and MediaMTX are external, modelled by how the code uses
them.
