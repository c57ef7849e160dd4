---------------------------- MODULE MCViewerLimit ----------------------------
(* Small instances of ViewerLimit for TLC; the constants are MCLinkAccess's. *)
EXTENDS MCLinkAccess, ViewerLimit
===============================================================================
