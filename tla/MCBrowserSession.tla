-------------------------- MODULE MCBrowserSession --------------------------
(* BrowserSession on small sets; its constants are given in the cfg files. *)
EXTENDS BrowserSession, TLC
=============================================================================
