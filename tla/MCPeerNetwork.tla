--------------------------- MODULE MCPeerNetwork ---------------------------
(***************************************************************************)
(* The processes that meet in one instance, and the heads they make:       *)
(*   - the mirror with a window that is trained on a window,               *)
(*   - the three writers of the directory,                                 *)
(*   - the mirror with a daemon,                                           *)
(*   - a daemon that finds a head in the directory which is not promoted,  *)
(*   - a daemon that restarts on its own windows, or on a head that is two *)
(*     promotions behind.                                                  *)
(***************************************************************************)
EXTENDS PeerNetwork

Meetings ==
    {{"mirror", "trainer"}, {"mirror", "trainer", "admin"},
     {"mirror", "daemon"}, {"daemon", "trainer"}, {"daemon"}}

HeadsOf(meeting) ==
    CASE meeting = {"daemon"} -> 6
      [] meeting \in {{"mirror", "trainer"}, {"daemon", "trainer"}} -> 4
      [] OTHER -> 3
=============================================================================
