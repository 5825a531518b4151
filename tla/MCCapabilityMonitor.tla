------------------------ MODULE MCCapabilityMonitor ------------------------
(* The capability monitor needs no definitions for TLC beyond its constants. *)
EXTENDS CapabilityMonitor
=============================================================================
