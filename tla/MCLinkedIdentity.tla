-------------------------- MODULE MCLinkedIdentity --------------------------
(* Small instances of LinkedIdentity for TLC.                              *)
EXTENDS LinkedIdentity
============================================================================
