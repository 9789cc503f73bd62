------------------------------ MODULE MCPoll ------------------------------
(* Small instances of Poll for TLC.                                        *)
EXTENDS Poll
===========================================================================
