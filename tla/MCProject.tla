------------------------------ MODULE MCProject ------------------------------
(* Small instances of Project for TLC.                                     *)
EXTENDS Project

CONSTANTS sA, sB

Doc(splits, visible, sources) ==
    [splits |-> splits, visible |-> visible, describes |-> TRUE,
     sources |-> sources]

(* Two documents that agree with splits the owner may set, of different    *)
(* visibility, and one whose sources are wrong.  A document that describes *)
(* another account is dropped like one whose splits are not on chain.      *)
MCDocuments == {Doc(sA, TRUE, TRUE), Doc(sB, FALSE, TRUE), Doc(sA, TRUE, FALSE)}

(* One document only.                                                      *)
MCDocument == {Doc(sA, TRUE, TRUE)}
==============================================================================
