---------------------------- MODULE MCMetadataTx ----------------------------
(* A token with documents as an ecosystem and as a Drip List, a sub-list   *)
(* of the ecosystem, and two projects among their receivers, for TLC.      *)
EXTENDS MetadataTx

CONSTANTS eco, list, sub, p1, p2,  \* rows
          tEco, tEco2, tList, tSub, tOwner

J(needs, own, refs, lists) ==
    [needs |-> needs, own |-> own, refs |-> refs, lists |-> lists]

(* The token of eco and list is one account in two tables.                 *)
MCSenderOf == [a \in {eco, list, sub, p1, p2} |-> IF a = list THEN eco ELSE a]

(* Two documents of the ecosystem, one that makes a Drip List of its token,*)
(* one of the sub-list, and the OwnerUpdated event of the first project.   *)
MCJob ==
    [t \in {tEco, tEco2, tList, tSub, tOwner} |->
        CASE t = tEco   -> J({}, eco, {p1, p2}, TRUE)
          [] t = tEco2  -> J({}, eco, {p2}, TRUE)
          [] t = tList  -> J({}, list, {p2, p1}, TRUE)
          [] t = tSub   -> J({eco}, sub, {p1}, TRUE)
          [] t = tOwner -> J({}, p1, {}, FALSE)]
=============================================================================
