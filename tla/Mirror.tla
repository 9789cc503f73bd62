------------------------------- MODULE Mirror -------------------------------
(***************************************************************************)
(* What the handlers promise about one fact of the chain that they copy to *)
(* the database, such as the owner or the splits of an account: the copy   *)
(* only ever takes a value that some run has seen on the chain, whatever   *)
(* an event or a document claims.  The copy may lag behind the chain, and  *)
(* go back when a run writes what it saw before another one did.  Project  *)
(* and NftAccount refine this module.                                      *)
(***************************************************************************)
CONSTANTS Runs,    \* the handlers' runs
          Values   \* what the fact may be

VARIABLES chain,  \* the fact on the chain
          copy,   \* its copy in the database
          held    \* held[r]: what run r has seen on the chain and not used yet

mirrorVars == <<chain, copy, held>>

Init ==
    /\ chain \in Values
    /\ copy = chain
    /\ held = [r \in Runs |-> {}]

Publish(v) == chain' = v /\ UNCHANGED <<copy, held>>

Look(r) ==
    /\ held' = [held EXCEPT ![r] = {chain}]
    /\ UNCHANGED <<chain, copy>>

Forget(r) ==
    /\ held' = [held EXCEPT ![r] = {}]
    /\ UNCHANGED <<chain, copy>>

Write(r) ==
    /\ copy' \in held[r]
    /\ held' = [held EXCEPT ![r] = {}]
    /\ UNCHANGED chain

(* The run looks and writes under one lock.                                *)
Refresh ==
    /\ copy' = chain
    /\ UNCHANGED <<chain, held>>

Next ==
    \/ \E v \in Values : Publish(v)
    \/ \E r \in Runs : Look(r) \/ Forget(r) \/ Write(r)
    \/ Refresh

Spec == Init /\ [][Next]_mirrorVars
=============================================================================
