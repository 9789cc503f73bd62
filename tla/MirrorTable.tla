---------------------------- MODULE MirrorTable ----------------------------
(***************************************************************************)
(* What the handlers promise about a list of the chain that is copied to a *)
(* table of rows, such as the receivers of an account: what a run writes   *)
(* is the whole list it has seen on the chain, in place of all that a run  *)
(* of its kind wrote before it.  Runs of one kind exclude each other; what *)
(* a run of another kind writes meanwhile may stay, or not.  NftAccount    *)
(* refines this module.                                                    *)
(***************************************************************************)
CONSTANTS Runs,    \* the handlers' runs
          Kinds,   \* runs of one kind exclude each other
          Values   \* what the list may be

VARIABLES chain,  \* the list on the chain
          table,  \* the lists in the table: who wrote them, and of which kind
          held    \* held[r]: what run r has seen on the chain and not used yet

tableVars == <<chain, table, held>>

Init ==
    /\ chain \in Values
    /\ table = {}
    /\ held = [r \in Runs |-> {}]

Publish(v) == chain' = v /\ UNCHANGED <<table, held>>

Look(r, k) ==
    /\ held' = [held EXCEPT ![r] = {[kind |-> k, value |-> chain]}]
    /\ UNCHANGED <<chain, table>>

Forget(r) ==
    /\ held' = [held EXCEPT ![r] = {}]
    /\ UNCHANGED <<chain, table>>

Write(r) ==
    /\ \E h \in held[r] : \E others \in SUBSET {e \in table : e.kind # h.kind} :
          table' = others \union {[run |-> r, kind |-> h.kind, value |-> h.value]}
    /\ held' = [held EXCEPT ![r] = {}]
    /\ UNCHANGED chain

Next ==
    \/ \E v \in Values : Publish(v)
    \/ \E r \in Runs : (\E k \in Kinds : Look(r, k)) \/ Forget(r) \/ Write(r)

Spec == Init /\ [][Next]_tableVars
=============================================================================
