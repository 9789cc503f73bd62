----------------------------- MODULE Ingestion -----------------------------
(***************************************************************************)
(* What the ingestion half of the processor promises to the handlers,      *)
(* without endpoints, cursors, chunks or restarts: while the chain grows   *)
(* and reorganises near its tip, jobs are created only for logs that are   *)
(* settled, that is, at least Confirmations blocks under the tip, and a    *)
(* created job is never taken back.  Poll refines this module.             *)
(***************************************************************************)
EXTENDS Integers

CONSTANTS MaxBlock,       \* bound: the highest block a behaviour mines
          Contents,       \* what a block may hold, up to its logs
          Registered,     \* the contents that carry a registered event
          Confirmations,  \* blocks a log must lie under the tip
          MaxReorg        \* how many blocks a reorganisation may rewrite

VARIABLES head,   \* number of the canonical tip
          chain,  \* content of each canonical block, Unmined above the tip
          jobs    \* the events for which a job exists, as <<block, content>>

ingestionVars == <<head, chain, jobs>>

Blocks == 1..MaxBlock
Unmined == "unmined"

Event == Blocks \X Contents

Canonical(ev) == chain[ev[1]] = ev[2]
Settled(ev)   == ev[1] <= head - Confirmations

Init ==
    /\ head = 0
    /\ chain = [b \in Blocks |-> Unmined]
    /\ jobs = {}

Mine(c) ==
    /\ head < MaxBlock
    /\ head' = head + 1
    /\ chain' = [chain EXCEPT ![head + 1] = c]
    /\ UNCHANGED jobs

Rewrite(b, c) ==
    /\ head - MaxReorg < b
    /\ b <= head
    /\ chain' = [chain EXCEPT ![b] = c]
    /\ UNCHANGED <<head, jobs>>

Deliver(ev) ==
    /\ ev[2] \in Registered
    /\ Canonical(ev)
    /\ Settled(ev)
    /\ jobs' = jobs \union {ev}
    /\ UNCHANGED <<head, chain>>

Next ==
    \/ \E c \in Contents : Mine(c)
    \/ \E b \in Blocks, c \in Contents : Rewrite(b, c)
    \/ \E ev \in Event : Deliver(ev)

Spec == Init /\ [][Next]_ingestionVars
============================================================================
