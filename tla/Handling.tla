------------------------------ MODULE Handling ------------------------------
(***************************************************************************)
(* What the queue and the handlers promise about the events they are       *)
(* given, without lists, slots, retries, overlapping runs or exits of the  *)
(* process: an event's effect is applied at most once and after those it   *)
(* needs, and an event is reported as handled only when it was applied or  *)
(* may have nothing to apply.  JobQueue refines this module.               *)
(***************************************************************************)
EXTENDS Integers

CONSTANT Jobs  \* the events, each with a job

VARIABLES needs,     \* needs[j]: the events whose effect that of j requires
          optional,  \* events that may have nothing to apply
          created,   \* events handed over by ingestion
          applied,   \* applied[j]: how often the effect of j was applied
          reported   \* events whose job succeeded

handlingVars == <<needs, optional, created, applied, reported>>

Init ==
    /\ needs \in [Jobs -> SUBSET Jobs]
    /\ optional \subseteq Jobs
    /\ created = {} /\ reported = {}
    /\ applied = [j \in Jobs |-> 0]

Create(j) ==
    /\ created' = created \union {j}
    /\ UNCHANGED <<needs, optional, applied, reported>>

Apply(j) ==
    /\ j \in created
    /\ applied[j] = 0
    /\ \A k \in needs[j] : applied[k] = 1
    /\ applied' = [applied EXCEPT ![j] = 1]
    /\ UNCHANGED <<needs, optional, created, reported>>

Report(j) ==
    /\ j \in created
    /\ applied[j] = 1 \/ j \in optional
    /\ reported' = reported \union {j}
    /\ UNCHANGED <<needs, optional, created, applied>>

Next == \E j \in Jobs : Create(j) \/ Apply(j) \/ Report(j)

Spec == Init /\ [][Next]_handlingVars
=============================================================================
