--------------------------- MODULE JobQueueProofs ---------------------------
(***************************************************************************)
(* Proofs about JobQueue, for every set of jobs, slots, accounts and       *)
(* scenarios, every number of retries, and any number of stalls, exits and *)
(* errors.                                                                 *)
(***************************************************************************)
EXTENDS JobQueue, TLAPS

----------------------------------------------------------------------------
(* The parts of the inductive invariant.                                   *)

(* A row says that the effect was applied, once; only created jobs are in  *)
(* the lists or run; a run past its transaction has a row or may skip.     *)
RowsCount     == \A j \in Jobs : effects[j] = IF j \in rows THEN 1 ELSE 0
OnlySaved     == /\ waiting \union active \union delayed \subseteq saved
                 /\ succeeded \union failed \subseteq saved
                 /\ \A s \in Slots : slot[s] # Idle => slot[s].job \in saved
AfterIsBacked == \A s \in Slots : slot[s].pc = "after" =>
                    slot[s].job \in rows \/ MaySkip(slot[s].job)

(* A job that was created is in one of the lists, whatever happens.        *)
NoneDropped == saved \subseteq waiting \union active \union delayed
                               \union succeeded \union failed

(* Until a live process stalls, a job is in one list at most, and runs     *)
(* once at most and only while active.  Unless the process exited too, a   *)
(* row belongs to a job that succeeded or to a run past its transaction.   *)
Disjoint(A, B) == A \intersect B = {}
OneList ==
    /\ Disjoint(waiting, active) /\ Disjoint(waiting, delayed) /\ Disjoint(active, delayed)
    /\ Disjoint(succeeded, waiting \union active \union delayed)
    /\ Disjoint(failed, waiting \union active \union delayed)
    /\ Disjoint(succeeded, failed)
OneRun ==
    /\ \A s \in Slots : slot[s] # Idle => slot[s].job \in active
    /\ \A s, t \in Slots : slot[s] # Idle /\ slot[s].job = slot[t].job => s = t
RowsAccounted ==
    \A j \in rows : \/ j \in succeeded
                    \/ \E s \in Slots : slot[s].job = j /\ slot[s].pc = "after"
Calm ==
    stalls = 0 => OneList /\ OneRun /\ (crashes = 0 => RowsAccounted)

(* What a run will invalidate are its arguments and, for the kinds that    *)
(* have one, the list beforeHandle found.  Until the process exits or a    *)
(* run meets an error, an outdated entry is excused or still awaits the    *)
(* invalidation of a run or a post.                                        *)
GatheredIsKnown ==
    \A s \in Slots : slot[s].pc \in {"execute", "after"} =>
        slot[s].gathered = IF event[slot[s].job].kind \in {"metadata", "seen"}
                           THEN slot[s].known ELSE {}
Awaited(x) ==
    \/ \E s \in Slots : slot[s].pc = "after" /\ x \in ToInvalidate(s)
    \/ \E j \in posting : x \in event[j].args
StaleAwaited == crashes = 0 /\ faults = 0 => \A x \in stale : x \in excused \/ Awaited(x)

IInv == /\ TypeOK /\ RowsCount /\ OnlySaved /\ AfterIsBacked /\ NoneDropped /\ Calm
        /\ GatheredIsKnown /\ StaleAwaited

----------------------------------------------------------------------------
(* Type correctness.                                                       *)

(* A slot that is not idle holds a run of a job.                           *)
LEMMA RunTyped ==
    ASSUME TypeOK, NEW s \in Slots, slot[s] # Idle \/ slot[s].pc # "idle"
    PROVE  /\ slot[s] \in Run /\ slot[s].job \in Jobs /\ slot[s] # Idle
           /\ slot[s].pc \in {"before", "execute", "after"}
           /\ slot[s].left \in 0..Retries
           /\ slot[s].gathered \subseteq Accounts /\ slot[s].known \subseteq Accounts
           /\ event[slot[s].job] \in LogInfo
<1>1. slot[s] \in Run \union {Idle} /\ Idle.pc = "idle"
  BY DEF TypeOK, Idle
<1>2. slot[s] # Idle
  BY <1>1
<1>3. slot[s] \in Run
  BY <1>1, <1>2
<1>. QED
  BY <1>2, <1>3 DEF Run, TypeOK

LEMMA ListTyped ==
    ASSUME TypeOK, NEW j \in Jobs
    PROVE  /\ event[j] \in LogInfo
           /\ List(j) \subseteq Accounts /\ Gathered(j) \subseteq Accounts
           /\ Members(j) \in [Keys -> SUBSET Accounts]
<1>1. event[j] \in LogInfo
  BY DEF TypeOK
<1>2. event[j].key \in Keys /\ event[j].names \subseteq Accounts
  BY <1>1 DEF LogInfo
<1>3. List(j) \subseteq Accounts /\ Gathered(j) \subseteq Accounts
  BY <1>2 DEF TypeOK, List, Gathered
<1>4. Members(j) \in [Keys -> SUBSET Accounts]
  BY <1>2 DEF TypeOK, Members
<1>. QED
  BY <1>1, <1>3, <1>4

(* The end of a run keeps the types of the queue's lists and slots.        *)
LEMMA EndTyped ==
    ASSUME TypeOK, NEW s \in Slots, slot[s] # Idle, Succeed(s) \/ Fail(s)
    PROVE  /\ saved' \subseteq Jobs /\ waiting' \subseteq Jobs /\ active' \subseteq Jobs
           /\ delayed' \subseteq Jobs /\ succeeded' \subseteq Jobs /\ failed' \subseteq Jobs
           /\ retries' \in [Jobs -> 0..Retries]
           /\ slot' \in [Slots -> Run \union {Idle}]
<1>1. slot[s].job \in Jobs /\ slot[s].left \in 0..Retries /\ Retries \in Nat
  BY RunTyped, QueueAssumption
<1>2. CASE Succeed(s)
  BY <1>1, <1>2 DEF TypeOK, Succeed
<1>3. CASE Fail(s)
  <2>1. retries' \in [Jobs -> 0..Retries]
    BY <1>1, <1>3 DEF TypeOK, Fail
  <2>. QED
    BY <1>1, <1>3, <2>1 DEF TypeOK, Fail
<1>. QED
  BY <1>2, <1>3

LEMMA TypeInv == TypeOK /\ [Next]_vars => TypeOK'
<1> SUFFICES ASSUME TypeOK, [Next]_vars PROVE TypeOK'
  OBVIOUS
<1>. USE QueueAssumption DEF redis, db, cache, counts
<1>0. event' = event
  BY DEF Next, vars
<1>1. ASSUME NEW j \in Jobs, Save(j) PROVE TypeOK'
  BY <1>0, <1>1 DEF TypeOK, Save
<1>2. ASSUME NEW j \in Jobs, Activate(j) PROVE TypeOK'
  BY <1>0, <1>2 DEF TypeOK, Activate
<1>3. ASSUME NEW j \in Jobs, Stalled(j) PROVE TypeOK'
  BY <1>0, <1>3 DEF TypeOK, Stalled
<1>4. ASSUME NEW j \in Jobs, Post(j) PROVE TypeOK'
  BY <1>0, <1>4 DEF TypeOK, Post, Invalidate, Fault
<1>5. ASSUME NEW s \in Slots, NEW j \in Jobs, Take(s, j) PROVE TypeOK'
  <2>1. [Idle EXCEPT !.job = j, !.pc = "before", !.left = retries[j]] \in Run
    BY DEF TypeOK, Idle, Run
  <2>. QED
    BY <1>0, <1>5, <2>1 DEF TypeOK, Take
<1>6. ASSUME NEW s \in Slots, BeforeHandle(s) PROVE TypeOK'
  <2>1. slot[s] \in Run /\ slot[s].job \in Jobs /\ slot[s] # Idle
    BY <1>6, RunTyped DEF BeforeHandle
  <2>. DEFINE j == slot[s].job
  <2>2. CASE /\ slot' = [slot EXCEPT ![s].pc = "execute", ![s].gathered = Gathered(j),
                                     ![s].known = List(j)]
             /\ UNCHANGED <<redis, faults>>
    <3>1. [slot[s] EXCEPT !.pc = "execute", !.gathered = Gathered(j), !.known = List(j)]
             \in Run
      BY <2>1, ListTyped DEF Run
    <3>2. slot' \in [Slots -> Run \union {Idle}]
      BY <2>2, <3>1 DEF TypeOK
    <3>. QED
      BY <1>0, <1>6, <2>2, <3>2 DEF TypeOK, BeforeHandle
  <2>3. CASE Fault /\ Fail(s)
    BY <1>0, <1>6, <2>1, <2>3, EndTyped DEF TypeOK, BeforeHandle, Fault
  <2>. QED
    BY <1>6, <2>2, <2>3 DEF BeforeHandle
<1>7. ASSUME NEW s \in Slots, slot[s] \in Run, Advance(s, "after")
      PROVE  slot' \in [Slots -> Run \union {Idle}]
  <2>1. [slot[s] EXCEPT !.pc = "after"] \in Run
    BY <1>7 DEF Run
  <2>. QED
    BY <1>7, <2>1 DEF TypeOK, Advance
<1>8. ASSUME NEW s \in Slots, Commit(s) PROVE TypeOK'
  <2>1. slot[s] \in Run /\ slot[s].job \in Jobs
    BY <1>8, RunTyped DEF Commit
  <2>2. slot' \in [Slots -> Run \union {Idle}] /\ UNCHANGED redis
    BY <1>7, <1>8, <2>1 DEF Commit, Advance
  <2>3. members' \in [Keys -> SUBSET Accounts]
    BY <1>8, <2>1, ListTyped DEF Commit
  <2>4. event[slot[s].job].args \subseteq Accounts
    BY <2>1, ListTyped DEF LogInfo
  <2>5. stale' \subseteq Accounts /\ excused' \subseteq Accounts
    BY <1>8, <2>1, <2>4, ListTyped DEF TypeOK, Commit, Outdate, Outdated, LogInfo
  <2>6. rows' \subseteq Jobs /\ effects' \in [Jobs -> Nat]
    BY <1>8, <2>1 DEF TypeOK, Commit
  <2>. QED
    BY <1>0, <1>8, <2>2, <2>3, <2>5, <2>6 DEF TypeOK, Commit
<1>9. ASSUME NEW s \in Slots, Skip(s) PROVE TypeOK'
  <2>1. slot[s] \in Run
    BY <1>9, RunTyped DEF Skip
  <2>2. slot' \in [Slots -> Run \union {Idle}] /\ UNCHANGED redis
    BY <1>7, <1>9, <2>1 DEF Skip, Advance
  <2>. QED
    BY <1>0, <1>9, <2>2 DEF TypeOK, Skip
<1>10. ASSUME NEW s \in Slots, Reject(s) PROVE TypeOK'
  <2>1. slot[s] # Idle
    BY <1>10, RunTyped DEF Reject
  <2>2. faults' \in Nat
    BY <1>10 DEF TypeOK, Reject, Fault
  <2>. QED
    BY <1>0, <1>10, <2>1, <2>2, EndTyped DEF TypeOK, Reject
<1>11. ASSUME NEW s \in Slots, AfterHandle(s) \/ AfterOwnerUpdated(s) PROVE TypeOK'
  <2>1. slot[s] # Idle /\ slot[s].job \in Jobs
    BY <1>11, RunTyped DEF AfterHandle, AfterOwnerUpdated
  <2>2. Succeed(s)
    BY <1>11 DEF AfterHandle, AfterOwnerUpdated
  <2>3. faults' \in Nat /\ posting' \subseteq Jobs
    BY <1>11, <2>1 DEF TypeOK, AfterHandle, AfterOwnerUpdated, Fault
  <2>4. stale' \subseteq Accounts /\ excused' \subseteq Accounts
    BY <1>11 DEF TypeOK, AfterHandle, AfterOwnerUpdated, Invalidate, LeaveAlone
  <2>5. UNCHANGED <<rows, effects, members, stalls, crashes>>
    BY <1>11 DEF AfterHandle, AfterOwnerUpdated
  <2>. QED
    BY <1>0, <2>1, <2>2, <2>3, <2>4, <2>5, EndTyped DEF TypeOK
<1>12. CASE Crash
  BY <1>0, <1>12 DEF TypeOK, Crash
<1>13. CASE UNCHANGED vars
  BY <1>13 DEF TypeOK, vars, running
<1>. QED
  BY <1>1, <1>2, <1>3, <1>4, <1>5, <1>6, <1>8, <1>9, <1>10, <1>11, <1>12, <1>13
     DEF Next, Handle

(* Type correctness: every list of the queue holds jobs, a run never has   *)
(* more retries left than the job was created with, and a slot that was    *)
(* given back is idle.                                                     *)
THEOREM TypeCorrect == Spec => []TypeOK
<1>1. Init => TypeOK
  BY QueueAssumption DEF Init, TypeOK
<1>. QED
  BY <1>1, TypeInv, PTL DEF Spec
----------------------------------------------------------------------------
(* The inductive invariant.                                                *)

LEMMA InitInv == Init => IInv
<1> SUFFICES ASSUME Init PROVE IInv
  OBVIOUS
<1>1. TypeOK
  BY QueueAssumption DEF Init, TypeOK
<1>2. RowsCount /\ OnlySaved /\ AfterIsBacked /\ NoneDropped
  BY DEF Init, RowsCount, OnlySaved, AfterIsBacked, NoneDropped, Idle
<1>3. Calm
  BY DEF Init, Calm, OneList, OneRun, RowsAccounted, Disjoint
<1>4. GatheredIsKnown /\ StaleAwaited
  BY DEF Init, GatheredIsKnown, StaleAwaited, Idle
<1>. QED
  BY <1>1, <1>2, <1>3, <1>4 DEF IInv

(* The parts that hold whatever happens to the process.                    *)
Core == RowsCount /\ OnlySaved /\ AfterIsBacked /\ NoneDropped

LEMMA CoreInv == TypeOK /\ Core /\ [Next]_vars => Core'
<1> SUFFICES ASSUME TypeOK, Core, [Next]_vars PROVE Core'
  OBVIOUS
<1>. USE DEF redis, db, cache, counts, Core
<1>0. event' = event /\ Idle.pc = "idle" /\ slot \in [Slots -> Run \union {Idle}]
  BY DEF Next, vars, Idle, TypeOK
<1>1. ASSUME NEW j \in Jobs, Save(j) \/ Activate(j) \/ Stalled(j) \/ Post(j) PROVE Core'
  BY <1>0, <1>1 DEF Save, Activate, Stalled, Post,
     RowsCount, OnlySaved, AfterIsBacked, NoneDropped, MaySkip
<1>2. ASSUME NEW s \in Slots, NEW j \in Jobs, Take(s, j) PROVE Core'
  BY <1>0, <1>2 DEF Take, RowsCount, OnlySaved, AfterIsBacked, NoneDropped, MaySkip, Idle
<1>3. ASSUME NEW s \in Slots, slot[s] # Idle, Succeed(s) \/ Fail(s),
             UNCHANGED <<rows, effects>>
      PROVE  Core'
  BY <1>0, <1>3 DEF Succeed, Fail, RowsCount, OnlySaved, AfterIsBacked, NoneDropped, MaySkip
<1>4. ASSUME NEW s \in Slots, BeforeHandle(s) PROVE Core'
  <2>1. slot[s] # Idle /\ slot[s] \in Run
    BY <1>4, RunTyped DEF BeforeHandle
  <2>2. CASE UNCHANGED redis /\ \E l, k : slot' = [slot EXCEPT ![s].pc = "execute",
                                              ![s].gathered = l, ![s].known = k]
    <3>1. slot'[s].job = slot[s].job /\ slot'[s].pc = "execute"
      BY <1>0, <2>1, <2>2 DEF Run
    <3>2. \A t \in Slots \ {s} : slot'[t] = slot[t]
      BY <1>0, <2>2
    <3>. QED
      BY <1>0, <1>4, <2>1, <2>2, <3>1, <3>2
         DEF BeforeHandle, RowsCount, OnlySaved, AfterIsBacked, NoneDropped, MaySkip
  <2>. QED
    BY <1>3, <1>4, <2>1, <2>2 DEF BeforeHandle
<1>5. ASSUME NEW s \in Slots, Commit(s) \/ Skip(s) PROVE Core'
  <2>1. slot[s] # Idle /\ slot[s] \in Run /\ slot[s].job \in Jobs
    BY <1>5, RunTyped DEF Commit, Skip
  <2>2. slot'[s].job = slot[s].job /\ \A t \in Slots \ {s} : slot'[t] = slot[t]
    BY <1>0, <1>5, <2>1 DEF Commit, Skip, Advance, Run
  <2>3. RowsCount'
    BY <1>5, <2>1 DEF Commit, Skip, RowsCount, TypeOK
  <2>4. OnlySaved' /\ NoneDropped'
    BY <1>5, <2>1, <2>2 DEF Commit, Skip, Advance, OnlySaved, NoneDropped
  <2>5. AfterIsBacked'
    BY <1>0, <1>5, <2>1, <2>2 DEF Commit, Skip, AfterIsBacked, NoneDropped, MaySkip
  <2>. QED
    BY <2>3, <2>4, <2>5
<1>6. ASSUME NEW s \in Slots, Reject(s) \/ AfterHandle(s) \/ AfterOwnerUpdated(s)
      PROVE  Core'
  BY <1>3, <1>6, RunTyped DEF Reject, AfterHandle, AfterOwnerUpdated
<1>7. CASE Crash
  BY <1>0, <1>7 DEF Crash, RowsCount, OnlySaved, AfterIsBacked, NoneDropped, MaySkip
<1>8. CASE UNCHANGED vars
  BY <1>8 DEF vars, running, RowsCount, OnlySaved, AfterIsBacked, NoneDropped, MaySkip
<1>. QED
  BY <1>1, <1>2, <1>4, <1>5, <1>6, <1>7, <1>8 DEF Next, Handle
(* A step that only takes the process further from calm needs no more.     *)
LEMMA CalmInv == TypeOK /\ Core /\ Calm /\ [Next]_vars => Calm'
<1> SUFFICES ASSUME TypeOK, Core, Calm, [Next]_vars, stalls' = 0
             PROVE  (OneList /\ OneRun)' /\ (crashes' = 0 => RowsAccounted')
  BY DEF Calm
<1>. USE DEF redis, db, cache, counts
<1>0. Idle.pc = "idle" /\ Idle.job = NoJob /\ NoJob \notin Jobs
      /\ slot \in [Slots -> Run \union {Idle}]
  BY QueueAssumption DEF Idle, TypeOK
<1>1. OneList /\ OneRun /\ (crashes' = 0 => RowsAccounted)
  <2>1. crashes' \in {crashes, crashes + 1} /\ stalls' \in {stalls, stalls + 1}
    BY DEF Next, Save, Activate, Stalled, Post, Take, Handle, BeforeHandle,
       Commit, Skip, Reject, AfterHandle, AfterOwnerUpdated, Crash, vars, running
  <2>. QED
    BY <2>1 DEF Calm, TypeOK
<1>2. \A s \in Slots : slot[s] # Idle =>
         /\ slot[s].job \in Jobs /\ slot[s].job \in active
         /\ slot[s].job \notin waiting \union delayed \union succeeded \union failed
  BY <1>1, RunTyped DEF OneRun, OneList, Disjoint
<1>3. ASSUME NEW j \in Jobs, Save(j) \/ Activate(j) \/ Stalled(j) \/ Post(j)
      PROVE  (OneList /\ OneRun)' /\ (crashes' = 0 => RowsAccounted')
  <2>1. OneList'
    BY <1>1, <1>3 DEF Save, Activate, Stalled, Post, OneList, Disjoint, Core, OnlySaved
  <2>2. slot' = slot /\ rows' = rows /\ succeeded' = succeeded
    BY <1>3 DEF Save, Activate, Stalled, Post
  <2>3. Stalled(j) => ~Running(j)
    BY DEF Stalled, TypeOK
  <2>4. OneRun'
    BY <1>1, <1>3, <2>2, <2>3 DEF Save, Activate, Stalled, Post, OneRun, Running
  <2>. QED
    BY <1>1, <2>1, <2>2, <2>4 DEF RowsAccounted
<1>4. ASSUME NEW s \in Slots, NEW j \in Jobs, Take(s, j)
      PROVE  (OneList /\ OneRun)' /\ (crashes' = 0 => RowsAccounted')
  <2>1. OneList'
    BY <1>1, <1>4 DEF Take, OneList, Disjoint
  <2>2. slot'[s].job = j /\ \A t \in Slots \ {s} : slot'[t] = slot[t]
    BY <1>0, <1>4 DEF Take, Idle
  <2>3. j \notin active /\ j \in active' /\ active \subseteq active'
    BY <1>1, <1>4 DEF Take, OneList, Disjoint
  <2>4. OneRun'
    BY <1>0, <1>1, <1>2, <2>2, <2>3, <1>4 DEF OneRun
  <2>5. crashes' = 0 => RowsAccounted'
    BY <1>0, <1>1, <1>4, <2>2 DEF Take, RowsAccounted
  <2>. QED
    BY <2>1, <2>4, <2>5
<1>5. ASSUME NEW s \in Slots, slot[s] # Idle, Succeed(s) \/ Fail(s), rows' = rows,
             Fail(s) => slot[s].pc # "after"
      PROVE  (OneList /\ OneRun)' /\ (crashes' = 0 => RowsAccounted')
  <2>1. OneList'
    BY <1>1, <1>2, <1>5 DEF Succeed, Fail, OneList, Disjoint
  <2>2. slot'[s] = Idle /\ \A t \in Slots \ {s} : slot'[t] = slot[t]
    BY <1>0, <1>5 DEF Succeed, Fail
  <2>3. OneRun'
    BY <1>0, <1>1, <1>2, <1>5, <2>2 DEF Succeed, Fail, OneRun
  <2>4. crashes' = 0 => RowsAccounted'
    <3> SUFFICES ASSUME crashes' = 0, NEW j \in rows
                 PROVE  \/ j \in succeeded'
                        \/ \E t \in Slots : slot'[t].job = j /\ slot'[t].pc = "after"
      BY <1>5 DEF RowsAccounted
    <3>1. CASE j \in succeeded
      BY <1>5, <3>1 DEF Succeed, Fail
    <3>2. ASSUME NEW t \in Slots, slot[t].job = j /\ slot[t].pc = "after"
          PROVE  \/ j \in succeeded'
                 \/ \E u \in Slots : slot'[u].job = j /\ slot'[u].pc = "after"
      <4>1. CASE t = s
        BY <1>5, <3>2, <4>1 DEF Succeed
      <4>2. CASE t # s
        BY <2>2, <3>2, <4>2
      <4>. QED
        BY <4>1, <4>2
    <3>. QED
      BY <1>1, <3>1, <3>2 DEF RowsAccounted
  <2>. QED
    BY <2>1, <2>3, <2>4
<1>6. ASSUME NEW s \in Slots, slot[s] \in Run, slot[s].pc # "after",
             slot'[s].job = slot[s].job, slot'[s] # Idle,
             \A t \in Slots \ {s} : slot'[t] = slot[t], UNCHANGED redis,
             rows' = rows \/ (rows' = rows \union {slot[s].job} /\ slot'[s].pc = "after")
      PROVE  (OneList /\ OneRun)' /\ (crashes' = 0 => RowsAccounted')
  <2>1. OneList'
    BY <1>1, <1>6 DEF OneList
  <2>2. slot[s] # Idle
    BY <1>0, <1>6 DEF Run
  <2>3. OneRun'
    BY <1>0, <1>1, <1>6, <2>2 DEF OneRun
  <2>4. crashes' = 0 => RowsAccounted'
    BY <1>1, <1>6 DEF RowsAccounted
  <2>. QED
    BY <2>1, <2>3, <2>4
<1>7. ASSUME NEW s \in Slots, BeforeHandle(s)
      PROVE  (OneList /\ OneRun)' /\ (crashes' = 0 => RowsAccounted')
  <2>1. slot[s] # Idle /\ slot[s] \in Run /\ slot[s].pc # "after"
    BY <1>7, RunTyped DEF BeforeHandle
  <2>2. CASE Fail(s)
    BY <1>5, <1>7, <2>1, <2>2 DEF BeforeHandle
  <2>3. CASE UNCHANGED redis /\ \E l, k : slot' = [slot EXCEPT ![s].pc = "execute",
                                              ![s].gathered = l, ![s].known = k]
    <3>1. slot'[s].job = slot[s].job /\ slot'[s].pc = "execute"
          /\ \A t \in Slots \ {s} : slot'[t] = slot[t]
      BY <1>0, <2>1, <2>3 DEF Run
    <3>2. slot'[s] # Idle /\ rows' = rows
      BY <1>0, <1>7, <3>1 DEF BeforeHandle
    <3>3. UNCHANGED redis
      BY <2>3
    <3>. QED
      BY <1>6, <2>1, <3>1, <3>2, <3>3
  <2>. QED
    BY <1>7, <2>2, <2>3 DEF BeforeHandle
<1>8. ASSUME NEW s \in Slots, Commit(s) \/ Skip(s)
      PROVE  (OneList /\ OneRun)' /\ (crashes' = 0 => RowsAccounted')
  <2>1. slot[s] # Idle /\ slot[s] \in Run /\ slot[s].pc # "after"
    BY <1>8, RunTyped DEF Commit, Skip
  <2>2. slot'[s].job = slot[s].job /\ slot'[s].pc = "after"
        /\ \A t \in Slots \ {s} : slot'[t] = slot[t]
    BY <1>0, <1>8, <2>1 DEF Commit, Skip, Advance, Run
  <2>3. UNCHANGED redis /\ (rows' = rows \/ rows' = rows \union {slot[s].job})
    BY <1>8 DEF Commit, Skip, Advance
  <2>. QED
    BY <1>0, <1>6, <2>1, <2>2, <2>3
<1>9. ASSUME NEW s \in Slots, Reject(s) \/ AfterHandle(s) \/ AfterOwnerUpdated(s)
      PROVE  (OneList /\ OneRun)' /\ (crashes' = 0 => RowsAccounted')
  <2>1. slot[s] # Idle /\ rows' = rows
    BY <1>9, RunTyped DEF Reject, AfterHandle, AfterOwnerUpdated
  <2>2. CASE Reject(s)
    BY <1>5, <2>1, <2>2 DEF Reject
  <2>3. CASE AfterHandle(s) \/ AfterOwnerUpdated(s)
    <3>1. Succeed(s) /\ ~Fail(s)
      <4>1. slot[s].job \in active /\ slot[s].job \notin succeeded
        BY <1>2, <2>1
      <4>. QED
        BY <2>3, <4>1 DEF AfterHandle, AfterOwnerUpdated, Succeed, Fail
    <3>. QED
      BY <1>5, <2>1, <3>1
  <2>. QED
    BY <1>9, <2>2, <2>3
<1>10. CASE Crash
  <2>1. crashes' # 0 /\ slot' = [s \in Slots |-> Idle] /\ UNCHANGED redis
    BY <1>10 DEF Crash, TypeOK
  <2>. QED
    BY <1>1, <2>1 DEF OneList, OneRun
<1>11. CASE UNCHANGED vars
  BY <1>1, <1>11 DEF vars, running, OneList, OneRun, RowsAccounted
<1>. QED
  BY <1>3, <1>4, <1>7, <1>8, <1>9, <1>10, <1>11 DEF Next, Handle
LEMMA GatheredInv == TypeOK /\ GatheredIsKnown /\ [Next]_vars => GatheredIsKnown'
<1> SUFFICES ASSUME TypeOK, GatheredIsKnown, [Next]_vars PROVE GatheredIsKnown'
  OBVIOUS
<1>. USE DEF redis, db, cache, counts
<1>0. event' = event /\ Idle.pc = "idle" /\ slot \in [Slots -> Run \union {Idle}]
  BY DEF Next, vars, Idle, TypeOK
<1>1. ASSUME NEW s \in Slots, slot'[s].pc \notin {"execute", "after"},
             \A t \in Slots \ {s} : slot'[t] = slot[t]
      PROVE  GatheredIsKnown'
  BY <1>0, <1>1 DEF GatheredIsKnown
<1>2. ASSUME NEW s \in Slots, Succeed(s) \/ Fail(s) PROVE GatheredIsKnown'
  BY <1>0, <1>1, <1>2 DEF Succeed, Fail
<1>3. ASSUME NEW s \in Slots, NEW j \in Jobs, Take(s, j) PROVE GatheredIsKnown'
  BY <1>0, <1>1, <1>3 DEF Take, Idle
<1>4. ASSUME NEW s \in Slots, BeforeHandle(s) PROVE GatheredIsKnown'
  <2>1. slot[s] \in Run
    BY <1>4, RunTyped DEF BeforeHandle
  <2>2. CASE slot' = [slot EXCEPT ![s].pc = "execute", ![s].gathered = Gathered(slot[s].job),
                                  ![s].known = List(slot[s].job)]
    <3>1. slot'[s].job = slot[s].job /\ slot'[s].gathered = Gathered(slot[s].job)
          /\ slot'[s].known = List(slot[s].job)
          /\ \A t \in Slots \ {s} : slot'[t] = slot[t]
      BY <1>0, <2>1, <2>2 DEF Run
    <3>. QED
      BY <1>0, <3>1 DEF GatheredIsKnown, Gathered
  <2>. QED
    BY <1>2, <1>4, <2>2 DEF BeforeHandle
<1>5. ASSUME NEW s \in Slots, Commit(s) \/ Skip(s) PROVE GatheredIsKnown'
  <2>1. slot[s] \in Run /\ slot[s].pc = "execute"
    BY <1>5, RunTyped DEF Commit, Skip
  <2>2. slot'[s].job = slot[s].job /\ slot'[s].gathered = slot[s].gathered
        /\ slot'[s].known = slot[s].known
        /\ \A t \in Slots \ {s} : slot'[t] = slot[t]
    BY <1>0, <1>5, <2>1 DEF Commit, Skip, Advance, Run
  <2>. QED
    BY <1>0, <2>1, <2>2 DEF GatheredIsKnown
<1>6. ASSUME slot' = slot PROVE GatheredIsKnown'
  BY <1>0, <1>6 DEF GatheredIsKnown
<1>7. CASE Crash
  BY <1>0, <1>7 DEF Crash, GatheredIsKnown
<1>. QED
  BY <1>2, <1>3, <1>4, <1>5, <1>6, <1>7
     DEF Next, Handle, Save, Activate, Stalled, Post, Reject, AfterHandle,
         AfterOwnerUpdated, vars, running

(* No entry is outdated that nobody will invalidate.                       *)
LEMMA FreshInv == TypeOK /\ GatheredIsKnown /\ StaleAwaited /\ [Next]_vars => StaleAwaited'
<1> SUFFICES ASSUME TypeOK, GatheredIsKnown, StaleAwaited, [Next]_vars,
                    crashes' = 0, faults' = 0, NEW x \in stale'
             PROVE  x \in excused' \/ Awaited(x)'
  BY DEF StaleAwaited
<1>. USE DEF redis, db, cache, counts
<1>0. event' = event /\ Idle.pc = "idle" /\ slot \in [Slots -> Run \union {Idle}]
  BY DEF Next, vars, Idle, TypeOK
<1>1. \A y \in stale : y \in excused \/ Awaited(y)
  <2>1. crashes' \in {crashes, crashes + 1} /\ faults' \in {faults, faults + 1}
    BY DEF Next, Save, Activate, Stalled, Post, Take, Handle, BeforeHandle, Fault,
       Commit, Skip, Reject, AfterHandle, AfterOwnerUpdated, Crash, vars, running
  <2>. QED
    BY <2>1 DEF StaleAwaited, TypeOK
<1>2. ~Crash /\ ~Fault
  BY DEF Crash, Fault, TypeOK
(* What a run past its transaction or a post was to invalidate still is,   *)
(* as long as both go on.                                                  *)
<1>3. ASSUME NEW y, Awaited(y), posting \subseteq posting',
             \A t \in Slots : slot[t].pc = "after" =>
                /\ slot'[t].pc = "after" /\ slot'[t].job = slot[t].job
                /\ slot'[t].gathered = slot[t].gathered
      PROVE  Awaited(y)'
  BY <1>0, <1>3 DEF Awaited, ToInvalidate
<1>4. ASSUME NEW s \in Slots, slot[s].pc # "after",
             \A t \in Slots \ {s} : slot'[t] = slot[t], posting' = posting,
             stale' = stale, excused' = excused
      PROVE  x \in excused' \/ Awaited(x)'
  BY <1>1, <1>3, <1>4
<1>5. ASSUME NEW j \in Jobs, Save(j) \/ Activate(j) \/ Stalled(j)
      PROVE  x \in excused' \/ Awaited(x)'
  BY <1>1, <1>3, <1>5 DEF Save, Activate, Stalled
<1>6. ASSUME NEW j \in Jobs, Post(j) PROVE x \in excused' \/ Awaited(x)'
  <2>1. Invalidate(event[j].args) /\ posting' = posting \ {j} /\ slot' = slot
    BY <1>2, <1>6 DEF Post
  <2>. QED
    BY <1>0, <1>1, <2>1 DEF Invalidate, Awaited, ToInvalidate
<1>7. ASSUME NEW s \in Slots, NEW j \in Jobs, Take(s, j)
      PROVE  x \in excused' \/ Awaited(x)'
  BY <1>0, <1>4, <1>7 DEF Take
<1>8. ASSUME NEW s \in Slots, BeforeHandle(s) PROVE x \in excused' \/ Awaited(x)'
  <2>1. \A t \in Slots \ {s} : slot'[t] = slot[t]
    BY <1>0, <1>2, <1>8 DEF BeforeHandle
  <2>. QED
    BY <1>2, <1>4, <1>8, <2>1 DEF BeforeHandle
<1>9. ASSUME NEW s \in Slots, Commit(s) PROVE x \in excused' \/ Awaited(x)'
  <2>. DEFINE j == slot[s].job
  <2>1. slot[s] \in Run /\ slot[s].pc = "execute"
    BY <1>9, RunTyped DEF Commit
  <2>2. /\ slot'[s].pc = "after" /\ slot'[s].job = j
        /\ slot'[s].gathered = slot[s].gathered
        /\ \A t \in Slots \ {s} : slot'[t] = slot[t]
    BY <1>0, <1>9, <2>1 DEF Commit, Advance, Run
  <2>3. Awaits(s) = ToInvalidate(s)
    BY <2>1 DEF GatheredIsKnown, Awaits, ToInvalidate
  <2>4. x \in Awaits(s) => Awaited(x)'
    BY <1>0, <2>2, <2>3 DEF Awaited, ToInvalidate
  <2>5. CASE x \in Outdated(j)
    BY <1>9, <2>4, <2>5 DEF Commit, Outdate
  <2>6. CASE x \in stale
    <3>1. posting' = posting
      BY <1>9 DEF Commit
    <3>2. \A t \in Slots : slot[t].pc = "after" =>
             /\ slot'[t].pc = "after" /\ slot'[t].job = slot[t].job
             /\ slot'[t].gathered = slot[t].gathered
      BY <2>1, <2>2
    <3>3. Awaited(x) => Awaited(x)'
      BY <1>3, <3>1, <3>2
    <3>4. x \in excused => x \in excused' \/ x \in Awaits(s)
      BY <1>9 DEF Commit, Outdate
    <3>. QED
      BY <1>1, <2>4, <2>6, <3>3, <3>4
  <2>. QED
    BY <1>9, <2>5, <2>6 DEF Commit, Outdate
<1>10. ASSUME NEW s \in Slots, Skip(s) PROVE x \in excused' \/ Awaited(x)'
  BY <1>0, <1>4, <1>10 DEF Skip, Advance
<1>11. ASSUME NEW s \in Slots, Reject(s) PROVE x \in excused' \/ Awaited(x)'
  BY <1>0, <1>4, <1>11 DEF Reject, Fail
<1>12. ASSUME NEW s \in Slots, AfterHandle(s) \/ AfterOwnerUpdated(s)
       PROVE  x \in excused' \/ Awaited(x)'
  <2>1. slot[s].pc = "after" /\ slot[s].job \in Jobs
    BY <1>12, RunTyped DEF AfterHandle, AfterOwnerUpdated
  <2>2. \A t \in Slots \ {s} : slot'[t] = slot[t]
    BY <1>0, <1>12 DEF AfterHandle, AfterOwnerUpdated, Succeed
  <2>3. x \in stale /\ posting \subseteq posting'
    BY <1>12 DEF AfterHandle, AfterOwnerUpdated, Invalidate, LeaveAlone
  <2>4. x \in ToInvalidate(s) => x \in excused' \/ Awaited(x)'
    <3>1. CASE slot[s].job \in posting'
      <4>1. CASE AfterOwnerUpdated(s)
        <5>1. ToInvalidate(s) = event[slot[s].job].args
          BY <2>1, <4>1 DEF AfterOwnerUpdated, ToInvalidate, GatheredIsKnown
        <5>. QED
          BY <1>0, <3>1, <5>1 DEF Awaited
      <4>2. CASE AfterHandle(s)
        BY <1>2, <2>3, <4>2 DEF AfterHandle, Invalidate, LeaveAlone
      <4>. QED
        BY <1>12, <4>1, <4>2
    <3>2. CASE slot[s].job \notin posting'
      BY <1>2, <1>12, <2>3, <3>2 DEF AfterHandle, AfterOwnerUpdated, Invalidate, LeaveAlone
    <3>. QED
      BY <3>1, <3>2
  <2>5. x \in excused => x \in excused' \/ x \in ToInvalidate(s)
    BY <1>12 DEF AfterHandle, AfterOwnerUpdated, Invalidate, LeaveAlone
  <2>6. Awaited(x) => Awaited(x)' \/ x \in ToInvalidate(s)
    BY <1>0, <2>2, <2>3 DEF Awaited, ToInvalidate
  <2>. QED
    BY <1>1, <2>3, <2>4, <2>5, <2>6
<1>13. CASE UNCHANGED vars
  BY <1>1, <1>3, <1>13 DEF vars, running
<1>. QED
  BY <1>2, <1>5, <1>6, <1>7, <1>8, <1>9, <1>10, <1>11, <1>12, <1>13 DEF Next, Handle

LEMMA Invariance == Spec => []IInv
<1>1. IInv /\ [Next]_vars => IInv'
  BY TypeInv, CoreInv, CalmInv, GatheredInv, FreshInv DEF IInv, Core
<1>. QED
  BY <1>1, InitInv, PTL DEF Spec
----------------------------------------------------------------------------
(* What the invariant gives.                                               *)

(* Unless the process exited or stalled, a job that is given up after its  *)
(* retries left nothing in the database.                                   *)
THEOREM NothingGivenUpHalfway == Spec => []GivenUpMeansNotApplied
<1>1. IInv => GivenUpMeansNotApplied
  <2> SUFFICES ASSUME IInv, crashes = 0, stalls = 0, NEW j \in failed, j \in rows
               PROVE  FALSE
    BY DEF GivenUpMeansNotApplied
  <2>1. OneList /\ OneRun /\ RowsAccounted
    BY DEF IInv, Calm
  <2>2. j \notin succeeded /\ j \notin active
    BY <2>1 DEF OneList, Disjoint
  <2>3. PICK s \in Slots : slot[s].job = j /\ slot[s].pc = "after"
    BY <2>1, <2>2 DEF RowsAccounted
  <2>4. slot[s] # Idle
    BY <2>3, RunTyped DEF IInv
  <2>. QED
    BY <2>1, <2>2, <2>3, <2>4 DEF OneRun
<1>. QED
  BY <1>1, Invariance, PTL

(* Every job that was created is in one of the queue's lists, however runs *)
(* overlap, stall and are cut short: once nothing waits or is active, each *)
(* has succeeded or failed.  This is the safety half of EveryJobSettles.   *)
THEOREM NoJobDropped ==
    Spec => [](saved \subseteq waiting \union active \union delayed
                                \union succeeded \union failed)
<1>1. IInv => NoneDropped
  BY DEF IInv
<1>. QED
  BY <1>1, Invariance, PTL DEF NoneDropped

(* Exits and errors alone never make a job run twice at the same time, and *)
(* never let it both succeed and fail: that takes a live process that lost *)
(* its claim.                                                              *)
THEOREM OneRunUnlessStalled ==
    Spec => [](stalls = 0 =>
                  /\ \A s, t \in Slots : slot[s] # Idle /\ slot[s].job = slot[t].job => s = t
                  /\ succeeded \intersect failed = {})
<1>1. IInv => (stalls = 0 =>
                  /\ \A s, t \in Slots : slot[s] # Idle /\ slot[s].job = slot[t].job => s = t
                  /\ succeeded \intersect failed = {})
  BY DEF IInv, Calm, OneRun, OneList, Disjoint
<1>. QED
  BY <1>1, Invariance, PTL

(* Without exits and errors, at rest no cache entry is outdated but those  *)
(* that are excused, for any number of slots and of stalled runs that      *)
(* overlap: what a commit outdates is what its run, or the post it left    *)
(* behind, invalidates later, or what a list gained behind the run's back. *)
THEOREM NothingStaleAtRest == Spec => []CacheFreshAtRest
<1>1. IInv => CacheFreshAtRest
  <2> SUFFICES ASSUME IInv, crashes = 0, faults = 0, posting = {},
                      \A s \in Slots : slot[s] = Idle
               PROVE  stale \subseteq excused
    BY DEF CacheFreshAtRest
  <2>1. \A x : ~Awaited(x)
    BY DEF Awaited, Idle
  <2>. QED
    BY <2>1 DEF IInv, StaleAwaited
<1>. QED
  BY <1>1, Invariance, PTL

(* The queue and its handlers implement Handling: an effect is applied     *)
(* once at most, after those it needs, and a job is reported as succeeded  *)
(* only if its effect was applied or it may have none, for any number of   *)
(* overlapping runs, stalls, exits, errors and retries.                    *)
THEOREM QueueImplementsHandling == Spec => HandlingSpec
<1>1. Init => Promise!Init
  <2> SUFFICES ASSUME Init PROVE Promise!Init
    OBVIOUS
  <2>1. event \in [Jobs -> LogInfo]
    BY QueueAssumption DEF Init
  <2>2. \A j \in Jobs : event[j].needs \subseteq Jobs
    BY <2>1 DEF LogInfo
  <2>. QED
    BY <2>2 DEF Init, Promise!Init
<1>2. IInv /\ [Next]_vars => [Promise!Next]_(Promise!handlingVars)
  <2> SUFFICES ASSUME IInv, [Next]_vars, ~UNCHANGED Promise!handlingVars
               PROVE  Promise!Next
    OBVIOUS
  <2>. USE DEF redis, db, cache, counts, IInv
  <2>0. event' = event /\ \A j \in Jobs : MaySkip(j)' = MaySkip(j)
    BY DEF Next, vars, MaySkip
  <2>1. ASSUME UNCHANGED <<saved, effects, succeeded>> PROVE FALSE
    BY <2>0, <2>1 DEF Promise!handlingVars, MaySkip
  <2>2. ASSUME NEW j \in Jobs, Save(j) PROVE Promise!Create(j)
    BY <2>0, <2>2 DEF Save, Promise!Create, MaySkip
  <2>3. ASSUME NEW s \in Slots, Commit(s) PROVE Promise!Apply(slot[s].job)
    <3>. DEFINE j == slot[s].job
    <3>1. j \in Jobs /\ slot[s] # Idle /\ j \in saved
      BY <2>3, RunTyped DEF Commit, OnlySaved
    <3>2. effects[j] = 0 /\ effects' = [effects EXCEPT ![j] = 1]
      <4>1. j \notin rows /\ effects' = [effects EXCEPT ![j] = @ + 1]
        BY <2>3 DEF Commit
      <4>2. effects[j] = 0
        BY <3>1, <4>1 DEF RowsCount
      <4>. QED
        BY <4>1, <4>2
    <3>3. \A k \in event[j].needs : effects[k] = 1
      BY <2>3, <3>1 DEF Commit, RowsCount, TypeOK
    <3>4. UNCHANGED <<saved, succeeded>>
      BY <2>3 DEF Commit, Advance
    <3>. QED
      BY <2>0, <3>1, <3>2, <3>3, <3>4 DEF Promise!Apply, MaySkip
  <2>4. ASSUME NEW s \in Slots, AfterHandle(s) \/ AfterOwnerUpdated(s)
        PROVE  Promise!Report(slot[s].job)
    <3>. DEFINE j == slot[s].job
    <3>1. j \in Jobs /\ slot[s].pc = "after" /\ j \in saved
      BY <2>4, RunTyped DEF AfterHandle, AfterOwnerUpdated, OnlySaved
    <3>2. effects[j] = 1 \/ MaySkip(j)
      BY <3>1 DEF AfterIsBacked, RowsCount
    <3>3. succeeded' = succeeded \union {j} /\ UNCHANGED <<saved, effects>>
      BY <2>4 DEF AfterHandle, AfterOwnerUpdated, Succeed
    <3>. QED
      BY <2>0, <3>1, <3>2, <3>3 DEF Promise!Report, MaySkip
  <2>5. \A s \in Slots : Commit(s) \/ AfterHandle(s) \/ AfterOwnerUpdated(s)
                            => slot[s].job \in Jobs
    BY RunTyped DEF Commit, AfterHandle, AfterOwnerUpdated
  <2>6. ASSUME NEW s \in Slots, BeforeHandle(s) \/ Skip(s) \/ Reject(s) PROVE FALSE
    BY <2>1, <2>6 DEF BeforeHandle, Skip, Reject, Fail, Advance
  <2>. QED
    BY <2>1, <2>2, <2>3, <2>4, <2>5, <2>6
       DEF Next, Handle, Activate, Stalled, Post, Take, Crash, vars, running, Promise!Next
<1>. QED
  BY <1>1, <1>2, Invariance, PTL DEF Spec, HandlingSpec, Promise!Spec
============================================================================
