------------------------------ MODULE JobQueue ------------------------------
(***************************************************************************)
(* The job queue between ingestion and the event handlers: bee-queue on    *)
(* Redis, the processing function of src/queue/initJobProcessingQueue.ts   *)
(* and the life of a job in it, from createJob to succeeded or failed.     *)
(*                                                                         *)
(* A job is one log.  Its handler runs in three parts: beforeHandle, the   *)
(* handler's transaction, and afterHandle.  The transaction inserts a row  *)
(* in the table of the event, whose primary key is the log, together with  *)
(* everything else it writes.  Delivery is at least once: the jobs of a    *)
(* dead process and of a process too busy to renew its claim (stalled) are *)
(* handed out again, the latter while their first run still goes on.       *)
(***************************************************************************)
EXTENDS Integers, FiniteSets

CONSTANTS Jobs,        \* the logs ingestion may hand over
          Accounts,    \* accounts whose pages the application caches
          Keys,        \* senders of splits and hashes of stream receivers
          Scenarios,   \* what the logs are: functions from Jobs to LogInfo
          Slots,       \* concurrent runs (10 in the code)
          Retries,     \* .retries(20)
          NoJob,       \* model value: an idle slot
          MaxStalls,   \* bound: claims lost by a live process
          MaxCrashes,  \* bound: exits of the process
          MaxFaults    \* bound: transient errors of RPC, IPFS or the database

(* A log, as far as the queue and the cache tell logs apart: its event,    *)
(* the logs that must be handled before it, the accounts among its         *)
(* arguments, and the list it changes: the receivers of a sender, or the   *)
(* accounts seen with a hash.                                              *)
Kinds == {"metadata",  \* AccountMetadataEmitted: replaces a sender's receivers
          "identity",  \* SplitsSet of a linked identity: likewise
          "seen",      \* StreamReceiverSeen: adds an account to those of a hash
          "owner",     \* OwnerUpdated
          "plain"}     \* Given, Split, StreamsSet, SqueezedStreams, Transfer, ...
LogInfo == [kind : Kinds, needs : SUBSET Jobs, args : SUBSET Accounts,
            key : Keys, names : SUBSET Accounts]

ASSUME QueueAssumption ==
    /\ Scenarios \subseteq [Jobs -> LogInfo]
    /\ Retries \in Nat
    /\ NoJob \notin Jobs
    /\ MaxStalls \in Nat /\ MaxCrashes \in Nat /\ MaxFaults \in Nat

VARIABLES
    event,                       \* event[j]: the log of job j
    saved,                       \* jobs that were ever created
    waiting, active, delayed,    \* the queue's lists in Redis
    succeeded, failed,
    retries,    \* retries[j]: options.retries stored with the job
    slot,       \* slot[s]: the run in s
    rows,       \* logs whose event row is committed
    effects,    \* effects[j]: how often j's transaction committed
    members,    \* members[k]: the accounts in list k
    posting,    \* jobs that ended with their invalidation under way
    stale,      \* accounts whose cache entry is outdated
    excused,    \* history: those of stale that no run will invalidate
    stalls, crashes, faults

redis   == <<saved, waiting, active, delayed, succeeded, failed, retries>>
db      == <<rows, effects, members>>
cache   == <<posting, stale, excused>>
counts  == <<stalls, crashes, faults>>
running == <<redis, slot, db, cache, counts>>
vars    == <<event, running>>

(* A run has its own copy of the retries left and the accounts that        *)
(* beforeHandle found; known is history: its list at that moment.          *)
Idle    == [job |-> NoJob, pc |-> "idle", left |-> 0, gathered |-> {}, known |-> {}]
Run     == [job : Jobs, pc : {"before", "execute", "after"}, left : 0..Retries,
            gathered : SUBSET Accounts, known : SUBSET Accounts]
Running(j) == \E s \in Slots : slot[s].job = j

----------------------------------------------------------------------------
Init ==
    /\ event \in Scenarios
    /\ saved = {} /\ waiting = {} /\ active = {} /\ delayed = {}
    /\ succeeded = {} /\ failed = {}
    /\ retries = [j \in Jobs |-> Retries]
    /\ slot = [s \in Slots |-> Idle]
    /\ rows = {}
    /\ effects = [j \in Jobs |-> 0]
    /\ members = [k \in Keys |-> {}]
    /\ posting = {} /\ stale = {} /\ excused = {}
    /\ stalls = 0 /\ crashes = 0 /\ faults = 0

(* createJob(...).setId(id).retries(20).save(): an id that exists, in      *)
(* whatever state, is left alone.                                          *)
Save(j) ==
    /\ saved' = saved \union {j}
    /\ waiting' = IF j \in saved THEN waiting ELSE waiting \union {j}
    /\ UNCHANGED <<active, delayed, succeeded, failed, retries, slot, db, cache, counts>>

(* A free slot of process(10, ...) takes a waiting job.                    *)
Take(s, j) ==
    /\ slot[s] = Idle
    /\ j \in waiting
    /\ waiting' = waiting \ {j}
    /\ active' = active \union {j}
    /\ slot' = [slot EXCEPT ![s] = [Idle EXCEPT !.job = j, !.pc = "before",
                                               !.left = retries[j]]]
    /\ UNCHANGED <<saved, delayed, succeeded, failed, retries, db, cache, counts>>

----------------------------------------------------------------------------
(* The end of a run in slot s.                                             *)
Succeed(s) ==
    /\ active' = active \ {slot[s].job}
    /\ succeeded' = succeeded \union {slot[s].job}
    /\ slot' = [slot EXCEPT ![s] = Idle]
    /\ UNCHANGED <<saved, waiting, delayed, failed, retries>>

(* A failed run: the job waits out its backoff, or is given up.            *)
Fail(s) ==
    LET j == slot[s].job
        again == slot[s].left > 0
    IN  /\ active' = active \ {j}
        /\ delayed' = IF again THEN delayed \union {j} ELSE delayed
        /\ failed' = IF again THEN failed ELSE failed \union {j}
        /\ retries' = [retries EXCEPT ![j] = IF again THEN slot[s].left - 1 ELSE @]
        /\ slot' = [slot EXCEPT ![s] = Idle]
        /\ UNCHANGED <<saved, waiting, succeeded>>

Advance(s, label) ==
    /\ slot' = [slot EXCEPT ![s].pc = label]
    /\ UNCHANGED redis

Fault == faults < MaxFaults /\ faults' = faults + 1

----------------------------------------------------------------------------
(* The list that job j changes, as it is now.                              *)
List(j) ==
    IF event[j].kind \in {"metadata", "identity", "seen"}
    THEN members[event[j].key] ELSE {}

(* Faulty variants: the key instead of its list; nothing, as in the base   *)
(* class.                                                                  *)
GatheredKey(j)  == {event[j].key}
GatheredNone(j) == {}

(* What beforeHandle looks up, outside the transaction: the receivers of   *)
(* the sender, or the accounts seen with the hash.                         *)
Gathered(j) == IF event[j].kind \in {"metadata", "seen"} THEN List(j) ELSE {}

(* An error in beforeHandle fails the run.                                 *)
BeforeHandle(s) ==
    LET j == slot[s].job
    IN  /\ slot[s].pc = "before"
        /\ \/ /\ slot' = [slot EXCEPT ![s].pc = "execute", ![s].gathered = Gathered(j),
                                      ![s].known = List(j)]
              /\ UNCHANGED <<redis, faults>>
           \/ Fault /\ Fail(s)
        /\ UNCHANGED <<db, cache, stalls, crashes>>

(* The lists after the transaction of job j.                               *)
Members(j) ==
    LET log == event[j]
    IN  CASE log.kind \in {"metadata", "identity"} ->
               [members EXCEPT ![log.key] = log.names]
          [] log.kind = "seen" -> [members EXCEPT ![log.key] = @ \union log.names]
          [] OTHER -> members

(* The accounts a run is to invalidate: those of its arguments and those   *)
(* its beforeHandle found in the list; no one looks up an identity's list. *)
Awaits(s) ==
    LET j == slot[s].job
    IN  event[j].args
        \union (IF event[j].kind \in {"metadata", "seen"} THEN slot[s].known ELSE {})

(* The accounts whose entries the transaction of job j outdates: those of  *)
(* its arguments, those that leave its list or stay, and those that enter. *)
Outdated(j) ==
    LET log == event[j]
    IN  log.args \union List(j)
        \union (IF log.kind \in {"metadata", "identity", "seen"} THEN log.names ELSE {})

(* Nobody is to invalidate the accounts that came into the list since      *)
(* beforeHandle, those that the commit itself adds to it, and those of an  *)
(* identity's list.  An entry that is awaited again is not excused.        *)
Outdate(s) ==
    LET outdated == Outdated(slot[s].job)
    IN  /\ stale' = stale \union outdated
        /\ excused' = (excused \union outdated) \ Awaits(s)

(* The accounts a run will invalidate.                                     *)
ToInvalidate(s) == event[slot[s].job].args \union slot[s].gathered

(* Faulty variant: no primary key on the table of the event.               *)
CommitAgain(s) ==
    LET j == slot[s].job
    IN  /\ slot[s].pc = "execute"
        /\ event[j].needs \subseteq rows
        /\ rows' = rows \union {j}
        /\ effects' = [effects EXCEPT ![j] = @ + 1]
        /\ members' = Members(j)
        /\ Outdate(s)
        /\ Advance(s, "after")
        /\ UNCHANGED <<posting, counts>>

(* executeHandle: the handler's transaction commits once, with the row of  *)
(* the event; the primary key makes the insert of a second run fail.       *)
Commit(s) ==
    LET j == slot[s].job
    IN  /\ slot[s].pc = "execute"
        /\ j \notin rows
        /\ event[j].needs \subseteq rows
        /\ rows' = rows \union {j}
        /\ effects' = [effects EXCEPT ![j] = @ + 1]
        /\ members' = Members(j)
        /\ Outdate(s)
        /\ Advance(s, "after")
        /\ UNCHANGED <<posting, counts>>

(* The handler returns without opening its transaction: metadata under     *)
(* another application's key, an owner that is not on chain any more.      *)
MaySkip(j) == event[j].kind \in {"metadata", "owner"}

Skip(s) ==
    /\ slot[s].pc = "execute"
    /\ MaySkip(slot[s].job)
    /\ Advance(s, "after")
    /\ UNCHANGED <<db, cache, counts>>

(* Faulty variant: the run waits for the other event instead.              *)
RejectWaits(s) ==
    /\ slot[s].pc = "execute"
    /\ \/ slot[s].job \in rows /\ UNCHANGED faults
       \/ Fault
    /\ Fail(s)
    /\ UNCHANGED <<db, cache, stalls, crashes>>

(* The transaction rolls back: a unique violation, a RecoverableError      *)
(* because another event must be handled first, or a transient error.      *)
Reject(s) ==
    /\ slot[s].pc = "execute"
    /\ \/ slot[s].job \in rows /\ UNCHANGED faults
       \/ ~(event[slot[s].job].needs \subseteq rows) /\ UNCHANGED faults
       \/ Fault
    /\ Fail(s)
    /\ UNCHANGED <<db, cache, stalls, crashes>>

----------------------------------------------------------------------------
(* A post reaches the endpoint: the entries are dropped, and filled again  *)
(* from the database when they are next asked for.                         *)
Invalidate(ids) == stale' = stale \ ids /\ excused' = excused \ ids

(* The entries of events older than 15 minutes are left alone.             *)
LeaveAlone(ids) == UNCHANGED stale /\ excused' = excused \union (ids \intersect stale)

(* Faulty variant: an error after the commit fails the job.                *)
AfterHandleThrows(s) ==
    /\ slot[s].pc = "after"
    /\ event[slot[s].job].kind # "owner"
    /\ \/ Invalidate(ToInvalidate(s)) /\ UNCHANGED faults /\ Succeed(s)
       \/ Fault /\ UNCHANGED <<stale, excused>> /\ Fail(s)
    /\ UNCHANGED <<db, posting, stalls, crashes>>

(* afterHandle posts the accounts to the invalidation endpoint.  Its       *)
(* errors are caught and logged: the job succeeds all the same.            *)
AfterHandle(s) ==
    /\ slot[s].pc = "after"
    /\ event[slot[s].job].kind # "owner"
    /\ \/ Invalidate(ToInvalidate(s)) /\ UNCHANGED faults
       \/ LeaveAlone(ToInvalidate(s)) /\ UNCHANGED faults
       \/ Fault /\ UNCHANGED <<stale, excused>>
    /\ Succeed(s)
    /\ UNCHANGED <<db, posting, stalls, crashes>>

(* OwnerUpdated starts the post, and does not wait for it.                 *)
AfterOwnerUpdated(s) ==
    /\ slot[s].pc = "after"
    /\ event[slot[s].job].kind = "owner"
    /\ \/ /\ posting' = posting \union {slot[s].job}
          /\ UNCHANGED <<stale, excused, faults>>
       \/ LeaveAlone(ToInvalidate(s)) /\ UNCHANGED <<posting, faults>>
       \/ Fault /\ UNCHANGED cache
    /\ Succeed(s)
    /\ UNCHANGED <<db, stalls, crashes>>

(* The post of an OwnerUpdated run that has ended.                         *)
Post(j) ==
    /\ j \in posting
    /\ posting' = posting \ {j}
    /\ \/ Invalidate(event[j].args) /\ UNCHANGED faults
       \/ Fault /\ UNCHANGED <<stale, excused>>
    /\ UNCHANGED <<redis, slot, db, stalls, crashes>>

----------------------------------------------------------------------------
(* activateDelayedJobs: the backoff of 30 seconds is over.                 *)
Activate(j) ==
    /\ j \in delayed
    /\ delayed' = delayed \ {j}
    /\ waiting' = waiting \union {j}
    /\ UNCHANGED <<saved, active, succeeded, failed, retries, slot, db, cache, counts>>

(* checkStalledJobs: an active job whose claim was not renewed goes back   *)
(* to waiting, its run alive or not.                                       *)
Stalled(j) ==
    /\ j \in active
    /\ IF Running(j) THEN stalls < MaxStalls /\ stalls' = stalls + 1
                     ELSE UNCHANGED stalls
    /\ active' = active \ {j}
    /\ waiting' = waiting \union {j}
    /\ UNCHANGED <<saved, delayed, succeeded, failed, retries, slot, db, cache, crashes, faults>>

(* The process exits and is restarted: its runs and its posts are gone.    *)
Crash ==
    /\ crashes < MaxCrashes
    /\ crashes' = crashes + 1
    /\ slot' = [s \in Slots |-> Idle]
    /\ posting' = {}
    /\ UNCHANGED <<redis, db, stale, excused, stalls, faults>>

----------------------------------------------------------------------------
Handle(s) ==
    \/ BeforeHandle(s) \/ Commit(s) \/ Skip(s) \/ Reject(s)
    \/ AfterHandle(s) \/ AfterOwnerUpdated(s)

Next ==
    /\ \/ \E j \in Jobs : Save(j) \/ Activate(j) \/ Stalled(j) \/ Post(j)
       \/ \E s \in Slots, j \in Jobs : Take(s, j)
       \/ \E s \in Slots : Handle(s)
       \/ Crash
    /\ UNCHANGED event

Spec == Init /\ [][Next]_vars

(* The event loop runs handlers to their end, free slots take jobs, timers *)
(* activate delayed jobs and look for stalled ones.  A job may be taken    *)
(* over and over by other slots, so each taking needs no fairness of its   *)
(* own.                                                                    *)
Fairness ==
    /\ \A s \in Slots : WF_running(Handle(s))
    /\ \A j \in Jobs : /\ WF_running(\E s \in Slots : Take(s, j))
                       /\ WF_running(Activate(j))
                       /\ WF_running(~Running(j) /\ Stalled(j))

FairSpec == Spec /\ Fairness

----------------------------------------------------------------------------
TypeOK ==
    /\ event \in [Jobs -> LogInfo]
    /\ saved \subseteq Jobs /\ waiting \subseteq Jobs /\ active \subseteq Jobs
    /\ delayed \subseteq Jobs /\ succeeded \subseteq Jobs /\ failed \subseteq Jobs
    /\ retries \in [Jobs -> 0..Retries]
    /\ slot \in [Slots -> Run \union {Idle}]
    /\ rows \subseteq Jobs
    /\ effects \in [Jobs -> Nat]
    /\ members \in [Keys -> SUBSET Accounts]
    /\ posting \subseteq Jobs
    /\ stale \subseteq Accounts /\ excused \subseteq Accounts
    /\ stalls \in Nat /\ crashes \in Nat /\ faults \in Nat

(* JobQueue implements Handling: although a job may be run again after an  *)
(* exit, and twice at the same time after a stall, its effect is applied   *)
(* once at most, never before those it needs, and a job that is reported   *)
(* as succeeded was applied unless its handler may have nothing to do.     *)
Promise == INSTANCE Handling WITH
               needs    <- [j \in Jobs |-> event[j].needs],
               optional <- {j \in Jobs : MaySkip(j)},
               created  <- saved,
               applied  <- effects,
               reported <- succeeded
HandlingSpec == Promise!Spec

(* Unless the process exited or stalled, a job that is given up had no     *)
(* effect: an error after the commit never fails the job.                  *)
GivenUpMeansNotApplied == crashes = 0 /\ stalls = 0 => failed \cap rows = {}

(* Unless the process exited or a run met an error, no cache entry stays   *)
(* outdated once the queue is at rest and its posts are made, those that   *)
(* OwnerUpdated does not wait for included.  Excused are the entries of    *)
(* events older than 15 minutes, and of accounts that a list gained after  *)
(* beforeHandle looked at it, those that the commit itself adds included.  *)
CacheFreshAtRest ==
    /\ crashes = 0 /\ faults = 0
    /\ waiting = {} /\ delayed = {} /\ posting = {}
    /\ \A s \in Slots : slot[s] = Idle
    => stale \subseteq excused

(* Every created job is eventually settled, and stays so: no mix of        *)
(* overlapping runs, exits and late answers drops it from the queue's      *)
(* lists.                                                                  *)
EveryJobSettles ==
    \A j \in Jobs : j \in saved ~> [](j \in (succeeded \union failed)
                                          \ (waiting \union active \union delayed))
============================================================================
