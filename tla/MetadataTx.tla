----------------------------- MODULE MetadataTx -----------------------------
(***************************************************************************)
(* The transactions of the event handlers on the rows of several accounts. *)
(* There are no foreign keys: that a receiver row names an account that    *)
(* exists, and a sub-list a root and a parent that exist, is up to the     *)
(* order in which a transaction finds, creates and locks rows.             *)
(*                                                                         *)
(* A metadata transaction first finds the rows it needs, then finds or     *)
(* creates the row of its own account, deletes the receiver rows of that   *)
(* account, and finds or creates the row of each project and ORCID account *)
(* among the new receivers, all FOR UPDATE, and inserts the receiver rows. *)
(* The receivers are processed by promises that run together on one        *)
(* connection, so in no particular order but one query at a time.  The     *)
(* isolation is READ COMMITTED: the DELETE removes the receiver rows that  *)
(* are committed when it starts.  Postgres aborts a transaction of a cycle *)
(* of waiting ones; an aborted job is run again by the queue.              *)
(***************************************************************************)
EXTENDS Integers, FiniteSets

CONSTANTS Accounts,   \* rows, one for each account and table it may be in
          SenderOf,   \* SenderOf[a]: the account whose row a is
          Jobs,       \* the events' jobs, one transaction each
          Job,        \* Job[t]: what the handler of t does, see below
          NoAccount,  \* model value: no query is waiting
          NoJob,      \* model value: an unlocked row
          MaxAborts   \* bound: errors and exits that end a transaction

(* needs: rows that have to exist; own: the row found or created; refs:    *)
(* receivers found or created; lists: whether refs replace the receivers   *)
(* of own's account.                                                       *)
JobType == [needs : SUBSET Accounts, own : Accounts, refs : SUBSET Accounts,
            lists : BOOLEAN]

ASSUME TxAssumption ==
    /\ Job \in [Jobs -> JobType]
    /\ \A t \in Jobs : ~Job[t].lists => Job[t].refs = {}
    /\ NoAccount \notin Accounts
    /\ NoJob \notin Jobs
    /\ MaxAborts \in Nat

VARIABLES
    rows,       \* accounts whose row is committed
    receivers,  \* committed receiver rows: <<job that inserted it, receiver>>
    pc,         \* pc[t]: where job t is
    want,       \* want[t]: the row t's current query is for
    lock,       \* lock[a]: the transaction that locked or inserted row a
    made,       \* made[t]: rows t has inserted and not committed
    gone,       \* gone[t]: receiver rows t has deleted and not committed
    aborts

tables == <<rows, receivers>>
vars   == <<rows, receivers, pc, want, lock, made, gone, aborts>>

----------------------------------------------------------------------------
Held(t) == {a \in Accounts : lock[a] = t}

(* A transaction that lists receivers is replacing them once it has        *)
(* deleted the old ones.                                                   *)
Open == {"open", "replacing"}

Sender(t)      == SenderOf[Job[t].own]
ReceiversOf(x) == {r \in receivers : Sender(r[1]) = x}

(* Faulty variant: the needed rows are not looked for.                     *)
TodoWithoutNeeds(t) ==
    IF Job[t].own \notin Held(t) THEN {Job[t].own}
    ELSE IF pc[t] = "replacing" THEN Job[t].refs \ Held(t) ELSE {}

(* The rows t may turn to next: those needed, then its own, then, when the *)
(* old receivers are deleted, the new ones.                                *)
Todo(t) ==
    IF ~(Job[t].needs \subseteq Held(t)) THEN Job[t].needs \ Held(t)
    ELSE IF Job[t].own \notin Held(t) THEN {Job[t].own}
    ELSE IF pc[t] = "replacing" THEN Job[t].refs \ Held(t) ELSE {}

Missing(t) == want[t] \in Job[t].needs \ rows

Init ==
    /\ rows = {}
    /\ receivers = {}
    /\ pc = [t \in Jobs |-> "waiting"]
    /\ want = [t \in Jobs |-> NoAccount]
    /\ lock = [a \in Accounts |-> NoJob]
    /\ made = [t \in Jobs |-> {}]
    /\ gone = [t \in Jobs |-> {}]
    /\ aborts = 0

Begin(t) ==
    /\ pc[t] = "waiting"
    /\ pc' = [pc EXCEPT ![t] = "open"]
    /\ UNCHANGED <<tables, want, lock, made, gone, aborts>>

Query(t) ==
    /\ pc[t] \in Open /\ want[t] = NoAccount
    /\ \E a \in Todo(t) : want' = [want EXCEPT ![t] = a]
    /\ UNCHANGED <<tables, pc, lock, made, gone, aborts>>

(* Faulty variants: receivers are found but not created; nothing is        *)
(* locked.                                                                 *)
GrantFound(t) ==
    /\ want[t] # NoAccount /\ ~Missing(t) /\ lock[want[t]] = NoJob
    /\ lock' = [lock EXCEPT ![want[t]] = t]
    /\ want' = [want EXCEPT ![t] = NoAccount]
    /\ UNCHANGED <<tables, pc, made, gone, aborts>>
GrantAnyway(t) ==
    /\ want[t] # NoAccount /\ ~Missing(t)
    /\ lock' = [lock EXCEPT ![want[t]] = t]
    /\ made' = [made EXCEPT ![t] = IF want[t] \in rows THEN @ ELSE @ \union {want[t]}]
    /\ want' = [want EXCEPT ![t] = NoAccount]
    /\ UNCHANGED <<tables, pc, gone, aborts>>

(* SELECT ... FOR UPDATE waits for the transaction that locked the row, an *)
(* INSERT for the one that inserted the same key.                          *)
Grant(t) ==
    /\ want[t] # NoAccount
    /\ ~Missing(t)
    /\ lock[want[t]] = NoJob
    /\ lock' = [lock EXCEPT ![want[t]] = t]
    /\ made' = [made EXCEPT ![t] = IF want[t] \in rows THEN @ ELSE @ \union {want[t]}]
    /\ want' = [want EXCEPT ![t] = NoAccount]
    /\ UNCHANGED <<tables, pc, gone, aborts>>

(* Faulty variant: the DELETE is issued before the own row is locked.      *)
ClearUnlocked(t) ==
    /\ pc[t] = "open" /\ want[t] = NoAccount
    /\ Job[t].lists
    /\ pc' = [pc EXCEPT ![t] = "replacing"]
    /\ gone' = [gone EXCEPT ![t] = ReceiversOf(Sender(t))]
    /\ UNCHANGED <<tables, want, lock, made, aborts>>

(* The DELETE of the old receivers, which is not awaited but precedes all  *)
(* other queries for the receivers on the connection.  If another open     *)
(* transaction has deleted the same rows it waits for its end and then     *)
(* passes over them; what that one inserted it does not see.  (The wait is *)
(* left out: who waits holds its needed and own rows only, for which the   *)
(* other transaction does not ask any more.)                               *)
Clear(t) ==
    /\ pc[t] = "open" /\ want[t] = NoAccount
    /\ Todo(t) = {}
    /\ Job[t].lists
    /\ pc' = [pc EXCEPT ![t] = "replacing"]
    /\ gone' = [gone EXCEPT ![t] = ReceiversOf(Sender(t))]
    /\ UNCHANGED <<tables, want, lock, made, aborts>>

(* Faulty variant: locks that survive their transaction.                   *)
ReleaseKeepsLocks(t) ==
    /\ made' = [made EXCEPT ![t] = {}]
    /\ gone' = [gone EXCEPT ![t] = {}]
    /\ want' = [want EXCEPT ![t] = NoAccount]
    /\ UNCHANGED lock

Release(t) ==
    /\ lock' = [a \in Accounts |-> IF lock[a] = t THEN NoJob ELSE lock[a]]
    /\ made' = [made EXCEPT ![t] = {}]
    /\ gone' = [gone EXCEPT ![t] = {}]
    /\ want' = [want EXCEPT ![t] = NoAccount]

(* The receiver rows t inserts, one for each of its receivers.             *)
Inserted(t) == {<<t, a>> : a \in Job[t].refs}

Commit(t) ==
    /\ pc[t] = (IF Job[t].lists THEN "replacing" ELSE "open") /\ want[t] = NoAccount
    /\ Todo(t) = {}
    /\ rows' = rows \union made[t]
    /\ receivers' = (receivers \ gone[t]) \union Inserted(t)
    /\ pc' = [pc EXCEPT ![t] = "done"]
    /\ Release(t)
    /\ UNCHANGED aborts

Rollback(t) ==
    /\ pc' = [pc EXCEPT ![t] = "waiting"]
    /\ Release(t)
    /\ UNCHANGED tables

(* RecoverableError: a row it needs is not there.  One that another        *)
(* transaction inserted and did not commit is not seen.                    *)
Retry(t) ==
    /\ Missing(t)
    /\ Rollback(t)
    /\ UNCHANGED aborts

(* Transactions each of which waits for the next, all the way around.      *)
Cycle(T) ==
    /\ T # {}
    /\ \A u \in T : want[u] # NoAccount
    /\ T = {lock[want[u]] : u \in T}

Deadlocked(t) ==
    /\ \E T \in SUBSET {u \in Jobs : want[u] # NoAccount} : t \in T /\ Cycle(T)
    /\ Rollback(t)
    /\ UNCHANGED aborts

(* An error of any of its queries, the unawaited DELETE included, whose    *)
(* rejection nobody handles: the process exits, and the transaction is     *)
(* rolled back in either case.                                             *)
Abort(t) ==
    /\ pc[t] \in Open
    /\ aborts < MaxAborts
    /\ aborts' = aborts + 1
    /\ Rollback(t)

Step(t) ==
    \/ Begin(t) \/ Query(t) \/ Grant(t) \/ Clear(t)
    \/ Commit(t) \/ Retry(t) \/ Deadlocked(t)

Next == \E t \in Jobs : Step(t) \/ Abort(t)

Spec == Init /\ [][Next]_vars

(* Locks are granted in the order of their requests, so one that is free   *)
(* again and again is granted; a deadlock is detected after a timeout.     *)
Fairness ==
    /\ \A t \in Jobs : /\ WF_vars(Begin(t) \/ Query(t) \/ Clear(t) \/ Commit(t) \/ Retry(t))
                       /\ SF_vars(Grant(t))
    /\ WF_vars(\E t \in Jobs : Deadlocked(t))

FairSpec == Spec /\ Fairness

----------------------------------------------------------------------------
TypeOK ==
    /\ rows \subseteq Accounts
    /\ receivers \subseteq Jobs \X Accounts
    /\ pc \in [Jobs -> {"waiting", "done"} \union Open]
    /\ want \in [Jobs -> Accounts \union {NoAccount}]
    /\ lock \in [Accounts -> Jobs \union {NoJob}]
    /\ made \in [Jobs -> SUBSET Accounts]
    /\ gone \in [Jobs -> SUBSET (Jobs \X Accounts)]
    /\ aborts \in Nat

(* Without foreign keys, and whatever was rolled back in between: a sender *)
(* of receivers exists, and so does every project and ORCID account among  *)
(* them.  (Drip Lists and sub-lists may be named before they have a row.)  *)
NoDanglingReceiver ==
    \A r \in receivers : Job[r[1]].own \in rows /\ r[2] \in rows

(* The rows a finished job depends on exist: the root and the parent of a  *)
(* sub-list, the project whose metadata was stored.                        *)
NeedsExist == \A t \in Jobs : pc[t] = "done" => Job[t].needs \subseteq rows

(* No row is inserted by two transactions at once, or again after it was   *)
(* committed: the primary key never fails a handler.                       *)
InsertedOnce ==
    /\ \A t, u \in Jobs : t # u => made[t] \intersect made[u] = {}
    /\ \A t \in Jobs : made[t] \intersect rows = {}

(* Nothing of a transaction that was rolled back remains.  The receiver    *)
(* rows are those of documents that were handled, each document's all or   *)
(* none, and never of two documents of one row: the old receivers are      *)
(* deleted under the lock of that row.  (Documents of the rows one token   *)
(* has in two tables do not exclude each other: both may leave theirs.)    *)
OnlyCommitted ==
    /\ \A a \in rows : \E t \in Jobs :
           pc[t] = "done" /\ a \in {Job[t].own} \union Job[t].refs
    /\ \A r \in receivers : pc[r[1]] = "done" /\ r \in Inserted(r[1])
                                             /\ Inserted(r[1]) \subseteq receivers
    /\ \A r, q \in receivers : Job[r[1]].own = Job[q[1]].own => r[1] = q[1]

(* The strengthening: a transaction holds the rows it has inserted, what   *)
(* it holds is there or inserted by it, and only open ones hold or wait.   *)
LocksCoverInserts ==
    /\ \A t \in Jobs : \A a \in made[t] : lock[a] = t /\ a \notin rows
    /\ \A t \in Jobs : \A a \in Accounts : lock[a] = t =>
           /\ pc[t] \in Open
           /\ a \in rows \union made[t]
           /\ a \in Job[t].needs \union {Job[t].own} \union Job[t].refs

NeedsFirst ==
    \A t \in Jobs : \A a \in Accounts :
        /\ lock[a] = t /\ a \in Job[t].needs => a \in rows
        /\ want[t] = a => /\ pc[t] \in Open
                          /\ a \in Job[t].needs \union {Job[t].own} \union Job[t].refs

(* Whole documents are deleted, and until a transaction that deleted ends  *)
(* its row gets no receivers but its own.                                  *)
DeletedUnderLock ==
    \A t \in Jobs :
        /\ \A r \in gone[t] : Inserted(r[1]) \subseteq gone[t]
        /\ pc[t] = "replacing" =>
               /\ lock[Job[t].own] = t
               /\ \A r \in receivers : Job[r[1]].own = Job[t].own => r \in gone[t]

IInv == TypeOK /\ LocksCoverInserts /\ NeedsFirst /\ DeletedUnderLock
        /\ NoDanglingReceiver /\ NeedsExist /\ OnlyCommitted

(* No query waits for ever, although the handlers lock the rows of common  *)
(* receivers in opposite orders: it is answered, or its transaction ended. *)
(* (Jobs may abort each other time and again; the backoff of the queue,    *)
(* which is longer than a transaction, is what ends that in practice.)     *)
NoQueryWaitsForever ==
    \A t \in Jobs : want[t] # NoAccount ~> want[t] = NoAccount
=============================================================================
