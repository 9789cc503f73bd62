-------------------------- MODULE MetadataTxProofs --------------------------
(***************************************************************************)
(* What MetadataTx keeps for every set of jobs and accounts: the integrity *)
(* that foreign keys would give, from the inductive invariant IInv.        *)
(***************************************************************************)
EXTENDS MetadataTx, FiniteSetTheorems, TLAPS

(* The rows a job turns to are those of its description.                   *)
LEMMA TodoIsDescribed ==
    ASSUME NEW t \in Jobs, NEW a \in Todo(t)
    PROVE  a \in Accounts /\ a \in Job[t].needs \union {Job[t].own} \union Job[t].refs
PROOF BY TxAssumption DEF Todo, JobType

(* A job that has nothing left to turn to holds every row it describes,    *)
(* once it may commit, and its needed and own ones before.                 *)
LEMMA NothingTodo ==
    ASSUME NEW t \in Jobs, Todo(t) = {}
    PROVE  /\ Job[t].needs \union {Job[t].own} \subseteq Held(t)
           /\ pc[t] = "replacing" \/ ~Job[t].lists => Job[t].refs \subseteq Held(t)
PROOF BY TxAssumption DEF Todo

(* Nothing that DeletedUnderLock speaks of changes.                        *)
LEMMA DeletionsKept ==
    ASSUME IInv, UNCHANGED receivers,
           \A u \in Jobs : gone'[u] = gone[u] \/ gone'[u] = {},
           \A u \in Jobs : pc'[u] = "replacing" =>
               /\ pc[u] = "replacing" /\ gone'[u] = gone[u]
               /\ lock[Job[u].own] = u => lock'[Job[u].own] = u
    PROVE  DeletedUnderLock'
PROOF BY DEF IInv, DeletedUnderLock, Inserted

LEMMA InitInv == Init => IInv
PROOF BY TxAssumption DEF Init, IInv, TypeOK, LocksCoverInserts, NeedsFirst,
         DeletedUnderLock, NoDanglingReceiver, NeedsExist, OnlyCommitted

(* Nothing is committed: what is committed stays as the invariant says.    *)
LEMMA TablesKept ==
    ASSUME IInv, UNCHANGED tables,
           NEW t \in Jobs, pc[t] # "done",
           NEW label \in {"waiting", "open", "replacing"}, pc' = [pc EXCEPT ![t] = label]
    PROVE  NoDanglingReceiver' /\ NeedsExist' /\ OnlyCommitted'
<1>1. \A u \in Jobs : pc'[u] = "done" <=> pc[u] = "done"
  BY DEF IInv, TypeOK
<1>2. NoDanglingReceiver'
  BY DEF IInv, NoDanglingReceiver, tables
<1>3. NeedsExist'
  BY <1>1 DEF IInv, NeedsExist, tables
<1>4. OnlyCommitted'
  <2>1. \A r \in receivers : r[1] \in Jobs
    BY DEF IInv, TypeOK
  <2>2. QED BY <1>1, <2>1 DEF IInv, OnlyCommitted, tables, Inserted
<1>5. QED BY <1>2, <1>3, <1>4

LEMMA BeginInv == ASSUME IInv, NEW t \in Jobs, Begin(t) PROVE IInv'
<1>1. TypeOK'
  BY DEF IInv, TypeOK, Begin, tables, Open
<1>2. LocksCoverInserts' /\ NeedsFirst'
  BY DEF IInv, TypeOK, LocksCoverInserts, NeedsFirst, Begin, tables, Open
<1>3. NoDanglingReceiver' /\ NeedsExist' /\ OnlyCommitted'
  BY TablesKept DEF Begin
<1>4. DeletedUnderLock'
  BY DeletionsKept DEF Begin, tables, IInv, TypeOK
<1>5. QED BY <1>1, <1>2, <1>3, <1>4 DEF IInv

LEMMA QueryInv == ASSUME IInv, NEW t \in Jobs, Query(t) PROVE IInv'
<1>1. PICK a \in Todo(t) : want' = [want EXCEPT ![t] = a]
  BY DEF Query
<1>2. a \in Accounts /\ a \in Job[t].needs \union {Job[t].own} \union Job[t].refs
  BY TodoIsDescribed
<1>3. TypeOK'
  BY <1>1, <1>2 DEF IInv, TypeOK, Query, tables
<1>4. LocksCoverInserts'
  BY DEF IInv, TypeOK, LocksCoverInserts, Query, tables
<1>5. NeedsFirst'
  BY <1>1, <1>2 DEF IInv, TypeOK, NeedsFirst, Query, tables
<1>6. NoDanglingReceiver' /\ NeedsExist' /\ OnlyCommitted'
  BY DEF IInv, NoDanglingReceiver, NeedsExist, OnlyCommitted, Query, tables, Inserted
<1>7. DeletedUnderLock'
  BY DeletionsKept DEF Query, tables
<1>8. QED BY <1>3, <1>4, <1>5, <1>6, <1>7 DEF IInv

LEMMA GrantInv == ASSUME IInv, NEW t \in Jobs, Grant(t) PROVE IInv'
<1> DEFINE a == want[t]
<1>1. /\ a \in Accounts /\ lock[a] = NoJob /\ pc[t] \in Open
      /\ a \in Job[t].needs \union {Job[t].own} \union Job[t].refs
      /\ a \in Job[t].needs => a \in rows
  BY DEF IInv, TypeOK, NeedsFirst, Grant, Missing
<1>2. \A u \in Jobs : a \notin made[u]
  BY <1>1, TxAssumption DEF IInv, LocksCoverInserts
<1>3. TypeOK'
  BY <1>1 DEF IInv, TypeOK, Grant, tables
<1>4. \A b \in Accounts : lock'[b] = IF b = a THEN t ELSE lock[b]
  BY DEF IInv, TypeOK, Grant
<1>5. \A u \in Jobs :
         made'[u] = IF u = t /\ a \notin rows THEN made[u] \union {a} ELSE made[u]
  BY DEF IInv, TypeOK, Grant
<1>6. \A u \in Jobs : want'[u] = IF u = t THEN NoAccount ELSE want[u]
  BY DEF IInv, TypeOK, Grant
<1>7. rows' = rows /\ pc' = pc /\ receivers' = receivers /\ gone' = gone
  BY DEF Grant, tables
<1>8. LocksCoverInserts'
  <2>1. ASSUME NEW u \in Jobs, NEW b \in made'[u]
        PROVE  lock'[b] = u /\ b \notin rows'
    <3>1. CASE b \in made[u]
      BY <3>1, <1>2, <1>4, <1>7 DEF IInv, TypeOK, LocksCoverInserts
    <3>2. CASE b \notin made[u]
      BY <3>2, <2>1, <1>1, <1>4, <1>5, <1>7
    <3>3. QED BY <3>1, <3>2
  <2>2. ASSUME NEW u \in Jobs, NEW b \in Accounts, lock'[b] = u
        PROVE  /\ pc'[u] \in Open
               /\ b \in rows' \union made'[u]
               /\ b \in Job[u].needs \union {Job[u].own} \union Job[u].refs
    <3>1. CASE b = a
      BY <3>1, <2>2, <1>1, <1>4, <1>5, <1>7
    <3>2. CASE b # a
      <4>1. lock[b] = u
        BY <3>2, <2>2, <1>4
      <4>2. made[u] \subseteq made'[u]
        BY <1>5
      <4>3. QED BY <4>1, <4>2, <1>7 DEF IInv, LocksCoverInserts
    <3>3. QED BY <3>1, <3>2
  <2>3. QED BY <2>1, <2>2 DEF LocksCoverInserts
<1>9. NeedsFirst'
  BY <1>1, <1>4, <1>6, <1>7, TxAssumption DEF IInv, NeedsFirst
<1>10. NoDanglingReceiver' /\ NeedsExist' /\ OnlyCommitted'
  BY <1>7 DEF IInv, NoDanglingReceiver, NeedsExist, OnlyCommitted, Inserted
<1>11. DeletedUnderLock'
  <2>1. \A u \in Jobs : lock[Job[u].own] = u => lock'[Job[u].own] = u
    BY <1>1, <1>4, TxAssumption DEF JobType
  <2>2. QED BY <1>7, <2>1, DeletionsKept
<1>12. QED BY <1>3, <1>8, <1>9, <1>10, <1>11 DEF IInv

(* The DELETE takes every receiver row of the account there is, so every   *)
(* one of the row that the transaction has locked.                         *)
LEMMA ClearInv == ASSUME IInv, NEW t \in Jobs, Clear(t) PROVE IInv'
<1>1. /\ pc[t] = "open" /\ want[t] = NoAccount /\ Todo(t) = {}
      /\ \A u \in Jobs : pc'[u] = IF u = t THEN "replacing" ELSE pc[u]
      /\ \A u \in Jobs : gone'[u] = IF u = t THEN ReceiversOf(Sender(t)) ELSE gone[u]
      /\ UNCHANGED <<rows, receivers, want, lock, made, aborts>>
  BY DEF IInv, TypeOK, Clear, tables
<1>2. ReceiversOf(Sender(t)) \subseteq receivers
  BY DEF ReceiversOf
<1>3. TypeOK'
  BY <1>2 DEF IInv, TypeOK, Clear, tables, Open
<1>4. LocksCoverInserts' /\ NeedsFirst'
  BY <1>1 DEF IInv, LocksCoverInserts, NeedsFirst, Open
<1>5. NoDanglingReceiver' /\ NeedsExist' /\ OnlyCommitted'
  BY <1>1, TablesKept DEF Clear
<1>6. DeletedUnderLock'
  <2>1. lock[Job[t].own] = t
    BY <1>1, NothingTodo DEF Held
  <2>2. \A r \in ReceiversOf(Sender(t)) : Inserted(r[1]) \subseteq ReceiversOf(Sender(t))
    BY DEF IInv, OnlyCommitted, ReceiversOf, Inserted
  <2>3. \A r \in receivers : Job[r[1]].own = Job[t].own => r \in ReceiversOf(Sender(t))
    BY DEF ReceiversOf, Sender
  <2>4. \A r : Inserted(r)' = Inserted(r)
    BY DEF Inserted
  <2>5. QED BY <1>1, <2>1, <2>2, <2>3, <2>4 DEF IInv, DeletedUnderLock
<1>7. QED BY <1>3, <1>4, <1>5, <1>6 DEF IInv

(* What the end of a transaction does to locks, inserts and queries.       *)
LEMMA Released ==
    ASSUME IInv, NEW t \in Jobs, Release(t)
    PROVE  /\ \A a \in Accounts : lock'[a] # t
           /\ \A a \in Accounts : lock'[a] # NoJob => lock'[a] = lock[a]
           /\ \A a \in Accounts : lock[a] # t => lock'[a] = lock[a]
           /\ \A u \in Jobs : made'[u] = IF u = t THEN {} ELSE made[u]
           /\ \A u \in Jobs : want'[u] = IF u = t THEN NoAccount ELSE want[u]
           /\ lock' \in [Accounts -> Jobs \union {NoJob}]
           /\ made' \in [Jobs -> SUBSET Accounts]
           /\ \A u \in Jobs : gone'[u] = IF u = t THEN {} ELSE gone[u]
           /\ gone' \in [Jobs -> SUBSET (Jobs \X Accounts)]
           /\ want' \in [Jobs -> Accounts \union {NoAccount}]
PROOF BY TxAssumption DEF IInv, TypeOK, Release

LEMMA RollbackInv ==
    ASSUME IInv, NEW t \in Jobs, pc[t] \in Open, Rollback(t), aborts' \in Nat
    PROVE  IInv'
<1>1. TypeOK'
  BY Released DEF IInv, TypeOK, Rollback, tables
<1>2. \A u \in Jobs : u # t => pc'[u] = pc[u]
  BY DEF IInv, TypeOK, Rollback
<1>3. LocksCoverInserts'
  BY <1>2, Released, TxAssumption
  DEF IInv, TypeOK, LocksCoverInserts, Rollback, tables
<1>4. NeedsFirst'
  BY <1>2, Released, TxAssumption DEF IInv, TypeOK, NeedsFirst, Rollback, tables
<1>5. NoDanglingReceiver' /\ NeedsExist' /\ OnlyCommitted'
  BY TablesKept DEF Rollback, Open
<1>6. DeletedUnderLock'
  <2>1. \A u \in Jobs : pc'[u] = "replacing" => u # t /\ pc[u] = "replacing"
    BY <1>2 DEF IInv, TypeOK, Rollback
  <2>2. \A u \in Jobs : u # t /\ lock[Job[u].own] = u => lock'[Job[u].own] = u
    BY Released, TxAssumption DEF Rollback, JobType
  <2>3. /\ receivers' = receivers
        /\ \A u \in Jobs : gone'[u] = IF u = t THEN {} ELSE gone[u]
    BY Released DEF Rollback, tables
  <2>4. QED BY <2>1, <2>2, <2>3, DeletionsKept
<1>7. QED BY <1>1, <1>3, <1>4, <1>5, <1>6 DEF IInv

LEMMA CommitInv == ASSUME IInv, NEW t \in Jobs, Commit(t) PROVE IInv'
<1> DEFINE all == Job[t].needs \union {Job[t].own} \union Job[t].refs
<1>1. /\ pc[t] = (IF Job[t].lists THEN "replacing" ELSE "open")
      /\ rows' = rows \union made[t]
      /\ \A u \in Jobs : pc'[u] = IF u = t THEN "done" ELSE pc[u]
      /\ pc' \in [Jobs -> {"waiting", "done"} \union Open]
      /\ Release(t)
  BY DEF IInv, TypeOK, Commit
<1>2. /\ Job[t].own \in Accounts /\ Job[t].refs \subseteq Accounts
      /\ \A u \in Jobs : Job[u].own \in Accounts
  BY TxAssumption DEF JobType
<1>3. receivers' = (receivers \ gone[t]) \union Inserted(t)
  BY DEF Commit
<1>4. all \subseteq rows'
  <2>1. all \subseteq Held(t)
    BY <1>1, NothingTodo DEF Commit
  <2>2. QED BY <1>1, <2>1 DEF Held, IInv, LocksCoverInserts
<1>5. made[t] \subseteq Job[t].needs \union {Job[t].own} \union Job[t].refs
  BY DEF IInv, TypeOK, LocksCoverInserts
<1>6. made[t] \subseteq {Job[t].own} \union Job[t].refs
  BY <1>5 DEF IInv, TypeOK, LocksCoverInserts, NeedsFirst
<1>7. TypeOK'
  <2>1. receivers' \subseteq Jobs \X Accounts
    BY <1>2, <1>3 DEF IInv, TypeOK, Inserted
  <2>2. rows' \subseteq Accounts
    BY <1>1 DEF IInv, TypeOK
  <2>3. QED BY <1>1, <2>1, <2>2, Released DEF IInv, TypeOK, Commit
<1>8. LocksCoverInserts'
  BY <1>1, Released, TxAssumption DEF IInv, TypeOK, LocksCoverInserts
<1>9. NeedsFirst'
  BY <1>1, Released, TxAssumption DEF IInv, TypeOK, NeedsFirst
<1>10. NoDanglingReceiver'
  BY <1>1, <1>3, <1>4 DEF IInv, NoDanglingReceiver, Inserted
<1>11. NeedsExist'
  BY <1>1, <1>4 DEF IInv, NeedsExist
<1>12. OnlyCommitted'
  <2>1. ASSUME NEW a \in rows'
        PROVE  \E u \in Jobs : pc'[u] = "done" /\ a \in {Job[u].own} \union Job[u].refs
    <3>1. CASE a \in made[t]
      BY <3>1, <1>1, <1>6
    <3>2. CASE a \in rows
      BY <3>2, <1>1 DEF IInv, OnlyCommitted
    <3>3. QED BY <3>1, <3>2, <2>1, <1>1
  <2>2. \A u \in Jobs : Inserted(u)' = Inserted(u)
    BY DEF Inserted
  <2>3. ASSUME NEW r \in receivers'
        PROVE  /\ r[1] \in Jobs /\ pc'[r[1]] = "done" /\ r \in Inserted(r[1])
               /\ Inserted(r[1]) \subseteq receivers'
    <3>1. CASE r \in Inserted(t)
      BY <3>1, <1>1, <1>3 DEF Inserted
    <3>2. CASE r \in receivers \ gone[t]
      <4>1. /\ r[1] \in Jobs /\ pc[r[1]] = "done" /\ r \in Inserted(r[1])
            /\ Inserted(r[1]) \subseteq receivers
        BY <3>2 DEF IInv, OnlyCommitted, TypeOK
      <4>2. ASSUME NEW q \in Inserted(r[1]) PROVE q \notin gone[t]
        <5>1. q[1] = r[1]
          BY DEF Inserted
        <5>2. q \in gone[t] => Inserted(q[1]) \subseteq gone[t]
          BY DEF IInv, DeletedUnderLock
        <5>3. QED BY <3>2, <4>1, <5>1, <5>2
      <4>3. QED BY <1>1, <1>3, <4>1, <4>2
    <3>3. QED BY <1>3, <3>1, <3>2
  <2>4. ASSUME NEW r \in receivers \ gone[t], Inserted(t) # {}
        PROVE  Job[r[1]].own # Job[t].own
    <3>1. Job[t].lists
      BY <2>4, TxAssumption DEF Inserted
    <3>2. QED BY <1>1, <3>1 DEF IInv, DeletedUnderLock
  <2>5. ASSUME NEW r \in receivers', NEW q \in receivers', Job[r[1]].own = Job[q[1]].own
        PROVE  r[1] = q[1]
    <3>1. CASE r \in receivers \ gone[t] /\ q \in receivers \ gone[t]
      BY <2>5, <3>1 DEF IInv, OnlyCommitted
    <3>2. CASE r \in Inserted(t) /\ q \in Inserted(t)
      BY <3>2 DEF Inserted
    <3>3. CASE r \in Inserted(t) /\ q \in receivers \ gone[t]
      <4>1. r[1] = t
        BY <3>3 DEF Inserted
      <4>2. QED BY <2>4, <2>5, <3>3, <4>1
    <3>4. CASE q \in Inserted(t) /\ r \in receivers \ gone[t]
      <4>1. q[1] = t
        BY <3>4 DEF Inserted
      <4>2. QED BY <2>4, <2>5, <3>4, <4>1
    <3>5. QED BY <1>3, <3>1, <3>2, <3>3, <3>4
  <2>6. QED BY <2>1, <2>2, <2>3, <2>5 DEF OnlyCommitted
<1>13. DeletedUnderLock'
  <2>1. ASSUME NEW u \in Jobs, pc'[u] = "replacing"
        PROVE  /\ u # t /\ pc[u] = "replacing" /\ gone'[u] = gone[u]
               /\ lock[Job[u].own] = u /\ lock'[Job[u].own] = u
               /\ Job[u].own # Job[t].own
    <3>1. u # t /\ pc[u] = "replacing"
      BY <1>1, <2>1
    <3>2. lock[Job[u].own] = u
      BY <3>1 DEF IInv, DeletedUnderLock
    <3>3. lock[Job[t].own] = t
      BY NothingTodo DEF Commit, Held
    <3>4. gone'[u] = gone[u] /\ lock'[Job[u].own] = u
      BY <1>1, <1>2, <3>1, <3>2, Released
    <3>5. QED BY <3>1, <3>2, <3>3, <3>4
  <2>2. ASSUME NEW u \in Jobs, pc'[u] = "replacing", NEW r \in receivers',
               Job[r[1]].own = Job[u].own
        PROVE  r \in gone'[u]
    <3>1. r \notin Inserted(t)
      BY <2>1, <2>2 DEF Inserted
    <3>2. QED BY <1>3, <2>1, <2>2, <3>1 DEF IInv, DeletedUnderLock
  <2>3. \A u \in Jobs : \A r \in gone'[u] : Inserted(r[1]) \subseteq gone'[u]
    BY <1>1, Released DEF IInv, DeletedUnderLock
  <2>4. \A u : Inserted(u)' = Inserted(u)
    BY DEF Inserted
  <2>5. QED BY <2>1, <2>2, <2>3, <2>4 DEF DeletedUnderLock
<1>14. QED BY <1>7, <1>8, <1>9, <1>10, <1>11, <1>12, <1>13 DEF IInv

LEMMA Invariance == Spec => []IInv
<1>1. IInv /\ [Next]_vars => IInv'
  <2> SUFFICES ASSUME IInv, [Next]_vars PROVE IInv'
    OBVIOUS
  <2>1. CASE UNCHANGED vars
    BY <2>1 DEF vars, IInv, TypeOK, LocksCoverInserts, NeedsFirst,
         DeletedUnderLock, NoDanglingReceiver, NeedsExist, OnlyCommitted, Inserted
  <2>2. ASSUME NEW t \in Jobs, Step(t) \/ Abort(t) PROVE IInv'
    <3>1. CASE Begin(t) BY <3>1, BeginInv
    <3>2. CASE Query(t) BY <3>2, QueryInv
    <3>3. CASE Grant(t) BY <3>3, GrantInv
    <3>4. CASE Commit(t) BY <3>4, CommitInv
    <3>8. CASE Clear(t) BY <3>8, ClearInv
    <3>5. CASE Retry(t) \/ Deadlocked(t)
      <4>1. want[t] # NoAccount
        BY <3>5, TxAssumption DEF Retry, Missing, Deadlocked, Cycle, JobType
      <4>2. pc[t] \in Open
        BY <4>1 DEF IInv, TypeOK, NeedsFirst
      <4>3. Rollback(t) /\ aborts' \in Nat
        BY <3>5 DEF Retry, Deadlocked, IInv, TypeOK
      <4>4. QED BY <4>2, <4>3, RollbackInv
    <3>6. CASE Abort(t)
      <4>1. aborts' \in Nat
        BY <3>6 DEF Abort, IInv, TypeOK
      <4>2. QED BY <3>6, <4>1, RollbackInv DEF Abort
    <3>7. QED BY <2>2, <3>1, <3>2, <3>3, <3>4, <3>5, <3>6, <3>8 DEF Step
  <2>3. QED BY <2>1, <2>2 DEF Next
<1>2. QED BY <1>1, InitInv, PTL DEF Spec

(* Receivers and their senders exist, as foreign keys would require.       *)
THEOREM ReceiversExist == Spec => []NoDanglingReceiver
PROOF BY Invariance, PTL DEF IInv

(* The root and the parent of every stored sub-list exist.                 *)
THEOREM NeededRowsExist == Spec => []NeedsExist
PROOF BY Invariance, PTL DEF IInv

(* Rolled back transactions leave nothing, receiver rows are there for a   *)
(* whole document or not at all, and never for two documents of one row,   *)
(* because each deletes under the lock of the row what it replaces.        *)
THEOREM NothingHalfDone == Spec => []OnlyCommitted
PROOF BY Invariance, PTL DEF IInv

(* No row is inserted by two transactions.                                 *)
THEOREM NoDuplicateKey == Spec => []InsertedOnce
<1>1. IInv => InsertedOnce
  BY DEF IInv, TypeOK, LocksCoverInserts, InsertedOnce
<1>2. QED BY <1>1, Invariance, PTL
----------------------------------------------------------------------------
(* Transactions that wait for each other are found.                        *)

(* A query that is neither answered nor refused.                           *)
Blocked(t) == want[t] # NoAccount /\ ~Missing(t) /\ lock[want[t]] # NoJob

(* No open transaction can go on.                                          *)
Stuck == /\ \E t \in Jobs : pc[t] \in Open
         /\ \A t \in Jobs : pc[t] \in Open => Blocked(t)

(* Among finitely many transactions each of which waits for one of them    *)
(* there is a cycle: the smallest set that nobody waits out of.            *)
LEMMA CycleExists ==
    ASSUME NEW S, IsFiniteSet(S), S # {},
           \A t \in S : want[t] # NoAccount /\ lock[want[t]] \in S
    PROVE  \E T \in SUBSET S : Cycle(T)
<1>. DEFINE Closed   == {T \in SUBSET S : T # {} /\ \A t \in T : lock[want[t]] \in T}
            Image(T) == {lock[want[t]] : t \in T}
<1>1. Closed \subseteq FiniteSubsetsOf(S) /\ S \in Closed
  BY FS_Subset DEF FiniteSubsetsOf
<1>2. PICK T \in Closed : \A U \in Closed : <<U, T>> \notin StrictSubsetOrdering(S)
  <2>. HIDE DEF Closed
  <2>. QED
    BY <1>1, FS_StrictSubsetOrderingWellFounded, WFMin, Zenon
<1>3. Image(T) \in Closed /\ Image(T) \subseteq T
  OBVIOUS
<1>4. Image(T) = T
  BY <1>2, <1>3 DEF StrictSubsetOrdering
<1>5. Cycle(T)
  BY <1>4 DEF Cycle
<1>. QED
  BY <1>5

(* Whenever no open transaction can go on there is a cycle of them, which  *)
(* the deadlock detection ends: none waits for a transaction that is over, *)
(* and so nothing is ever stuck that Postgres would not find.              *)
THEOREM StuckMeansDeadlocked ==
    ASSUME IsFiniteSet(Jobs)
    PROVE  Spec => [](Stuck => \E T \in SUBSET Jobs : Cycle(T))
<1>1. IInv => (Stuck => \E T \in SUBSET Jobs : Cycle(T))
  <2> SUFFICES ASSUME IInv, Stuck PROVE \E T \in SUBSET Jobs : Cycle(T)
    OBVIOUS
  <2>. DEFINE S == {t \in Jobs : pc[t] \in Open}
  <2>1. IsFiniteSet(S) /\ S # {}
    BY FS_Subset DEF Stuck
  <2>2. ASSUME NEW t \in S PROVE want[t] # NoAccount /\ lock[want[t]] \in S
    <3>1. want[t] # NoAccount /\ lock[want[t]] # NoJob
      BY DEF Stuck, Blocked
    <3>2. want[t] \in Accounts
      BY <3>1 DEF IInv, TypeOK
    <3>3. lock[want[t]] \in Jobs
      BY <3>1, <3>2 DEF IInv, TypeOK
    <3>. QED
      BY <3>1, <3>2, <3>3 DEF IInv, LocksCoverInserts
  <2>3. \E T \in SUBSET S : Cycle(T)
    <3>. HIDE DEF S
    <3>. QED
      BY <2>1, <2>2, CycleExists
  <2>. QED
    BY <2>3
<1>. QED
  BY <1>1, Invariance, PTL
=============================================================================
