----------------------------- MODULE PollProofs -----------------------------
(***************************************************************************)
(* Proofs about Poll, for every chain length, set of contents, number of   *)
(* endpoints, chunk size and start block, and every depth of confirmation  *)
(* that covers lag and reorganisation together.                            *)
(***************************************************************************)
EXTENDS Poll, TLAPS

LEMMA LargerSmaller ==
    ASSUME NEW m \in Int, NEW n \in Int
    PROVE  /\ Larger(m, n) \in {m, n} /\ Larger(m, n) >= m /\ Larger(m, n) >= n
           /\ Smaller(m, n) \in {m, n} /\ Smaller(m, n) <= m /\ Smaller(m, n) <= n
  BY DEF Larger, Smaller

(* The range a poll plans is a range of integers, ends under the           *)
(* confirmations and starts no later than the first block not indexed.     *)
LEMMA PlannedRange ==
    ASSUME NEW s \in {0, StartFromBlock}, NEW tip \in Nat, cursor \in Int
    PROVE  /\ FromBlock(s, tip) \in Int /\ ToBlock(s, tip) \in Int
           /\ ToBlock(s, tip) <= tip - Confirmations
           /\ FromBlock(s, tip) <= ToBlock(s, tip)
           /\ ToBlock(s, tip) < 0 => FromBlock(s, tip) = ToBlock(s, tip)
           /\ FromBlock(s, tip) <= Larger(StartFromBlock, cursor + 1)
<1>1. /\ FirstBlock(s) \in Int /\ FirstBlock(s) >= 0
      /\ FirstBlock(s) <= Larger(StartFromBlock, cursor + 1)
  BY PollAssumption DEF FirstBlock, Larger
<1>2. ToBlock(s, tip) \in Int /\ ToBlock(s, tip) <= tip - Confirmations
  BY <1>1, PollAssumption DEF ToBlock, Smaller
<1>3. FromBlock(s, tip) \in {FirstBlock(s), ToBlock(s, tip)}
  BY <1>1, <1>2, LargerSmaller DEF FromBlock
<1>4. FromBlock(s, tip) <= FirstBlock(s) /\ FromBlock(s, tip) <= ToBlock(s, tip)
  BY <1>1, <1>2, LargerSmaller DEF FromBlock
<1>5. Larger(StartFromBlock, cursor + 1) \in Int
  BY PollAssumption DEF Larger
<1>6. ToBlock(s, tip) < 0 => FromBlock(s, tip) = ToBlock(s, tip)
  BY <1>1, <1>2 DEF FromBlock, Smaller
<1>. QED
  BY <1>1, <1>2, <1>3, <1>4, <1>5, <1>6

LEMMA NotNegative ==
    ASSUME NEW n \in Int, ~(n < 0)
    PROVE  n >= 0 /\ n + 0 = n
  OBVIOUS

LEMMA LogsAreEvents ==
    ASSUME NEW v, NEW lo, NEW hi
    PROVE  LogsIn(v, lo, hi) \subseteq Event
  BY DEF LogsIn

(* Type correctness.                                                       *)
THEOREM TypeCorrect == Spec => []TypeOK
<1>1. Init => TypeOK
  BY PollAssumption DEF Init, TypeOK, Snapshot, Blocks
<1>2. TypeOK /\ [Next]_vars => TypeOK'
  <2> SUFFICES ASSUME TypeOK, [Next]_vars PROVE TypeOK'
    OBVIOUS
  <2>. USE PollAssumption DEF TypeOK, pollVars, chainVars
  <2>1. ASSUME NEW c \in Contents, Mine(c) PROVE TypeOK'
    <3>1. head' \in 0..MaxBlock
      BY <2>1 DEF Mine
    <3>2. chain' \in [Blocks -> Contents \union {Unmined}]
      BY <2>1 DEF Mine
    <3>. QED
      BY <2>1, <3>1, <3>2 DEF Mine
  <2>2. ASSUME NEW b \in Blocks, NEW c \in Contents, Reorg(b, c) PROVE TypeOK'
    BY <2>2 DEF Reorg
  <2>3. ASSUME NEW e \in Endpoints, Sync(e) PROVE TypeOK'
    <3>1. [head |-> head, chain |-> chain] \in Snapshot
      BY DEF Snapshot
    <3>. QED
      BY <2>3, <3>1 DEF Sync
  <2>4. ASSUME NEW down \in SUBSET Endpoints, PollHead(down) PROVE TypeOK'
    <3>1. PICK e \in Endpoints : PlanRange(view[e].head)
      BY <2>4 DEF PollHead
    <3>2. view[e].head \in Nat
      BY DEF Snapshot
    <3>. DEFINE tip == view[e].head
    <3>. HIDE DEF tip
    <3>3. to' \in Int /\ from' \in Int
      <4>1. tip \in Nat
        BY <3>2 DEF tip
      <4>2. ToBlock(start, tip) \in Int /\ FromBlock(start, tip) \in Int
        BY <4>1, PlannedRange
      <4>3. to' = ToBlock(start, tip) /\ from' = FromBlock(start, tip)
        BY <3>1 DEF PlanRange, tip
      <4>. QED
        BY <4>2, <4>3
    <3>4. /\ pc' \in {"timer", "resolve", "fetch"} /\ base' = 0
          /\ pc' = "fetch" => ~(to' < 0)
          /\ pc' = "resolve" => to' < 0
      BY <3>1 DEF PlanRange
    <3>5. UNCHANGED <<head, chain, view, cursor, jobs, start, pending, crashes, early>>
      BY <3>1 DEF PlanRange
    <3>6. pc' # "save" /\ (pc' = "fetch" => to' + base' >= 0)
      <4>1. pc' = "fetch" => to' >= 0 /\ to' + 0 = to'
        BY ONLY <3>3, <3>4, NotNegative
      <4>. QED
        BY ONLY <3>4, <4>1
    <3>7. pc' \in {"resolve", "fetch", "timer"} /\ base' \in Int
      BY <3>4
    <3>8. pc' \in {"fetch", "save"} => to' + base' >= 0 /\ (to' >= 0 => base' = 0)
      BY ONLY <3>4, <3>6
    <3>. QED
      BY <3>3, <3>4, <3>5, <3>7, <3>8
  <2>5. ASSUME NEW down \in SUBSET Endpoints, GetLogs(down) PROVE TypeOK'
    BY <2>5, LogsAreEvents DEF GetLogs
  <2>6. ASSUME NEW ev \in Event, SaveJob(ev) PROVE TypeOK'
    BY <2>6 DEF SaveJob
  <2>12. ASSUME NEW down \in SUBSET Endpoints, Resolve(down) PROVE TypeOK'
    <3>1. PICK e \in Endpoints : base' \in {to + Confirmations, view[e].head}
      BY <2>12 DEF Resolve
    <3>2. base' \in Int
      BY <3>1 DEF Snapshot
    <3>3. /\ pc = "resolve" /\ pc' \in {"down", "fetch"}
          /\ pc' = "fetch" => ~(to + base' < 0)
          /\ UNCHANGED <<head, chain, view, cursor, jobs, start, from, to, pending,
                          crashes, early>>
      BY <2>12 DEF Resolve
    <3>4. to < 0 /\ (pc' = "fetch" => to' + base' >= 0)
      <4>1. to + base' \in Int /\ to' = to
        BY <3>2, <3>3
      <4>2. pc' = "fetch" => to + base' >= 0
        BY ONLY <3>3, <4>1, NotNegative
      <4>. QED
        BY <3>3, <4>1, <4>2
    <3>5. pc' \in {"fetch", "save"} => to' + base' >= 0 /\ (to' >= 0 => base' = 0)
      <4>1. ~(to' >= 0) /\ pc' # "save"
        BY <3>3, <3>4
      <4>. QED
        BY ONLY <3>3, <3>4, <4>1
    <3>. QED
      BY <3>2, <3>3, <3>4, <3>5
  <2>7. CASE SetCursor
    BY <2>7 DEF SetCursor
  <2>8. CASE Timer
    BY <2>8 DEF Timer
  <2>9. CASE Crash
    BY <2>9 DEF Crash
  <2>10. CASE Restart
    BY <2>10 DEF Restart
  <2>11. CASE UNCHANGED vars
    BY <2>11 DEF vars
  <2>. QED
    BY <2>1, <2>2, <2>3, <2>4, <2>5, <2>6, <2>7, <2>8, <2>9, <2>10, <2>11, <2>12
       DEF Next, Environment, Poller
<1>. QED
  BY <1>1, <1>2, PTL DEF Spec
----------------------------------------------------------------------------
(* The inductive invariant.  One lemma per group of actions.               *)

(* What a fetch returns is what the canonical chain holds in the range,    *)
(* because the range ends below every block on which a view may differ.    *)
LEMMA LogsAreCanonical ==
    ASSUME TypeOK, ViewsAgree, NEW e \in Endpoints, NEW ev \in Event,
           to <= head - Confirmations, from <= ev[1], ev[1] <= to,
           from \in Int, to \in Int
    PROVE  /\ ev[1] <= view[e].head
           /\ view[e].chain[ev[1]] = chain[ev[1]]
<1>1. ev[1] \in Blocks /\ ev[1] \in Int
  BY PollAssumption DEF Event, Blocks
<1>2. head \in Int /\ view[e].head \in Int
  BY PollAssumption DEF TypeOK, Snapshot
<1>3. head - MaxLag <= view[e].head
  BY DEF ViewsAgree
<1>4. ev[1] <= view[e].head - MaxReorg
  BY <1>1, <1>2, <1>3, PollAssumption, CoverAssumption
<1>. QED
  BY <1>1, <1>2, <1>4, PollAssumption DEF ViewsAgree

LEMMA InitInv == Init => IInv
<1> SUFFICES ASSUME Init PROVE IInv
  OBVIOUS
<1>. USE PollAssumption DEF Init
<1>1. TypeOK
  BY DEF TypeOK, Snapshot, Blocks
<1>2. ViewsAgree /\ AllConfirmed /\ RangeIsSound /\ RangeCovered
  BY DEF ViewsAgree, AllConfirmed, RangeIsSound, RangeCovered
<1>3. NoEventLost
  BY DEF NoEventLost, Event, Blocks
<1>. QED
  BY <1>1, <1>2, <1>3 DEF IInv

(* The chain grows or is rewritten only above everything that was          *)
(* confirmed.                                                              *)
LEMMA ChainInv ==
    ASSUME IInv, TypeOK', head' \in {head, head + 1},
           UNCHANGED pollVars, ViewsAgree',
           \A b \in Blocks : b <= head - Confirmations => chain'[b] = chain[b]
    PROVE  IInv'
<1>. USE PollAssumption
<1>1. /\ head \in Int /\ head' \in Int
      /\ \A n \in Int : n <= head - Confirmations => n <= head' - Confirmations
  <2>1. head \in Int /\ Confirmations \in Int
    BY DEF IInv, TypeOK
  <2>2. CASE head' = head
    BY <2>1, <2>2
  <2>3. CASE head' = head + 1
    BY <2>1, <2>3
  <2>. QED
    BY <2>2, <2>3
<1>2. ASSUME NEW ev \in Event, ev[1] <= head - Confirmations
      PROVE  chain'[ev[1]] = chain[ev[1]]
  BY <1>2 DEF Event
<1>3. \A ev \in Event : Confirmed(ev) => Confirmed(ev)'
  <2>1. ASSUME NEW ev \in Event, Confirmed(ev) PROVE Confirmed(ev)'
    <3>1. ev[1] \in Int /\ ev[1] <= head - Confirmations
      BY <2>1 DEF Event, Blocks, Confirmed
    <3>. QED
      BY <1>1, <1>2, <2>1, <3>1 DEF Confirmed
  <2>. QED
    BY <2>1
<1>4. AllConfirmed'
  <2>1. AllConfirmed /\ jobs \subseteq Event /\ pending \subseteq Event /\ cursor \in Int
    BY DEF IInv, TypeOK
  <2>2. \A ev \in jobs' \ early' : Confirmed(ev)'
    BY <1>3, <2>1 DEF AllConfirmed, pollVars
  <2>3. pc' = "save" /\ to' >= 0 => \A ev \in pending' : Confirmed(ev)'
    BY <1>3, <2>1 DEF AllConfirmed, pollVars
  <2>4. cursor' = 0 \/ cursor' <= head' - Confirmations
    BY <1>1, <2>1 DEF AllConfirmed, pollVars
  <2>. QED
    BY <2>2, <2>3, <2>4 DEF AllConfirmed
<1>5. RangeIsSound'
  <2>1. RangeIsSound /\ to \in Int /\ from \in Int /\ cursor \in Int
    BY DEF IInv, TypeOK
  <2>2. UNCHANGED <<pc, to, from, cursor>>
    BY DEF pollVars
  <2>. QED
    BY <1>1, <2>1, <2>2 DEF RangeIsSound, Larger
<1>6. RangeCovered'
  <2> SUFFICES ASSUME pc = "save", to >= 0, NEW ev \in Event,
                      from <= ev[1], ev[1] <= to,
                      ev[2] = chain'[ev[1]], ev[2] \in Registered
               PROVE  ev \in jobs \union pending
    BY DEF RangeCovered, pollVars, IInv
  <2>1. ev[1] \in Int /\ to \in Int /\ to <= head - Confirmations
    BY DEF IInv, TypeOK, RangeIsSound, Event, Blocks
  <2>2. ev[2] = chain[ev[1]]
    BY <1>1, <1>2, <2>1
  <2>. QED
    BY <2>2 DEF IInv, RangeCovered
<1>7. NoEventLost'
  <2> SUFFICES ASSUME NEW ev \in Event, StartFromBlock <= ev[1], ev[1] <= cursor,
                      ev[2] = chain'[ev[1]], ev[2] \in Registered
               PROVE  ev \in jobs
    BY DEF NoEventLost, pollVars
  <2>1. ev[1] \in Int /\ 1 <= ev[1] /\ cursor \in Int
    BY DEF IInv, TypeOK, Event, Blocks
  <2>2. ev[1] <= head - Confirmations
    BY <1>1, <2>1 DEF IInv, AllConfirmed
  <2>3. ev[2] = chain[ev[1]]
    BY <1>2, <2>2
  <2>. QED
    BY <2>3 DEF IInv, NoEventLost
<1>. QED
  BY <1>4, <1>5, <1>6, <1>7 DEF IInv
LEMMA EnvironmentInv == IInv /\ TypeOK' /\ Environment => IInv'
<1> SUFFICES ASSUME IInv, TypeOK', Environment PROVE IInv'
  OBVIOUS
<1>. USE PollAssumption
<1>1. /\ head \in Int /\ MaxReorg \in Nat /\ Confirmations \in Nat
      /\ \A e \in Endpoints : view[e].head \in Int
      /\ MaxReorg <= Confirmations
  BY CoverAssumption DEF IInv, TypeOK, Snapshot
<1>2. ASSUME NEW c \in Contents, Mine(c) PROVE IInv'
  <2>1. head' = head + 1 /\ view' = view /\ UNCHANGED pollVars
    BY <1>2 DEF Mine
  <2>2. \A b \in Blocks : b <= head => chain'[b] = chain[b]
    BY <1>1, <1>2 DEF Mine, IInv, TypeOK, Blocks
  <2>3. ViewsAgree'
    <3> SUFFICES ASSUME NEW e \in Endpoints
                 PROVE  /\ head' - MaxLag <= view[e].head /\ view[e].head <= head'
                        /\ \A b \in Blocks : b <= view[e].head - MaxReorg
                                              => view[e].chain[b] = chain'[b]
      BY <2>1 DEF ViewsAgree
    <3>1. head + 1 - MaxLag <= view[e].head /\ view[e].head <= head
      BY <1>1, <1>2 DEF Mine, IInv, ViewsAgree
    <3>2. ASSUME NEW b \in Blocks, b <= view[e].head - MaxReorg
          PROVE  view[e].chain[b] = chain'[b]
      <4>1. view[e].chain[b] = chain[b]
        BY <3>2 DEF IInv, ViewsAgree
      <4>2. b <= head
        BY <1>1, <3>1, <3>2 DEF Blocks
      <4>. QED
        BY <2>2, <4>1, <4>2
    <3>. QED
      BY <1>1, <2>1, <3>1, <3>2
  <2>4. \A b \in Blocks : b <= head - Confirmations => chain'[b] = chain[b]
    BY <1>1, <2>2 DEF Blocks
  <2>. QED
    BY <2>1, <2>3, <2>4, ChainInv
<1>3. ASSUME NEW b \in Blocks, NEW c \in Contents, Reorg(b, c) PROVE IInv'
  <2>1. head' = head /\ view' = view /\ UNCHANGED pollVars
    BY <1>3 DEF Reorg
  <2>2. \A k \in Blocks : k <= head - MaxReorg => chain'[k] = chain[k]
    BY <1>1, <1>3 DEF Reorg, IInv, TypeOK, Blocks
  <2>3. ViewsAgree'
    <3>1. ASSUME NEW e \in Endpoints, NEW k \in Blocks, k <= view[e].head - MaxReorg
          PROVE  view[e].chain[k] = chain'[k]
      <4>1. k <= head - MaxReorg
        BY <1>1, <3>1 DEF IInv, ViewsAgree, Blocks
      <4>. QED
        BY <2>2, <3>1, <4>1 DEF IInv, ViewsAgree
    <3>. QED
      BY <2>1, <3>1 DEF IInv, ViewsAgree
  <2>4. \A k \in Blocks : k <= head - Confirmations => chain'[k] = chain[k]
    BY <1>1, <2>2 DEF Blocks
  <2>. QED
    BY <2>1, <2>3, <2>4, ChainInv
<1>4. ASSUME NEW e \in Endpoints, Sync(e) PROVE IInv'
  <2>1. UNCHANGED <<head, chain>> /\ UNCHANGED pollVars
    BY <1>4 DEF Sync, chainVars
  <2>2. ViewsAgree'
    <3> SUFFICES ASSUME NEW f \in Endpoints
                 PROVE  /\ head - MaxLag <= view'[f].head /\ view'[f].head <= head
                        /\ \A b \in Blocks : b <= view'[f].head - MaxReorg
                                              => view'[f].chain[b] = chain[b]
      BY <2>1 DEF ViewsAgree
    <3>1. CASE f = e
      BY <1>1, <1>4, <3>1 DEF Sync, IInv, TypeOK
    <3>2. CASE f # e
      BY <1>4, <3>2 DEF Sync, IInv, TypeOK, ViewsAgree
    <3>. QED
      BY <3>1, <3>2
  <2>. QED
    BY <2>1, <2>2, ChainInv
<1>. QED
  BY <1>2, <1>3, <1>4 DEF Environment

(* The steps of the process leave the chain and the views alone.           *)
LEMMA PollerInv == IInv /\ TypeOK' /\ (Poller \/ Crash \/ UNCHANGED vars) => IInv'
<1> SUFFICES ASSUME IInv, TypeOK', Poller \/ Crash \/ UNCHANGED vars PROVE IInv'
  OBVIOUS
<1>. USE PollAssumption
<1>1. TypeOK /\ ViewsAgree /\ AllConfirmed /\ RangeIsSound /\ RangeCovered /\ NoEventLost
  BY DEF IInv
<1>2. ViewsAgree'
  <2>1. UNCHANGED <<head, chain, view>>
    BY DEF Poller, PollHead, PlanRange, Resolve, GetLogs, SaveJob, SetCursor, Timer, Restart,
           Crash, vars, chainVars
  <2>. QED
    BY <1>1, <2>1 DEF ViewsAgree
<1>3. ASSUME UNCHANGED <<head, chain, cursor, jobs, early>>,
             pc' \notin {"resolve", "fetch", "save"}
      PROVE  IInv'
  BY <1>1, <1>2, <1>3
     DEF IInv, AllConfirmed, Confirmed, RangeIsSound, RangeCovered, NoEventLost
<1>4. ASSUME NEW down \in SUBSET Endpoints, PollHead(down) PROVE IInv'
  <2>1. PICK e \in Endpoints : PlanRange(view[e].head)
    BY <1>4 DEF PollHead
  <2>. DEFINE tip == view[e].head
  <2>2. tip \in Nat /\ tip <= head /\ head \in Int /\ cursor \in Int
        /\ start \in {0, StartFromBlock}
    BY <1>1 DEF TypeOK, Snapshot, ViewsAgree
  <2>3. UNCHANGED <<head, chain, cursor, jobs, early>>
    BY <2>1 DEF PlanRange, chainVars
  <2>4. CASE pc' = "timer"
    BY <1>3, <2>1, <2>3, <2>4 DEF PlanRange
  <2>5. CASE pc' \in {"resolve", "fetch"}
    <3>. HIDE DEF tip
    <3>1. to' = ToBlock(start, tip) /\ from' = FromBlock(start, tip)
      BY <2>1 DEF PlanRange, tip
    <3>2. /\ FromBlock(start, tip) \in Int /\ ToBlock(start, tip) \in Int
          /\ ToBlock(start, tip) <= tip - Confirmations
          /\ FromBlock(start, tip) <= ToBlock(start, tip)
          /\ ToBlock(start, tip) < 0 => FromBlock(start, tip) = ToBlock(start, tip)
          /\ FromBlock(start, tip) <= Larger(StartFromBlock, cursor + 1)
      BY <2>2, PlannedRange
    <3>3. ToBlock(start, tip) <= head - Confirmations
      BY <2>2, <3>2
    <3>4. RangeIsSound'
      BY <2>3, <3>1, <3>2, <3>3 DEF RangeIsSound, Larger
    <3>. QED
      BY <1>1, <1>2, <2>3, <2>5, <3>4
         DEF IInv, AllConfirmed, Confirmed, RangeCovered, NoEventLost
  <2>6. pc' \in {"timer", "resolve", "fetch"}
    BY <2>1 DEF PlanRange
  <2>. QED
    BY <2>4, <2>5, <2>6
<1>12. ASSUME NEW down \in SUBSET Endpoints, Resolve(down) PROVE IInv'
  <2>1. /\ pc = "resolve" /\ pc' \in {"down", "fetch"}
        /\ UNCHANGED <<head, chain, cursor, jobs, early, from, to>>
    BY <1>12 DEF Resolve, chainVars
  <2>2. RangeIsSound'
    BY <1>1, <2>1 DEF RangeIsSound
  <2>. QED
    BY <1>1, <1>2, <2>1, <2>2
       DEF IInv, AllConfirmed, Confirmed, RangeCovered, NoEventLost
<1>5. ASSUME NEW down \in SUBSET Endpoints, GetLogs(down) PROVE IInv'
  <2>1. PICK e \in Endpoints : pending' = LogsIn(view[e], from + base, to + base)
    BY <1>5 DEF GetLogs
  <2>2. pc = "fetch" /\ pc' = "save"
        /\ UNCHANGED <<head, chain, cursor, jobs, early, from, to>>
    BY <1>5 DEF GetLogs, chainVars
  <2>3. to <= head - Confirmations /\ from \in Int /\ to \in Int /\ head \in Int
    BY <1>1, <2>2 DEF RangeIsSound, TypeOK
  <2>9. to >= 0 => from + base = from /\ to + base = to
    BY <1>1, <2>2, <2>3 DEF TypeOK
  <2>4. ASSUME NEW ev \in Event, from <= ev[1], ev[1] <= to
        PROVE  /\ ev[1] <= view[e].head
               /\ view[e].chain[ev[1]] = chain[ev[1]]
    BY <1>1, <2>3, <2>4, LogsAreCanonical
  <2>5. to >= 0 => \A ev \in pending' : Confirmed(ev)'
    <3>1. ASSUME to >= 0, NEW ev \in pending'
          PROVE  /\ chain[ev[1]] = ev[2] /\ ev[1] <= head - Confirmations
                 /\ ev[2] \in Registered
      <4>1. /\ ev \in Event /\ from <= ev[1] /\ ev[1] <= to
            /\ ev[2] = view[e].chain[ev[1]] /\ ev[2] \in Registered
        BY <2>1, <2>9, <3>1 DEF LogsIn
      <4>2. ev[1] \in Int
        BY <4>1 DEF Event, Blocks
      <4>. QED
        BY <2>3, <2>4, <4>1, <4>2
    <3>. QED
      BY <2>2, <3>1 DEF Confirmed
  <2>6. AllConfirmed'
    BY <1>1, <2>2, <2>5 DEF AllConfirmed, Confirmed
  <2>7. RangeCovered'
    BY <2>1, <2>2, <2>4, <2>9 DEF RangeCovered, LogsIn
  <2>8. RangeIsSound' /\ NoEventLost'
    BY <1>1, <2>2 DEF RangeIsSound, NoEventLost
  <2>. QED
    BY <1>2, <2>6, <2>7, <2>8 DEF IInv
<1>6. ASSUME NEW ev \in Event, SaveJob(ev) PROVE IInv'
  <2>1. /\ pc = "save" /\ ev \in pending /\ jobs' = jobs \union {ev}
        /\ pending' = pending \ {ev}
        /\ UNCHANGED <<head, chain, cursor, pc, from, to>>
    BY <1>6 DEF SaveJob, chainVars
  <2>4. early' = IF to < 0 THEN early \union ({ev} \ jobs) ELSE early \ {ev}
    BY <1>6 DEF SaveJob
  <2>5. to < 0 => jobs' \ early' \subseteq jobs \ early
    BY <2>1, <2>4
  <2>6. to >= 0 => jobs' \ early' \subseteq (jobs \ early) \union {ev}
    <3>1. CASE to < 0
      BY <1>1, <3>1 DEF TypeOK
    <3>2. CASE ~(to < 0)
      <4>1. early' = early \ {ev}
        BY <2>4, <3>2
      <4>. QED
        BY <2>1, <4>1
    <3>. QED
      BY <3>1, <3>2
  <2>7. to < 0 \/ to >= 0
    BY <1>1 DEF TypeOK
  <2>8. \A x \in jobs' \ early' : Confirmed(x)
    BY <1>1, <2>1, <2>5, <2>6, <2>7 DEF AllConfirmed
  <2>9. \A x : Confirmed(x) => Confirmed(x)'
    BY <2>1 DEF Confirmed
  <2>2. AllConfirmed'
    BY <1>1, <2>1, <2>8, <2>9 DEF AllConfirmed
  <2>3. RangeCovered' /\ RangeIsSound' /\ NoEventLost'
    BY <1>1, <2>1 DEF RangeCovered, RangeIsSound, NoEventLost
  <2>. QED
    BY <1>2, <2>2, <2>3 DEF IInv
<1>7. CASE SetCursor
  <2>1. /\ pc = "save" /\ pending = {} /\ cursor' = to /\ pc' = "timer"
        /\ UNCHANGED <<head, chain, jobs, early>>
    BY <1>7 DEF SetCursor, chainVars
  <2>2. AllConfirmed'
    BY <1>1, <2>1 DEF AllConfirmed, Confirmed, RangeIsSound
  <2>3. NoEventLost'
    <3> SUFFICES ASSUME NEW ev \in Event, StartFromBlock <= ev[1], ev[1] <= to,
                        ev[2] = chain[ev[1]], ev[2] \in Registered
                 PROVE  ev \in jobs
      BY <2>1 DEF NoEventLost
    <3>1. ev[1] \in Int /\ cursor \in Int /\ from \in Int /\ to \in Int
      BY <1>1 DEF TypeOK, Event, Blocks
    <3>2. CASE ev[1] <= cursor
      BY <1>1, <3>2 DEF NoEventLost
    <3>3. CASE cursor < ev[1]
      <4>1. from <= ev[1]
        BY <1>1, <2>1, <3>1, <3>3 DEF RangeIsSound, Larger
      <4>2. to >= 0
        BY <3>1 DEF Event, Blocks
      <4>. QED
        BY <1>1, <2>1, <4>1, <4>2 DEF RangeCovered
    <3>. QED
      BY <3>1, <3>2, <3>3
  <2>. QED
    BY <1>2, <2>1, <2>2, <2>3 DEF IInv, RangeIsSound, RangeCovered
<1>8. CASE Timer
  BY <1>3, <1>8 DEF Timer, chainVars
<1>9. CASE Restart
  BY <1>3, <1>9 DEF Restart, chainVars
<1>10. CASE Crash
  BY <1>3, <1>10 DEF Crash, chainVars
<1>11. CASE UNCHANGED vars
  BY <1>1, <1>2, <1>11
     DEF IInv, vars, AllConfirmed, Confirmed, RangeIsSound, RangeCovered, NoEventLost
<1>. QED
  BY <1>4, <1>5, <1>6, <1>7, <1>8, <1>9, <1>10, <1>11, <1>12 DEF Poller

LEMMA Invariance == Spec => []IInv
<1>1. IInv /\ TypeOK' /\ [Next]_vars => IInv'
  BY EnvironmentInv, PollerInv DEF Next
<1>. QED
  BY <1>1, InitInv, TypeCorrect, PTL DEF Spec

(* Once the cursor has passed a block, its registered canonical event has  *)
(* a job: setLatestIndexedBlock never skips an event, whatever endpoints   *)
(* answered and wherever the process exited.                               *)
THEOREM NothingLost == Spec => []NoEventLost
<1>1. IInv => NoEventLost
  BY DEF IInv
<1>. QED
  BY <1>1, Invariance, PTL

(* No job that a poll by block number makes is of a log that a             *)
(* reorganisation removes or replaces.                                     *)
THEOREM NothingOrphaned == Spec => []NoOrphanJob
<1>1. IInv => NoOrphanJob
  BY DEF IInv, AllConfirmed, Confirmed, NoOrphanJob
<1>. QED
  BY <1>1, Invariance, PTL

(* The range asked for ends under the confirmations, is a single block if  *)
(* it is negative, and starts no later than the first block not indexed.   *)
THEOREM RangesSound == Spec => []RangeIsSound
<1>1. IInv => RangeIsSound
  BY DEF IInv
<1>. QED
  BY <1>1, Invariance, PTL
(* A poll that re-reads a range below the cursor recreates only jobs that  *)
(* exist.                                                                  *)
THEOREM RereadIsIdempotent == Spec => RereadAddsNothing
<1>1. IInv /\ [Next]_vars =>
         [pc = "save" /\ to <= cursor /\ StartFromBlock <= from => jobs' = jobs]_vars
  <2> SUFFICES ASSUME IInv, Next, pc = "save", to <= cursor, StartFromBlock <= from
               PROVE  jobs' = jobs
    OBVIOUS
  <2>. USE PollAssumption
  <2>1. ASSUME NEW ev \in Event, SaveJob(ev) PROVE jobs' = jobs
    <3>1. ev \in pending /\ jobs' = jobs \union {ev}
      BY <2>1 DEF SaveJob
    <3>2. /\ from <= ev[1] /\ ev[1] <= to
          /\ ev[2] = chain[ev[1]] /\ ev[2] \in Registered
      <4>1. pc = "save" /\ to >= 0
        BY DEF IInv, RangeIsSound, TypeOK
      <4>. QED
        BY <3>1, <4>1 DEF IInv, RangeCovered, AllConfirmed, Confirmed
    <3>3. /\ ev[1] \in Int /\ from \in Int /\ to \in Int /\ cursor \in Int
      BY DEF IInv, TypeOK, Event, Blocks
    <3>4. StartFromBlock <= ev[1] /\ ev[1] <= cursor
      BY <3>2, <3>3
    <3>. QED
      BY <3>1, <3>2, <3>4 DEF IInv, NoEventLost
  <2>2. CASE Environment
    BY <2>2 DEF Environment, Mine, Reorg, Sync, pollVars
  <2>3. CASE Crash \/ SetCursor \/ Timer \/ Restart
    BY <2>3 DEF Crash, SetCursor, Timer, Restart
  <2>4. ASSUME NEW down \in SUBSET Endpoints,
               PollHead(down) \/ Resolve(down) \/ GetLogs(down)
        PROVE  jobs' = jobs
    BY <2>4 DEF PollHead, PlanRange, Resolve, GetLogs
  <2>. QED
    BY <2>1, <2>2, <2>3, <2>4 DEF Next, Poller
<1>. QED
  BY <1>1, Invariance, PTL DEF Spec, RereadAddsNothing

(* Poll implements Ingestion: saving a job is the delivery of a settled    *)
(* canonical event, mining and reorganising are the abstract ones, and     *)
(* every other step stutters.                                              *)
THEOREM PollImplementsIngestion == Spec => AbstractSpec
<1>1. Init => Abstract!Init
  BY DEF Init, Abstract!Init, Blocks, Abstract!Blocks, Unmined, Abstract!Unmined
<1>2. IInv /\ [Next]_vars => [Abstract!Next]_(Abstract!ingestionVars)
  <2> SUFFICES ASSUME IInv, [Next]_vars
               PROVE  Abstract!Next \/ UNCHANGED Abstract!ingestionVars
    OBVIOUS
  <2>. USE DEF Abstract!ingestionVars, pollVars, chainVars
  <2>1. ASSUME NEW c \in Contents, Mine(c) PROVE Abstract!Next
    BY <2>1 DEF Mine, Abstract!Next, Abstract!Mine
  <2>2. ASSUME NEW b \in Blocks, NEW c \in Contents, Reorg(b, c) PROVE Abstract!Next
    BY <2>2 DEF Reorg, Abstract!Next, Abstract!Rewrite, Blocks, Abstract!Blocks
  <2>3. ASSUME NEW e \in Endpoints, Sync(e) PROVE UNCHANGED Abstract!ingestionVars
    BY <2>3 DEF Sync
  <2>4. ASSUME NEW down \in SUBSET Endpoints,
               PollHead(down) \/ Resolve(down) \/ GetLogs(down)
        PROVE  UNCHANGED Abstract!ingestionVars
    BY <2>4 DEF PollHead, PlanRange, Resolve, GetLogs
  <2>5. ASSUME NEW ev \in Event, SaveJob(ev)
        PROVE  Abstract!Next \/ UNCHANGED Abstract!ingestionVars
    <3>1. /\ pc = "save" /\ ev \in pending /\ jobs' = jobs \union {ev}
          /\ early' = IF to < 0 THEN early \union ({ev} \ jobs) ELSE early \ {ev}
          /\ UNCHANGED <<head, chain>>
      BY <2>5 DEF SaveJob
    <3>2. CASE to < 0
      <4>1. early' = early \union ({ev} \ jobs)
        BY <3>1, <3>2
      <4>2. jobs' \ early' = jobs \ early
        BY <3>1, <4>1 DEF IInv, TypeOK
      <4>. QED
        BY <3>1, <4>2
    <3>3. CASE ~(to < 0)
      <4>1. early' = early \ {ev}
        BY <3>1, <3>3
      <4>2. jobs' \ early' = (jobs \ early) \union {ev}
        BY <3>1, <4>1
      <4>3. to >= 0
        BY <3>3 DEF IInv, TypeOK
      <4>4. Confirmed(ev)
        BY <3>1, <4>3 DEF IInv, AllConfirmed
      <4>5. Abstract!Deliver(ev)
        BY <3>1, <4>2, <4>4
           DEF Confirmed, Abstract!Deliver, Abstract!Canonical, Abstract!Settled
      <4>6. ev \in Abstract!Event
        BY DEF Event, Blocks, Abstract!Event, Abstract!Blocks
      <4>. QED
        BY <4>5, <4>6 DEF Abstract!Next
    <3>. QED
      BY <3>2, <3>3
  <2>6. CASE SetCursor \/ Timer \/ Crash \/ Restart \/ UNCHANGED vars
    BY <2>6 DEF SetCursor, Timer, Crash, Restart, vars
  <2>. QED
    BY <2>1, <2>2, <2>3, <2>4, <2>5, <2>6 DEF Next, Environment, Poller
<1>. QED
  BY <1>1, <1>2, Invariance, PTL DEF Spec, AbstractSpec, Abstract!Spec
============================================================================
