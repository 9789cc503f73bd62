---------------------------- MODULE ProjectProofs ----------------------------
(***************************************************************************)
(* Proofs about Project, for every set of owners, receiver lists and       *)
(* documents and any number of events.                                     *)
(***************************************************************************)
EXTENDS Project, Versions, SequenceTheorems, TLAPS

Labels == {"todo", "owned", "verified", "current", "done"}

----------------------------------------------------------------------------
(* The parts of the inductive invariant.                                   *)

(* A project that is not there is as a new one would be, and the document  *)
(* a row shows is one of the log.                                          *)
AbsentIsNew   == ~row.there => row = Absent
MetaIsInLog   == row.meta \in 0..Len(log)

(* While nothing raced, the copy is what the chain says, or an event that  *)
(* says the same is still to be handled.                                   *)
Pending(kind, value) ==
    \E i \in Positions : log[i].kind = kind /\ log[i].value = value /\ run[i] # "done"
OwnerFollows  == ~raced => row.owner = OwnerOf \/ Pending("OwnerUpdated", OwnerOf)
SplitsFollow  == ~raced => receivers = SplitsHash \/ Pending("SplitsSet", SplitsHash)

IInv == /\ TypeOK /\ AbsentIsNew /\ MetaIsInLog
        /\ StatusSound /\ ReceiversFromDocument /\ OwnerFollows /\ SplitsFollow
----------------------------------------------------------------------------
(* Lemmas about the log and the runs.                                      *)

(* The value of an event is of its kind.                                   *)
LEMMA EventTyped ==
    ASSUME TypeOK, NEW i \in Positions
    PROVE  /\ log[i] \in Event /\ i \in 1..MaxLog /\ i # 0
           /\ run[i] \in Labels
           /\ log[i].kind = "OwnerUpdated" => log[i].value \in Owners
           /\ log[i].kind = "SplitsSet" => log[i].value \in Splits \union {NoSplits}
           /\ log[i].kind = "Metadata" =>
                 log[i].value \in Document /\ log[i].value.splits \in Splits \union {NoSplits}
<1>1. log[i] \in Event /\ run[i] \in Labels
  BY ElementOfSeq DEF TypeOK, Positions, Labels
<1>2. i \in 1..MaxLog /\ i # 0
  BY ProjectAssumption, LenProperties DEF TypeOK, Positions
<1>. QED
  BY <1>1, <1>2, ProjectAssumption DEF Event, Document

(* A new event leaves those before it as they are, and is to be handled.   *)
LEMMA MineAppends ==
    ASSUME TypeOK, NEW ev \in Event, Mine(ev)
    PROVE  /\ Len(log)' = Len(log) + 1 /\ Len(log) \in Nat
           /\ Positions' = Positions \union {Len(log) + 1}
           /\ \A i \in Positions : log'[i] = log[i] /\ run'[i] = run[i]
           /\ log'[Len(log) + 1] = ev /\ run'[Len(log) + 1] = "todo"
           /\ log' \in Seq(Event) /\ Len(log') <= MaxLog
           /\ run' \in Seq(Labels) /\ Len(run)' = Len(log)'
<1>1. /\ Len(log)' = Len(log) + 1 /\ log' \in Seq(Event) /\ log'[Len(log) + 1] = ev
      /\ \A i \in 1..Len(log) : log'[i] = log[i]
  BY AppendProperties DEF TypeOK, Mine
<1>2. /\ Len(run)' = Len(log) + 1 /\ run' \in Seq(Labels) /\ run'[Len(log) + 1] = "todo"
      /\ \A i \in 1..Len(log) : run'[i] = run[i]
  BY AppendProperties DEF TypeOK, Mine, Labels
<1>3. Len(log) \in Nat
  BY LenProperties DEF TypeOK
<1>. QED
  BY <1>1, <1>2, <1>3, ProjectAssumption DEF Mine, Positions, TypeOK

(* A new event of a kind is the last of it, and of no other kind.          *)
LEMMA LastAppended ==
    ASSUME TypeOK, NEW ev \in Event, Mine(ev), NEW kind, NEW none
    PROVE  LastOf(kind, none)' = IF ev.kind = kind THEN ev.value ELSE LastOf(kind, none)
<1>. DEFINE at  == {i \in Positions : log[i].kind = kind}
            new == {i \in Positions' : log'[i].kind = kind}
<1>1. /\ Positions' = Positions \union {Len(log) + 1} /\ Len(log) \in Nat
      /\ \A i \in Positions : log'[i] = log[i] /\ i \in Int /\ i <= Len(log)
      /\ log'[Len(log) + 1] = ev
  BY MineAppends DEF Positions
<1>2. CASE ev.kind = kind
  <2>1. Len(log) + 1 \in new
    BY <1>1, <1>2
  <2>2. \A i \in new : i <= Len(log) + 1 /\ i \in Int
    BY <1>1
  <2>3. (CHOOSE i \in new : \A k \in new : k <= i) = Len(log) + 1
    BY <2>1, <2>2, <1>1
  <2>. QED
    BY <1>1, <1>2, <2>1, <2>3 DEF LastOf
<1>3. CASE ev.kind # kind
  <2>1. new = at
    BY <1>1, <1>3
  <2>2. LastOf(kind, none)' = IF new = {} THEN none
            ELSE log'[CHOOSE i \in new : \A k \in new : k <= i].value
    BY DEF LastOf
  <2>3. LastOf(kind, none) = IF at = {} THEN none
            ELSE log[CHOOSE i \in at : \A k \in at : k <= i].value
    BY DEF LastOf
  <2>. DEFINE last == CHOOSE i \in at : \A k \in at : k <= i
  <2>4. at # {} => last \in at
    BY <1>1, NewestExists DEF Positions
  <2>5. at # {} => log'[last] = log[last]
    BY <1>1, <2>4
  <2>6. LastOf(kind, none)' = IF at = {} THEN none ELSE log'[last].value
    BY <2>1, <2>2
  <2>7. LastOf(kind, none) = IF at = {} THEN none ELSE log[last].value
    BY <2>3
  <2>. HIDE DEF at, last
  <2>. QED
    BY <1>3, <2>5, <2>6, <2>7
<1>. QED
  BY <1>2, <1>3
LEMMA ChainTyped ==
    ASSUME TypeOK
    PROVE  OwnerOf \in Owners \union {Nobody} /\ SplitsHash \in Splits \union {NoSplits}
<1>1. ASSUME NEW kind, NEW none, NEW S, none \in S,
             \A i \in Positions : log[i].kind = kind => log[i].value \in S
      PROVE  LastOf(kind, none) \in S
  <2>. DEFINE at   == {i \in Positions : log[i].kind = kind}
              last == CHOOSE i \in at : \A k \in at : k <= i
  <2>1. at # {} => last \in at
    BY NewestExists, LenProperties DEF Positions, TypeOK
  <2>2. LastOf(kind, none) = IF at = {} THEN none ELSE log[last].value
    BY DEF LastOf
  <2>3. at # {} => log[last].value \in S
    BY <1>1, <2>1
  <2>. HIDE DEF at, last
  <2>. QED
    BY <1>1, <2>2, <2>3
<1>2. \A i \in Positions : log[i].kind = "OwnerUpdated" =>
                              log[i].value \in Owners \union {Nobody}
  BY EventTyped
<1>3. OwnerOf \in Owners \union {Nobody}
  BY <1>1, <1>2 DEF OwnerOf
<1>4. SplitsHash \in Splits \union {NoSplits}
  BY <1>1, EventTyped DEF SplitsHash
<1>. QED
  BY <1>3, <1>4

(* What the handler of event i does to the runs.                           *)
LEMMA GotoRun ==
    ASSUME TypeOK, NEW i \in Positions, NEW label \in Labels, Goto(i, label)
    PROVE  /\ run' \in Seq(Labels) /\ Len(run') = Len(log)
           /\ \A k \in Positions : run'[k] = IF k = i THEN label ELSE run[k]
  BY ExceptSeq DEF TypeOK, Positions, Goto, Labels

----------------------------------------------------------------------------
(* Type correctness.                                                       *)

(* An event has a version, and its position is one.                        *)
LEMMA RowFields ==
    ASSUME TypeOK, NEW i \in Positions
    PROVE  /\ row \in Row /\ Absent \in Row /\ i \in 0..MaxLog
           /\ "pending_metadata" \in Statuses /\ TRUE \in BOOLEAN
           /\ log[i].kind = "OwnerUpdated" => log[i].value \in Owners \union {Nobody}
           /\ log[i].kind = "Metadata" => log[i].value.visible \in BOOLEAN
<1>1. i \in 1..MaxLog
  BY EventTyped
<1>2. i \in 0..MaxLog
  BY <1>1, ProjectAssumption
<1>3. Absent \in Row
  BY ProjectAssumption DEF Absent, Row, Statuses
<1>4. row \in Row
  BY DEF TypeOK
<1>. QED
  BY <1>2, <1>3, <1>4, EventTyped DEF Statuses, Document

LEMMA TypeInv == TypeOK /\ [Next]_vars => TypeOK'
<1> SUFFICES ASSUME TypeOK, [Next]_vars PROVE TypeOK'
  OBVIOUS
<1>1. ASSUME NEW ev \in Event, Mine(ev) PROVE TypeOK'
  BY <1>1, MineAppends DEF TypeOK, Mine, Labels
<1>2. ASSUME NEW i \in Positions, NEW label \in Labels, Goto(i, label),
             log' = log, row' \in Row, receivers' \in Splits \union {NoSplits},
             raced' \in BOOLEAN
      PROVE  TypeOK'
  BY <1>2, GotoRun DEF TypeOK, Labels
<1>4. ASSUME NEW i \in Positions, ReadOwner(i) \/ CheckDocument(i) \/ CheckSplits(i)
                 \/ RejectSources(i) \/ RetryDocument(i) \/ RetrySplits(i) \/ Abort(i)
      PROVE  TypeOK'
  <2>1. \E label \in Labels : Goto(i, label)
    BY <1>4 DEF ReadOwner, CheckDocument, CheckSplits, RejectSources, RetryDocument,
                RetrySplits, Abort, Labels
  <2>2. UNCHANGED <<log, row, receivers, raced>>
    BY <1>4 DEF ReadOwner, CheckDocument, CheckSplits, RejectSources, RetryDocument,
                RetrySplits, Abort
  <2>. QED
    BY <1>2, <2>1, <2>2 DEF TypeOK
<1>5. ASSUME NEW i \in Positions, Named(i) PROVE TypeOK'
  <2>1. row' \in Row
    <3>1. [Absent EXCEPT !.there = TRUE, !.version = i] \in Row
      BY RowFields DEF Row
    <3>. QED
      BY <1>5, <3>1, RowFields DEF Named
  <2>. QED
    BY <1>2, <1>5, <2>1 DEF Named, TypeOK, Labels
<1>6. ASSUME NEW i \in Positions, CreateProject(i) PROVE TypeOK'
  <2>1. log[i].value \in Owners \union {Nobody}
    BY <1>6, RowFields DEF CreateProject, Is
  <2>2. row' \in Row
    <3>1. [Absent EXCEPT !.there = TRUE, !.owner = log[i].value,
                         !.status = "pending_metadata", !.version = i] \in Row
      BY <2>1, RowFields DEF Row
    <3>. QED
      BY <1>6, <3>1 DEF CreateProject
  <2>3. raced' \in BOOLEAN
    BY <1>6 DEF CreateProject, TypeOK
  <2>. QED
    BY <1>2, <1>6, <2>2, <2>3 DEF CreateProject, TypeOK, Labels
<1>7. ASSUME NEW i \in Positions, UpdateOwner(i) PROVE TypeOK'
  <2>1. log[i].value \in Owners \union {Nobody} /\ log[i].value # Nobody
    BY <1>7, EventTyped, ProjectAssumption DEF UpdateOwner, Is
  <2>2. CalculateProjectStatus(log[i].value, row.meta) \in Statuses
    BY <2>1 DEF CalculateProjectStatus, Statuses
  <2>3. row' \in Row
    <3>1. ASSUME NEW status \in Statuses
          PROVE  [row EXCEPT !.owner = log[i].value, !.status = status, !.version = i] \in Row
      BY <2>1, RowFields DEF Row
    <3>2. row.status \in Statuses
      BY RowFields DEF Row
    <3>. QED
      BY <1>7, <2>2, <3>1, <3>2 DEF UpdateOwner
  <2>4. raced' \in BOOLEAN
    BY <1>7 DEF UpdateOwner, TypeOK
  <2>. QED
    BY <1>2, <1>7, <2>3, <2>4 DEF UpdateOwner, TypeOK, Labels
<1>8. ASSUME NEW i \in Positions, UpdateProject(i) PROVE TypeOK'
  <2>1. /\ log[i].value \in Document /\ log[i].value.splits \in Splits \union {NoSplits}
        /\ i \in 1..MaxLog /\ i # 0
    BY <1>8, EventTyped DEF UpdateProject, Is
  <2>2. CalculateProjectStatus(row.owner, i) \in Statuses
    BY <1>8, <2>1 DEF UpdateProject, HasStatus, CalculateProjectStatus, Statuses
  <2>3. row' \in Row
    <3>1. i \in 0..MaxLog /\ log[i].value.visible \in BOOLEAN
      BY <1>8, RowFields DEF UpdateProject, Is
    <3>2. [row EXCEPT !.meta = i, !.version = i, !.visible = log[i].value.visible,
                      !.status = CalculateProjectStatus(row.owner, i)] \in Row
      BY <2>2, <3>1, RowFields DEF Row
    <3>. QED
      BY <1>8, <3>2 DEF UpdateProject
  <2>4. raced' \in BOOLEAN
    BY <1>8 DEF UpdateProject, TypeOK
  <2>. QED
    BY <1>2, <1>8, <2>1, <2>3, <2>4 DEF UpdateProject, Labels
<1>9. ASSUME NEW i \in Positions, SetIsValidFlag(i) PROVE TypeOK'
  <2>1. row' \in Row /\ raced' \in BOOLEAN
    BY <1>9 DEF SetIsValidFlag, Row, TypeOK
  <2>. QED
    BY <1>2, <1>9, <2>1 DEF SetIsValidFlag, TypeOK, Labels
<1>10. CASE UNCHANGED vars
  BY <1>10 DEF vars, TypeOK
<1>. QED
  BY <1>1, <1>4, <1>5, <1>6, <1>7, <1>8, <1>9, <1>10 DEF Next, Handle, Finish

LEMMA InitInv == Init => IInv
<1> SUFFICES ASSUME Init PROVE IInv
  OBVIOUS
<1>1. Positions = {} /\ Len(log) = 0
  BY EmptySeq DEF Init, Positions
<1>2. TypeOK
  <2>1. row \in Row
    BY ProjectAssumption DEF Init, Absent, Row, Statuses
  <2>2. << >> \in Seq(Event) /\ << >> \in Seq(Labels) /\ Len(<< >>) = 0
    BY EmptySeq
  <2>3. 0 <= MaxLog
    BY ProjectAssumption
  <2>. QED
    BY <1>1, <2>1, <2>2, <2>3 DEF Init, TypeOK, Labels
<1>3. OwnerOf = Nobody /\ SplitsHash = NoSplits
  BY <1>1 DEF OwnerOf, SplitsHash, LastOf
<1>. QED
  BY <1>1, <1>2, <1>3 DEF Init, IInv, AbsentIsNew, MetaIsInLog, StatusSound,
     ReceiversFromDocument, OwnerFollows, SplitsFollow, Absent

(* Type correctness: in particular the status of a written row is always   *)
(* one of the three, that is, calculateProjectStatus never meets the case  *)
(* it has no answer for.                                                   *)
THEOREM TypeCorrect == Spec => []TypeOK
<1>1. Init => TypeOK
  BY InitInv DEF IInv
<1>. QED
  BY <1>1, TypeInv, PTL DEF Spec
----------------------------------------------------------------------------
(* The inductive invariant.                                                *)

(* What is pending stays so until its own run is done.                     *)
LEMMA StillPending ==
    ASSUME TypeOK, NEW i \in Positions, NEW label \in Labels, Goto(i, label), log' = log,
           NEW kind, NEW value, Pending(kind, value),
           label = "done" => log[i].kind # kind \/ log[i].value # value
    PROVE  Pending(kind, value)'
<1>1. PICK k \in Positions : log[k].kind = kind /\ log[k].value = value /\ run[k] # "done"
  BY DEF Pending
<1>2. run'[k] # "done" /\ Positions' = Positions
  BY <1>1, GotoRun DEF Positions
<1>. QED
  BY <1>1, <1>2 DEF Pending

LEMMA MineInv == ASSUME IInv, NEW ev \in Event, Mine(ev) PROVE IInv'
<1>. USE DEF IInv
<1>1. TypeOK'
  BY TypeInv DEF Next
<1>2. UNCHANGED <<row, receivers, raced>>
  BY DEF Mine
<1>3. Len(log)' = Len(log) + 1 /\ Len(log) \in Nat
      /\ \A i \in Positions : log'[i] = log[i]
  BY MineAppends
<1>4. AbsentIsNew' /\ MetaIsInLog' /\ StatusSound'
  BY <1>2, <1>3 DEF AbsentIsNew, MetaIsInLog, StatusSound
<1>5. ReceiversFromDocument'
  BY <1>2, <1>3 DEF ReceiversFromDocument, MetaIsInLog, Positions
<1>6. ASSUME NEW kind, NEW value, Pending(kind, value) PROVE Pending(kind, value)'
  BY <1>6, MineAppends DEF Pending
<1>7. Pending(ev.kind, ev.value)'
  BY MineAppends DEF Pending
<1>8. OwnerFollows'
  BY <1>2, <1>6, <1>7, LastAppended DEF OwnerFollows, OwnerOf
<1>9. SplitsFollow'
  BY <1>2, <1>6, <1>7, LastAppended DEF SplitsFollow, SplitsHash
<1>. QED
  BY <1>1, <1>4, <1>5, <1>8, <1>9

(* Steps that only move a run, and do not end it while it is up to date.   *)
LEMMA MoveInv ==
    ASSUME IInv, TypeOK', NEW i \in Positions, NEW label \in Labels, Goto(i, label),
           UNCHANGED <<log, row, receivers, raced>>,
           label = "done" =>
              /\ log[i].kind = "OwnerUpdated" => log[i].value # OwnerOf
              /\ log[i].kind = "SplitsSet" => log[i].value # SplitsHash
    PROVE  IInv'
<1>. USE DEF IInv
<1>1. OwnerOf' = OwnerOf /\ SplitsHash' = SplitsHash
  BY DEF OwnerOf, SplitsHash, LastOf, Positions
<1>2. AbsentIsNew' /\ MetaIsInLog' /\ StatusSound' /\ ReceiversFromDocument'
  BY DEF AbsentIsNew, MetaIsInLog, StatusSound, ReceiversFromDocument
<1>3. OwnerFollows' /\ SplitsFollow'
  BY <1>1, StillPending DEF OwnerFollows, SplitsFollow
<1>. QED
  BY <1>2, <1>3

(* OwnerUpdated and Named write the row, and leave the receivers.          *)
LEMMA OwnerInv ==
    ASSUME IInv, TypeOK', NEW i \in Positions,
           CreateProject(i) \/ UpdateOwner(i) \/ Named(i)
    PROVE  IInv'
<1>. USE DEF IInv
<1>1. log' = log /\ receivers' = receivers /\ Goto(i, "done")
  BY DEF CreateProject, UpdateOwner, Named
<1>2. OwnerOf' = OwnerOf /\ SplitsHash' = SplitsHash
  BY <1>1 DEF OwnerOf, SplitsHash, LastOf, Positions
<1>3. row.there \in BOOLEAN /\ row.meta \in 0..MaxLog /\ row \in Row
  BY DEF TypeOK, Row
<1>4. row'.there /\ row'.meta = row.meta
  BY <1>3 DEF CreateProject, UpdateOwner, Named, AbsentIsNew, Absent, Row
<1>5. AbsentIsNew' /\ MetaIsInLog' /\ ReceiversFromDocument'
  BY <1>1, <1>4 DEF AbsentIsNew, MetaIsInLog, ReceiversFromDocument
<1>6. CASE CreateProject(i) \/ UpdateOwner(i)
  <2>1. log[i].kind = "OwnerUpdated" /\ log[i].value \in Owners /\ log[i].value # Nobody
    BY <1>6, EventTyped, ProjectAssumption DEF CreateProject, UpdateOwner, Is
  <2>2. row'.owner = log[i].value /\ raced' = (raced \/ log[i].value # OwnerOf)
    BY <1>3, <1>6 DEF CreateProject, UpdateOwner, Absent, Row
  <2>3. StatusSound'
    <3>1. CASE CreateProject(i)
      BY <2>1, <2>2, <3>1, <1>4 DEF CreateProject, Absent, AbsentIsNew, StatusSound
    <3>2. CASE UpdateOwner(i)
      <4>1. row'.status \in {row.status, CalculateProjectStatus(log[i].value, row.meta)}
        BY <1>3, <3>2 DEF UpdateOwner, Row
      <4>2. CASE row'.status = row.status
        BY <1>4, <2>1, <2>2, <4>2 DEF StatusSound
      <4>3. CASE row'.status = CalculateProjectStatus(log[i].value, row.meta)
        BY <1>4, <2>1, <2>2, <4>3 DEF StatusSound, CalculateProjectStatus
      <4>. QED
        BY <4>1, <4>2, <4>3
    <3>. QED
      BY <1>6, <3>1, <3>2
  <2>4. OwnerFollows'
    BY <1>2, <2>2 DEF OwnerFollows
  <2>5. SplitsFollow'
    BY <1>1, <1>2, <2>1, <2>2, StillPending DEF SplitsFollow, Labels
  <2>. QED
    BY <1>5, <2>3, <2>4, <2>5
<1>7. CASE Named(i)
  <2>1. row'.owner = row.owner /\ row'.status = row.status /\ raced' = raced
    BY <1>7 DEF Named, Absent, AbsentIsNew
  <2>2. StatusSound'
    BY <1>4, <2>1 DEF StatusSound
  <2>3. log[i].kind = "Named"
    BY <1>7 DEF Named, Is
  <2>4. OwnerFollows' /\ SplitsFollow'
    BY <1>1, <1>2, <2>1, <2>3, StillPending DEF OwnerFollows, SplitsFollow, Labels
  <2>. QED
    BY <1>5, <2>2, <2>4
<1>. QED
  BY <1>6, <1>7

LEMMA UpdateProjectInv ==
    ASSUME IInv, TypeOK', NEW i \in Positions, UpdateProject(i) PROVE IInv'
<1>. USE DEF IInv
<1>1. log' = log /\ Goto(i, "done") /\ receivers' = log[i].value.splits
      /\ raced' = (raced \/ log[i].value.splits # SplitsHash)
      /\ log[i].kind = "Metadata"
  BY DEF UpdateProject, Is
<1>2. OwnerOf' = OwnerOf /\ SplitsHash' = SplitsHash
  BY <1>1 DEF OwnerOf, SplitsHash, LastOf, Positions
<1>3. row \in Row /\ i \in Int /\ i # 0 /\ i \in 1..Len(log)
  BY EventTyped, LenProperties DEF TypeOK, Positions
<1>4. /\ row'.meta = i /\ row'.owner = row.owner /\ row'.there = row.there
      /\ row'.status = CalculateProjectStatus(row.owner, i)
      /\ row.there /\ row.owner # Nobody
  BY <1>3 DEF UpdateProject, Row, HasStatus
<1>5. AbsentIsNew' /\ MetaIsInLog'
  BY <1>1, <1>3, <1>4, LenProperties DEF AbsentIsNew, MetaIsInLog, TypeOK
<1>6. StatusSound'
  BY <1>3, <1>4 DEF StatusSound, CalculateProjectStatus
<1>7. ReceiversFromDocument'
  BY <1>1, <1>3, <1>4 DEF ReceiversFromDocument
<1>8. OwnerFollows'
  BY <1>1, <1>2, <1>4, StillPending DEF OwnerFollows, Labels
<1>9. SplitsFollow'
  BY <1>1, <1>2 DEF SplitsFollow
<1>. QED
  BY <1>5, <1>6, <1>7, <1>8, <1>9

LEMMA SetIsValidFlagInv ==
    ASSUME IInv, TypeOK', NEW i \in Positions, SetIsValidFlag(i) PROVE IInv'
<1>. USE DEF IInv
<1>1. log' = log /\ Goto(i, "done") /\ receivers' = receivers
      /\ raced' = (raced \/ log[i].value # SplitsHash)
      /\ log[i].kind = "SplitsSet" /\ receivers = log[i].value
      /\ row' = [row EXCEPT !.valid = TRUE] /\ row.there
  BY DEF SetIsValidFlag, Is
<1>2. OwnerOf' = OwnerOf /\ SplitsHash' = SplitsHash
  BY <1>1 DEF OwnerOf, SplitsHash, LastOf, Positions
<1>3. row'.meta = row.meta /\ row'.owner = row.owner /\ row'.status = row.status
      /\ row'.there = row.there
  BY <1>1 DEF TypeOK, Row
<1>4. AbsentIsNew' /\ MetaIsInLog' /\ StatusSound' /\ ReceiversFromDocument'
  BY <1>1, <1>3 DEF AbsentIsNew, MetaIsInLog, StatusSound, ReceiversFromDocument
<1>5. OwnerFollows'
  BY <1>1, <1>2, <1>3, StillPending DEF OwnerFollows, Labels
<1>6. SplitsFollow'
  BY <1>1, <1>2 DEF SplitsFollow
<1>. QED
  BY <1>4, <1>5, <1>6

LEMMA Invariance == Spec => []IInv
<1>1. IInv /\ [Next]_vars => IInv'
  <2> SUFFICES ASSUME IInv, [Next]_vars PROVE IInv'
    OBVIOUS
  <2>0. TypeOK'
    BY TypeInv DEF IInv
  <2>1. ASSUME NEW i \in Positions, ReadOwner(i) PROVE IInv'
    BY <2>0, <2>1, MoveInv DEF ReadOwner, Is, Labels
  <2>2. ASSUME NEW i \in Positions, CheckDocument(i) PROVE IInv'
    BY <2>0, <2>2, MoveInv DEF CheckDocument, Is, Labels
  <2>3. ASSUME NEW i \in Positions, CheckSplits(i) PROVE IInv'
    BY <2>0, <2>3, MoveInv DEF CheckSplits, Is, Labels
  <2>4. ASSUME NEW i \in Positions,
               RejectSources(i) \/ RetryDocument(i) \/ RetrySplits(i) \/ Abort(i)
        PROVE  IInv'
    <3>1. UNCHANGED <<log, row, receivers, raced>>
      BY <2>4 DEF RejectSources, RetryDocument, RetrySplits, Abort
    <3>2. Goto(i, "todo") \/ (Goto(i, "done") /\ log[i].kind = "Metadata")
      BY <2>4 DEF RejectSources, RetryDocument, RetrySplits, Abort, Is
    <3>. QED
      BY <2>0, <3>1, <3>2, MoveInv DEF Labels
  <2>5. CASE UNCHANGED vars
    <3>1. OwnerOf' = OwnerOf /\ SplitsHash' = SplitsHash
      BY <2>5 DEF vars, OwnerOf, SplitsHash, LastOf, Positions
    <3>2. \A kind, value : Pending(kind, value) => Pending(kind, value)'
      BY <2>5 DEF vars, Pending, Positions
    <3>. QED
      BY <2>0, <2>5, <3>1, <3>2 DEF vars, IInv, AbsentIsNew, MetaIsInLog, StatusSound,
         ReceiversFromDocument, OwnerFollows, SplitsFollow
  <2>. QED
    BY <2>0, <2>1, <2>2, <2>3, <2>4, <2>5, MineInv, OwnerInv, UpdateProjectInv,
       SetIsValidFlagInv DEF Next, Handle, Finish
<1>. QED
  BY <1>1, InitInv, PTL DEF Spec
----------------------------------------------------------------------------
(* What the invariant gives.                                               *)

(* For every order of handling, the claimed projects are those with a      *)
(* document and an owner, and only an owned one waits for its document.    *)
THEOREM StatusAlwaysSound == Spec => []StatusSound
BY Invariance, PTL DEF IInv

(* The receivers are those of the document the row shows, and there are    *)
(* none without a document.                                                *)
THEOREM ReceiversAreListed == Spec => []ReceiversFromDocument
BY Invariance, PTL DEF IInv

(* Once all events are handled, owner and receivers are those on chain     *)
(* unless some run wrote what it had read before the chain moved on, for   *)
(* any number of events, runs cut short and retries.                       *)
THEOREM Convergence == Spec => []ConvergesWithoutRaces
<1>1. IInv => ConvergesWithoutRaces
  <2> SUFFICES ASSUME IInv, AllHandled, ~raced
               PROVE  row.owner = OwnerOf /\ receivers = SplitsHash
    BY DEF ConvergesWithoutRaces
  <2>. QED
    BY DEF IInv, OwnerFollows, SplitsFollow, Pending, AllHandled
<1>. QED
  BY <1>1, Invariance, PTL

----------------------------------------------------------------------------
(* The refinement.  What a run holds is the value of its event, from the   *)
(* moment it found it on the chain until it writes it or starts again.     *)

LEMMA HeldByMine ==
    ASSUME TypeOK, NEW ev \in Event, Mine(ev)
    PROVE  HeldOwner' = HeldOwner /\ HeldSplits' = HeldSplits
  BY MineAppends DEF HeldOwner, HeldSplits

LEMMA HeldByGoto ==
    ASSUME TypeOK, NEW i \in Positions, NEW label \in Labels, Goto(i, label), log' = log
    PROVE  /\ i \in 1..MaxLog
           /\ HeldOwner' = [HeldOwner EXCEPT ![i] =
                 IF label = "owned" THEN {log[i].value} ELSE {}]
           /\ HeldSplits' = [HeldSplits EXCEPT ![i] =
                 IF label = "verified" THEN {log[i].value.splits} ELSE {}]
<1>1. i \in 1..MaxLog /\ Positions' = Positions
  BY EventTyped DEF Positions
<1>2. ASSUME NEW k \in Positions
      PROVE  run'[k] = IF k = i THEN label ELSE run[k]
  BY GotoRun
<1>3. HeldOwner' = [HeldOwner EXCEPT ![i] = IF label = "owned" THEN {log[i].value} ELSE {}]
  BY <1>1, <1>2 DEF HeldOwner
<1>4. HeldSplits' = [HeldSplits EXCEPT ![i] =
                        IF label = "verified" THEN {log[i].value.splits} ELSE {}]
  BY <1>1, <1>2 DEF HeldSplits
<1>. QED
  BY <1>1, <1>3, <1>4

LEMMA OwnerRefined == Spec => OwnerCopy!Spec
<1>1. Init => OwnerCopy!Init
  <2> SUFFICES ASSUME Init PROVE OwnerCopy!Init
    OBVIOUS
  <2>1. Positions = {}
    BY EmptySeq DEF Init, Positions
  <2>2. OwnerOf = Nobody
    BY <2>1 DEF OwnerOf, LastOf
  <2>. QED
    BY <2>1, <2>2 DEF OwnerCopy!Init, HeldOwner, Init, Absent
<1>2. IInv /\ [Next]_vars => [OwnerCopy!Next]_(OwnerCopy!mirrorVars)
  <2> SUFFICES ASSUME IInv, [Next]_vars PROVE [OwnerCopy!Next]_(OwnerCopy!mirrorVars)
    OBVIOUS
  <2>. USE DEF IInv, OwnerCopy!mirrorVars
  <2>1. ASSUME NEW ev \in Event, Mine(ev)
        PROVE  OwnerCopy!Next
    <3>1. OwnerOf' = IF ev.kind = "OwnerUpdated" THEN ev.value ELSE OwnerOf
      BY <2>1, LastAppended DEF OwnerOf
    <3>2. OwnerOf' \in Owners \union {Nobody}
      BY <3>1, ChainTyped DEF Event
    <3>3. row' = row /\ HeldOwner' = HeldOwner
      BY <2>1, HeldByMine DEF Mine
    <3>. QED
      BY <3>2, <3>3 DEF OwnerCopy!Next, OwnerCopy!Publish
  <2>2. ASSUME log' = log PROVE OwnerOf' = OwnerOf
    BY <2>2 DEF OwnerOf, LastOf, Positions
  <2>3. ASSUME NEW i \in Positions, NEW label \in Labels \ {"owned"}, Goto(i, label),
               log' = log, row'.owner = row.owner
        PROVE  OwnerCopy!Next
    BY <2>2, <2>3, HeldByGoto DEF OwnerCopy!Next, OwnerCopy!Forget
  <2>4. ASSUME NEW i \in Positions, ReadOwner(i) PROVE OwnerCopy!Next
    <3>1. CASE Goto(i, "owned") /\ log[i].value = OwnerOf
      <4>1. i \in 1..MaxLog /\ HeldOwner' = [HeldOwner EXCEPT ![i] = {OwnerOf}]
        BY <2>4, <3>1, HeldByGoto DEF ReadOwner, Labels
      <4>. QED
        BY <2>2, <2>4, <4>1 DEF ReadOwner, OwnerCopy!Next, OwnerCopy!Look
    <3>2. CASE Goto(i, "done")
      BY <2>3, <2>4, <3>2 DEF ReadOwner, Labels
    <3>. QED
      BY <2>4, <3>1, <3>2 DEF ReadOwner
  <2>5. ASSUME NEW i \in Positions, CreateProject(i) \/ UpdateOwner(i)
        PROVE  OwnerCopy!Next
    <3>1. Goto(i, "done") /\ log' = log /\ run[i] = "owned"
      BY <2>5 DEF CreateProject, UpdateOwner, Is
    <3>2. row'.owner = log[i].value
      BY <2>5 DEF CreateProject, UpdateOwner, Absent, TypeOK, Row
    <3>3. i \in 1..MaxLog /\ HeldOwner' = [HeldOwner EXCEPT ![i] = {}]
      BY <3>1, HeldByGoto DEF Labels
    <3>4. HeldOwner[i] = {log[i].value}
      BY <3>1, <3>3 DEF HeldOwner
    <3>. QED
      BY <2>2, <3>1, <3>2, <3>3, <3>4 DEF OwnerCopy!Next, OwnerCopy!Write
  <2>6. ASSUME NEW i \in Positions,
               \/ CheckDocument(i) \/ CheckSplits(i) \/ Named(i) \/ UpdateProject(i)
               \/ RejectSources(i) \/ SetIsValidFlag(i) \/ RetryDocument(i)
               \/ RetrySplits(i) \/ Abort(i)
        PROVE  OwnerCopy!Next
    <3>1. \E label \in Labels \ {"owned"} : Goto(i, label)
      BY <2>6 DEF CheckDocument, CheckSplits, Named, UpdateProject, RejectSources,
         SetIsValidFlag, RetryDocument, RetrySplits, Abort, Labels
    <3>2. log' = log
      BY <2>6 DEF CheckDocument, CheckSplits, Named, UpdateProject, RejectSources,
         SetIsValidFlag, RetryDocument, RetrySplits, Abort
    <3>3. row'.owner = row.owner
      BY <2>6 DEF CheckDocument, CheckSplits, Named, UpdateProject, RejectSources,
         SetIsValidFlag, RetryDocument, RetrySplits, Abort, TypeOK, Row, AbsentIsNew, Absent
    <3>. QED
      BY <2>3, <3>1, <3>2, <3>3
  <2>7. CASE UNCHANGED vars
    BY <2>2, <2>7 DEF vars, HeldOwner, Positions
  <2>. QED
    BY <2>1, <2>4, <2>5, <2>6, <2>7 DEF Next, Handle, Finish
<1>. QED
  BY <1>1, <1>2, Invariance, PTL DEF Spec, OwnerCopy!Spec

LEMMA SplitsRefined == Spec => SplitsCopy!Spec
<1>1. Init => SplitsCopy!Init
  <2> SUFFICES ASSUME Init PROVE SplitsCopy!Init
    OBVIOUS
  <2>1. Positions = {}
    BY EmptySeq DEF Init, Positions
  <2>2. SplitsHash = NoSplits
    BY <2>1 DEF SplitsHash, LastOf
  <2>. QED
    BY <2>1, <2>2 DEF SplitsCopy!Init, HeldSplits, Init
<1>2. IInv /\ [Next]_vars => [SplitsCopy!Next]_(SplitsCopy!mirrorVars)
  <2> SUFFICES ASSUME IInv, [Next]_vars PROVE [SplitsCopy!Next]_(SplitsCopy!mirrorVars)
    OBVIOUS
  <2>. USE DEF IInv, SplitsCopy!mirrorVars
  <2>1. ASSUME NEW ev \in Event, Mine(ev)
        PROVE  SplitsCopy!Next
    <3>1. SplitsHash' = IF ev.kind = "SplitsSet" THEN ev.value ELSE SplitsHash
      BY <2>1, LastAppended DEF SplitsHash
    <3>2. SplitsHash' \in Splits \union {NoSplits}
      BY <3>1, ChainTyped DEF Event
    <3>3. receivers' = receivers /\ HeldSplits' = HeldSplits
      BY <2>1, HeldByMine DEF Mine
    <3>. QED
      BY <3>2, <3>3 DEF SplitsCopy!Next, SplitsCopy!Publish
  <2>2. ASSUME log' = log PROVE SplitsHash' = SplitsHash
    BY <2>2 DEF SplitsHash, LastOf, Positions
  <2>3. ASSUME NEW i \in Positions, NEW label \in Labels \ {"verified"}, Goto(i, label),
               log' = log, receivers' = receivers
        PROVE  SplitsCopy!Next
    BY <2>2, <2>3, HeldByGoto DEF SplitsCopy!Next, SplitsCopy!Forget
  <2>4. ASSUME NEW i \in Positions, CheckDocument(i) PROVE SplitsCopy!Next
    <3>1. CASE Goto(i, "verified") /\ log[i].value.splits = SplitsHash
      <4>1. i \in 1..MaxLog /\ HeldSplits' = [HeldSplits EXCEPT ![i] = {SplitsHash}]
        BY <2>4, <3>1, HeldByGoto DEF CheckDocument, Labels
      <4>. QED
        BY <2>2, <2>4, <4>1 DEF CheckDocument, SplitsCopy!Next, SplitsCopy!Look
    <3>2. CASE Goto(i, "done")
      BY <2>3, <2>4, <3>2 DEF CheckDocument, Labels
    <3>. QED
      BY <2>4, <3>1, <3>2 DEF CheckDocument
  <2>5. ASSUME NEW i \in Positions, UpdateProject(i) PROVE SplitsCopy!Next
    <3>1. Goto(i, "done") /\ log' = log /\ run[i] = "verified"
          /\ receivers' = log[i].value.splits
      BY <2>5 DEF UpdateProject, Is
    <3>2. i \in 1..MaxLog /\ HeldSplits' = [HeldSplits EXCEPT ![i] = {}]
      BY <3>1, HeldByGoto DEF Labels
    <3>3. HeldSplits[i] = {log[i].value.splits}
      BY <3>1, <3>2 DEF HeldSplits
    <3>. QED
      BY <2>2, <3>1, <3>2, <3>3 DEF SplitsCopy!Next, SplitsCopy!Write
  <2>6. ASSUME NEW i \in Positions,
               \/ ReadOwner(i) \/ CreateProject(i) \/ UpdateOwner(i) \/ CheckSplits(i)
               \/ Named(i) \/ RejectSources(i) \/ SetIsValidFlag(i) \/ RetryDocument(i)
               \/ RetrySplits(i) \/ Abort(i)
        PROVE  SplitsCopy!Next
    <3>1. \E label \in Labels \ {"verified"} : Goto(i, label)
      BY <2>6 DEF ReadOwner, CreateProject, UpdateOwner, CheckSplits, Named, RejectSources,
         SetIsValidFlag, RetryDocument, RetrySplits, Abort, Labels
    <3>2. log' = log /\ receivers' = receivers
      BY <2>6 DEF ReadOwner, CreateProject, UpdateOwner, CheckSplits, Named, RejectSources,
         SetIsValidFlag, RetryDocument, RetrySplits, Abort
    <3>. QED
      BY <2>3, <3>1, <3>2
  <2>7. CASE UNCHANGED vars
    BY <2>2, <2>7 DEF vars, HeldSplits, Positions
  <2>. QED
    BY <2>1, <2>4, <2>5, <2>6, <2>7 DEF Next, Handle, Finish
<1>. QED
  BY <1>1, <1>2, Invariance, PTL DEF Spec, SplitsCopy!Spec

(* Owner and receivers implement Mirror: whatever events and documents     *)
(* claim, and however runs overlap and start again, a copy only becomes    *)
(* what some run has seen on the chain since it last started.              *)
THEOREM ProjectImplementsMirror == Spec => Mirrored
BY OwnerRefined, SplitsRefined DEF Mirrored
==============================================================================
