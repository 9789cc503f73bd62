------------------------ MODULE LinkedIdentityProofs ------------------------
(***************************************************************************)
(* Proofs about LinkedIdentity, for every set of owners and any number of  *)
(* events, RPC errors and runs cut short.                                  *)
(***************************************************************************)
EXTENDS LinkedIdentity, Versions, SequenceTheorems, TLAPS

Positions == 1..Len(log)

----------------------------------------------------------------------------
(* The parts of the inductive invariant.                                   *)

(* A run is at a step of its own handler.                                  *)
LabelsFit ==
    \A i \in Positions :
        /\ run[i] \in {"owned", "validated", "update"} => log[i].kind = "OwnerUpdated"
        /\ run[i] \in {"current", "splits"} => log[i].kind = "SplitsSet"

(* The row lock is held by the one run that is in its transaction, and     *)
(* only on a row that is there.                                            *)
LockHeld ==
    /\ \A i \in Positions : lock = i <=> run[i] \in {"update", "splits"}
    /\ lock # 0 => row.there

(* An identity that is not there is as a new one would be.                 *)
AbsentIsNew == ~row.there => row = Absent /\ receivers = {}

(* An event that says what the chain says is still to be handled.          *)
Pending(kind, value) ==
    \E i \in Positions : log[i].kind = kind /\ log[i].value = value /\ run[i] # "done"
SplitsPending == Pending("SplitsSet", SplitsHash)

(* Splits are not handled for good before there is a row, so that a        *)
(* validation made before the row was looked up may be outdated.           *)
SplitsWait == ~row.there => SplitsHash = Unset \/ SplitsPending
PreIsLater == \A i \in Positions : run[i] = "validated" /\ pre[i] => SplitsHash # Unset

(* What is promised at rest holds before, or is pending.                   *)
RightlyValid    == row.valid = (row.owner # Nobody /\ SplitsHash = row.owner)
ValidFollows    == faults = 0 => RightlyValid \/ SplitsPending
OneReceiver     == \A r1, r2 \in receivers : r1 = r2
ClaimedReceiver == receivers # {} => row.owner # Nobody
ReceiverFollows == (\A r \in receivers : r.owner = SplitsHash) \/ SplitsPending
ClaimFollows    == \/ OwnerOf = Nobody \/ row.owner # Nobody
                   \/ Pending("OwnerUpdated", OwnerOf)

IInv == /\ TypeOK /\ LabelsFit /\ LockHeld /\ AbsentIsNew /\ SplitsWait /\ PreIsLater
        /\ ValidFollows /\ OneReceiver /\ ClaimedReceiver /\ ReceiverFollows /\ ClaimFollows
----------------------------------------------------------------------------
(* Lemmas about the log and the runs.                                      *)

(* The value of an event is of its kind.                                   *)
LEMMA EventTyped ==
    ASSUME TypeOK, NEW i \in Positions
    PROVE  /\ log[i] \in Event /\ run[i] \in Labels /\ pre[i] \in BOOLEAN
           /\ i \in 1..MaxLog /\ i \in 0..Len(log) /\ i \in Nat /\ i # 0
           /\ log[i].kind = "OwnerUpdated" => log[i].value \in Owners
           /\ log[i].kind = "SplitsSet" => log[i].value \in Splits
<1>1. log[i] \in Event /\ run[i] \in Labels /\ pre[i] \in BOOLEAN
  BY ElementOfSeq DEF TypeOK, Positions
<1>2. i \in 1..MaxLog /\ i \in 0..Len(log) /\ i \in Nat /\ i # 0
  BY IdentityAssumption, LenProperties DEF TypeOK, Positions
<1>. QED
  BY <1>1, <1>2 DEF Event

(* What appending does to a sequence of any set, BOOLEAN included.         *)
LEMMA Appended ==
    ASSUME NEW S, NEW seq \in Seq(S), NEW elt \in S, NEW new, new = Append(seq, elt)
    PROVE  /\ new \in Seq(S) /\ Len(new) = Len(seq) + 1
           /\ \A i \in 1..Len(seq) : new[i] = seq[i]
  BY AppendProperties

(* A new event leaves those before it as they are, and is to be handled.   *)
LEMMA MineAppends ==
    ASSUME TypeOK, NEW ev \in Event, Mine(ev)
    PROVE  /\ Len(log)' = Len(log) + 1 /\ Len(log) \in Nat
           /\ Positions' = Positions \union {Len(log) + 1}
           /\ \A i \in Positions : /\ log'[i] = log[i] /\ run'[i] = run[i]
                                   /\ pre'[i] = pre[i] /\ i \in Int /\ i <= Len(log)
           /\ log'[Len(log) + 1] = ev /\ run'[Len(log) + 1] = "todo"
           /\ log' \in Seq(Event) /\ Len(log') <= MaxLog
           /\ run' \in Seq(Labels) /\ Len(run)' = Len(log)'
           /\ pre' \in Seq(BOOLEAN) /\ Len(pre)' = Len(log)'
<1>1. /\ Len(log)' = Len(log) + 1 /\ log' \in Seq(Event) /\ log'[Len(log) + 1] = ev
      /\ \A i \in 1..Len(log) : log'[i] = log[i]
  BY AppendProperties DEF TypeOK, Mine
<1>2. /\ Len(run)' = Len(log) + 1 /\ run' \in Seq(Labels) /\ run'[Len(log) + 1] = "todo"
      /\ \A i \in 1..Len(log) : run'[i] = run[i]
  BY AppendProperties DEF TypeOK, Mine, Labels
<1>3. /\ Len(pre)' = Len(log) + 1 /\ pre' \in Seq(BOOLEAN)
      /\ \A i \in 1..Len(log) : pre'[i] = pre[i]
  <2>. DEFINE B == BOOLEAN
              f == FALSE
  <2>1. pre \in Seq(B) /\ f \in B /\ pre' = Append(pre, f) /\ Len(pre) = Len(log)
    BY DEF TypeOK, Mine
  <2>. HIDE DEF B, f
  <2>2. /\ pre' \in Seq(B) /\ Len(pre') = Len(pre) + 1
        /\ \A i \in 1..Len(pre) : pre'[i] = pre[i]
    BY <2>1, Appended
  <2>. QED
    BY <2>1, <2>2, Zenon DEF B
<1>4. Len(log) \in Nat
  BY LenProperties DEF TypeOK
<1>5. \A i \in Positions : pre'[i] = pre[i]
  BY <1>3, Zenon DEF Positions
<1>6. \A i \in Positions : /\ log'[i] = log[i] /\ run'[i] = run[i]
                           /\ i \in Int /\ i <= Len(log)
  BY <1>1, <1>2, <1>4 DEF Positions
<1>7. Positions' = Positions \union {Len(log) + 1} /\ Len(log') <= MaxLog
  BY <1>1, <1>4, IdentityAssumption DEF Mine, Positions
<1>. QED
  BY <1>1, <1>2, <1>3, <1>4, <1>5, <1>6, <1>7, Zenon

(* The last event of a kind is one of the log.                             *)
LEMMA LastIsOne ==
    ASSUME TypeOK, NEW kind, NEW none
    PROVE  \/ /\ LastOf(kind, none) = none
              /\ \A i \in Positions : log[i].kind # kind
           \/ \E i \in Positions : log[i].kind = kind /\ LastOf(kind, none) = log[i].value
<1>. DEFINE at   == {i \in 1..Len(log) : log[i].kind = kind}
            last == CHOOSE i \in at : \A k \in at : k <= i
<1>1. at # {} => last \in at
  BY NewestExists, LenProperties DEF TypeOK
<1>2. LastOf(kind, none) = IF at = {} THEN none ELSE log[last].value
  BY DEF LastOf
<1>3. at # {} => \E i \in Positions : log[i].kind = kind /\ log[last].value = log[i].value
  BY <1>1 DEF Positions
<1>4. at = {} => \A i \in Positions : log[i].kind # kind
  BY DEF Positions
<1>. HIDE DEF at, last
<1>. QED
  BY <1>2, <1>3, <1>4

LEMMA ChainTyped ==
    ASSUME TypeOK
    PROVE  OwnerOf \in Owners \union {Nobody} /\ SplitsHash \in Splits \union {Unset}
<1>1. OwnerOf \in Owners \union {Nobody}
  BY LastIsOne, EventTyped DEF OwnerOf
<1>2. SplitsHash \in Splits \union {Unset}
  BY LastIsOne, EventTyped DEF SplitsHash
<1>. QED
  BY <1>1, <1>2

(* A new event of a kind is the last of it, and of no other kind.          *)
LEMMA LastAppended ==
    ASSUME TypeOK, NEW ev \in Event, Mine(ev), NEW kind, NEW none
    PROVE  LastOf(kind, none)' = IF ev.kind = kind THEN ev.value ELSE LastOf(kind, none)
<1>. DEFINE at   == {i \in 1..Len(log) : log[i].kind = kind}
            new  == {i \in 1..Len(log') : log'[i].kind = kind}
            last == CHOOSE i \in at : \A k \in at : k <= i
<1>1. /\ Len(log') = Len(log) + 1 /\ Len(log) \in Nat /\ log'[Len(log) + 1] = ev
      /\ \A i \in 1..Len(log) : log'[i] = log[i]
  BY MineAppends DEF Positions
<1>2. LastOf(kind, none)' = IF new = {} THEN none
          ELSE log'[CHOOSE i \in new : \A k \in new : k <= i].value
  BY DEF LastOf
<1>3. CASE ev.kind = kind
  <2>1. Len(log) + 1 \in new /\ \A i \in new : i <= Len(log) + 1 /\ i \in Int
    BY <1>1, <1>3
  <2>2. (CHOOSE i \in new : \A k \in new : k <= i) = Len(log) + 1
    BY <1>1, <2>1
  <2>. HIDE DEF new
  <2>. QED
    BY <1>1, <1>2, <1>3, <2>1, <2>2
<1>4. CASE ev.kind # kind
  <2>1. new = at
    BY <1>1, <1>4
  <2>2. at # {} => last \in at
    BY <1>1, NewestExists
  <2>3. at # {} => log'[last] = log[last]
    BY <1>1, <2>2
  <2>4. LastOf(kind, none) = IF at = {} THEN none ELSE log[last].value
    BY DEF LastOf
  <2>5. LastOf(kind, none)' = IF at = {} THEN none ELSE log'[last].value
    BY <1>2, <2>1
  <2>. HIDE DEF at, last
  <2>. QED
    BY <1>4, <2>3, <2>4, <2>5
<1>. QED
  BY <1>3, <1>4

(* While the log is the same, so is what it says.                          *)
LEMMA ChainKept ==
    ASSUME log' = log
    PROVE  OwnerOf' = OwnerOf /\ SplitsHash' = SplitsHash /\ Positions' = Positions
  BY DEF OwnerOf, SplitsHash, LastOf, Positions

(* What the handler of event i does to the runs.                           *)
LEMMA GotoRun ==
    ASSUME TypeOK, NEW i \in Positions, NEW label \in Labels, Goto(i, label)
    PROVE  /\ run' \in Seq(Labels) /\ Len(run') = Len(log)
           /\ \A k \in Positions : run'[k] = IF k = i THEN label ELSE run[k]
  BY ExceptSeq DEF TypeOK, Positions, Goto

(* A validation without an error is right, and one that says yes is.       *)
LEMMA ValidateSays ==
    ASSUME TypeOK, NEW owner \in Owners, NEW result \in BOOLEAN, Validate(owner, result)
    PROVE  /\ faults' \in Nat
           /\ faults' = 0 => faults = 0 /\ result = (SplitsHash = owner)
           /\ result => SplitsHash = owner
  BY DEF Validate, TypeOK

----------------------------------------------------------------------------
(* Type correctness.                                                       *)

LEMMA IdentityRowTyped ==
    ASSUME NEW owner \in Owners \union {Nobody}, NEW valid \in BOOLEAN
    PROVE  /\ IdentityRow(owner, valid) \in Row /\ IdentityRow(owner, valid).there
           /\ IdentityRow(owner, valid).owner = owner
           /\ IdentityRow(owner, valid).valid = valid
  BY DEF IdentityRow, Row
(* What is written to the row and the receivers, by which event.           *)
LEMMA OwnerWrites ==
    ASSUME TypeOK, LabelsFit, NEW i \in Positions, CreateIdentity(i) \/ UpdateIdentity(i)
    PROVE  /\ log' = log /\ pre' = pre /\ receivers' = receivers /\ Goto(i, "done")
           /\ log[i].kind = "OwnerUpdated" /\ log[i].value \in Owners
           /\ \E result \in BOOLEAN : row' = IdentityRow(log[i].value, result)
           /\ row' \in Row /\ row'.there /\ row'.owner = log[i].value
           /\ lock' \in {lock, 0} /\ faults' \in Nat /\ aborts' = aborts
<1>1. run[i] \in {"validated", "update"} /\ log' = log /\ pre' = pre
      /\ receivers' = receivers /\ Goto(i, "done") /\ lock' \in {lock, 0} /\ aborts' = aborts
  BY DEF CreateIdentity, UpdateIdentity, counts
<1>2. log[i].kind = "OwnerUpdated" /\ log[i].value \in Owners /\ pre[i] \in BOOLEAN
  BY <1>1, EventTyped DEF LabelsFit
<1>3. faults' \in Nat
  BY DEF CreateIdentity, UpdateIdentity, Validate, counts, TypeOK
<1>4. \E result \in BOOLEAN : row' = IdentityRow(log[i].value, result)
  <2>1. CASE CreateIdentity(i)
    <3>1. row' = IdentityRow(log[i].value, pre[i])
      BY <2>1 DEF CreateIdentity
    <3>. QED
      BY <1>2, <3>1, Zenon
  <2>2. CASE UpdateIdentity(i)
    BY <2>2 DEF UpdateIdentity
  <2>. QED
    BY <2>1, <2>2
<1>5. row' \in Row /\ row'.there /\ row'.owner = log[i].value
  BY <1>2, <1>4, IdentityRowTyped
<1>. QED
  BY <1>1, <1>2, <1>3, <1>4, <1>5

LEMMA SplitsWrites ==
    ASSUME TypeOK, LabelsFit, NEW i \in Positions, UnclaimedSplits(i) \/ ProcessSplits(i)
    PROVE  /\ log' = log /\ pre' = pre /\ Goto(i, "done") /\ log[i].kind = "SplitsSet"
           /\ row' \in Row /\ row'.there /\ row'.owner = row.owner
           /\ receivers' \subseteq [by : 1..Len(log), owner : Owners]
           /\ lock' = 0 /\ faults' \in Nat /\ aborts' = aborts
<1>1. run[i] = "splits" /\ log' = log /\ pre' = pre /\ Goto(i, "done") /\ lock' = 0
      /\ aborts' = aborts
  BY DEF UnclaimedSplits, ProcessSplits, counts
<1>2. log[i].kind = "SplitsSet"
  BY <1>1 DEF LabelsFit
<1>3. faults' \in Nat
  <2>1. faults' = faults \/ faults' = faults + 1
    BY DEF UnclaimedSplits, ProcessSplits, Validate, counts
  <2>. QED
    BY <2>1 DEF TypeOK
<1>4. CASE UnclaimedSplits(i)
  <2>1. row' = IdentityRow(Nobody, FALSE) /\ row.owner = Nobody /\ receivers' = receivers
    BY <1>4 DEF UnclaimedSplits
  <2>2. row' \in Row /\ row'.there /\ row'.owner = Nobody
    BY <2>1, IdentityRowTyped
  <2>. QED
    BY <1>1, <1>2, <1>3, <2>1, <2>2 DEF TypeOK
<1>5. CASE ProcessSplits(i)
  <2>1. PICK result \in BOOLEAN :
           /\ row' = IdentityRow(row.owner, result)
           /\ receivers' = IF result THEN {[by |-> i, owner |-> row.owner]} ELSE {}
    BY <1>5 DEF ProcessSplits
  <2>2. row.owner \in Owners
    BY <1>5 DEF ProcessSplits, TypeOK, Row
  <2>3. row' \in Row /\ row'.there /\ row'.owner = row.owner
    BY <2>1, <2>2, IdentityRowTyped
  <2>4. receivers' \subseteq [by : 1..Len(log), owner : Owners]
    BY <2>1, <2>2 DEF Positions
  <2>. QED
    BY <1>1, <1>2, <1>3, <2>3, <2>4
<1>. QED
  BY <1>4, <1>5

(* Steps that leave the row and the receivers alone.                       *)
Move(i) ==
    ReadOwner(i) \/ ValidateDefaults(i) \/ FindIdentity(i) \/ CheckSplits(i)
        \/ LockForSplits(i) \/ Abort(i)

LEMMA MoveTyped ==
    ASSUME TypeOK, NEW i \in Positions, Move(i)
    PROVE  /\ log' = log /\ UNCHANGED tables /\ lock' \in {lock, 0, i}
           /\ \E label \in Labels : Goto(i, label)
           /\ pre' \in Seq(BOOLEAN) /\ Len(pre') = Len(log)
           /\ faults' \in Nat /\ aborts' \in Nat
<1>1. log' = log /\ UNCHANGED tables /\ lock' \in {lock, 0, i}
  BY DEF Move, ReadOwner, ValidateDefaults, FindIdentity, CheckSplits, LockForSplits, Abort
<1>2. \E label \in Labels : Goto(i, label)
  BY DEF Move, ReadOwner, ValidateDefaults, FindIdentity, CheckSplits, LockForSplits, Abort,
         Labels
<1>3. pre' \in Seq(BOOLEAN) /\ Len(pre') = Len(log)
  <2>1. CASE ValidateDefaults(i)
    BY <2>1, ExceptSeq DEF ValidateDefaults, TypeOK, Positions
  <2>2. CASE ~ValidateDefaults(i)
    <3>1. pre' = pre
      BY <2>2 DEF Move, ReadOwner, FindIdentity, CheckSplits, LockForSplits, Abort
    <3>. QED
      BY <3>1 DEF TypeOK
  <2>. QED
    BY <2>1, <2>2
<1>4. faults' \in Nat /\ aborts' \in Nat
  BY DEF Move, ReadOwner, ValidateDefaults, Validate, FindIdentity, CheckSplits,
         LockForSplits, Abort, counts, TypeOK
<1>. QED
  BY <1>1, <1>2, <1>3, <1>4

LEMMA TypeInv == TypeOK /\ LabelsFit /\ [Next]_vars => TypeOK'
<1> SUFFICES ASSUME TypeOK, LabelsFit, [Next]_vars PROVE TypeOK'
  OBVIOUS
<1>1. ASSUME NEW ev \in Event, Mine(ev) PROVE TypeOK'
  <2>1. /\ Len(log') = Len(log) + 1 /\ Len(log) \in Nat
        /\ UNCHANGED <<row, receivers, lock, faults, aborts>>
    BY <1>1, MineAppends DEF Mine, tables, counts
  <2>2. lock' \in 0..Len(log') /\ receivers' \subseteq [by : 1..Len(log'), owner : Owners]
    BY <2>1 DEF TypeOK
  <2>3. /\ log' \in Seq(Event) /\ Len(log') <= MaxLog
        /\ run' \in Seq(Labels) /\ Len(run') = Len(log')
        /\ pre' \in Seq(BOOLEAN) /\ Len(pre') = Len(log')
    BY <1>1, MineAppends
  <2>. QED
    BY <2>1, <2>2, <2>3 DEF TypeOK
<1>2. CASE EnsureExists
  <2>1. row' \in Row
    BY <1>2, IdentityRowTyped DEF EnsureExists
  <2>. QED
    BY <1>2, <2>1 DEF EnsureExists, TypeOK, counts
<1>3. ASSUME NEW i \in Positions, NEW label \in Labels, Goto(i, label), log' = log,
             pre' \in Seq(BOOLEAN), Len(pre') = Len(log), row' \in Row,
             lock' \in {lock, 0, i},
             receivers' \subseteq [by : 1..Len(log), owner : Owners],
             faults' \in Nat, aborts' \in Nat
      PROVE  TypeOK'
  <2>1. lock' \in 0..Len(log)
    BY <1>3, EventTyped DEF TypeOK
  <2>2. run' \in Seq(Labels) /\ Len(run') = Len(log)
    BY <1>3, GotoRun
  <2>. QED
    BY <1>3, <2>1, <2>2 DEF TypeOK
<1>4. ASSUME NEW i \in Positions, Move(i) PROVE TypeOK'
  <2>1. row' \in Row /\ receivers' \subseteq [by : 1..Len(log), owner : Owners]
    BY <1>4, MoveTyped DEF tables, TypeOK
  <2>. QED
    BY <1>3, <1>4, <2>1, MoveTyped
<1>5. ASSUME NEW i \in Positions, CreateIdentity(i) \/ UpdateIdentity(i) PROVE TypeOK'
  <2>1. /\ pre' \in Seq(BOOLEAN) /\ Len(pre') = Len(log) /\ aborts' \in Nat
        /\ receivers' \subseteq [by : 1..Len(log), owner : Owners]
    BY <1>5, OwnerWrites DEF TypeOK
  <2>. QED
    BY <1>3, <1>5, <2>1, OwnerWrites DEF Labels
<1>6. ASSUME NEW i \in Positions, UnclaimedSplits(i) \/ ProcessSplits(i) PROVE TypeOK'
  <2>1. pre' \in Seq(BOOLEAN) /\ Len(pre') = Len(log) /\ aborts' \in Nat
    BY <1>6, SplitsWrites DEF TypeOK
  <2>. QED
    BY <1>3, <1>6, <2>1, SplitsWrites DEF Labels
<1>7. CASE UNCHANGED vars
  BY <1>7 DEF vars, TypeOK
<1>. QED
  BY <1>1, <1>2, <1>4, <1>5, <1>6, <1>7 DEF Next, Handle, Move, Positions
----------------------------------------------------------------------------
(* The inductive invariant.                                                *)

LEMMA InitInv == Init => IInv
<1> SUFFICES ASSUME Init PROVE IInv
  OBVIOUS
<1>1. Positions = {} /\ Len(log) = 0 /\ Len(run) = 0 /\ Len(pre) = 0
  BY EmptySeq DEF Init, Positions
<1>2. TypeOK
  <2>1. << >> \in Seq(Event) /\ << >> \in Seq(Labels) /\ << >> \in Seq(BOOLEAN)
    BY EmptySeq
  <2>2. Absent \in Row
    BY DEF Absent, Row
  <2>. QED
    BY <1>1, <2>1, <2>2, IdentityAssumption DEF Init, TypeOK
<1>3. OwnerOf = Nobody /\ SplitsHash = Unset
  BY <1>1 DEF OwnerOf, SplitsHash, LastOf, Positions
<1>4. RightlyValid
  BY DEF Init, Absent, RightlyValid
<1>. QED
  BY <1>1, <1>2, <1>3, <1>4 DEF Init, IInv, LabelsFit, LockHeld, AbsentIsNew, SplitsWait,
     PreIsLater, ValidFollows, OneReceiver, ClaimedReceiver, ReceiverFollows, ClaimFollows

(* What is pending stays so until its own run is done.                     *)
LEMMA StillPending ==
    ASSUME TypeOK, NEW i \in Positions, NEW label \in Labels, Goto(i, label), log' = log,
           NEW kind, NEW value, Pending(kind, value),
           label = "done" => log[i].kind # kind \/ log[i].value # value
    PROVE  Pending(kind, value)'
<1>1. PICK k \in Positions : log[k].kind = kind /\ log[k].value = value /\ run[k] # "done"
  BY DEF Pending
<1>2. run'[k] # "done" /\ Positions' = Positions
  BY <1>1, GotoRun DEF Positions
<1>. QED
  BY <1>1, <1>2 DEF Pending

(* Whether the row is rightly valid only changes with row and splits.      *)
LEMMA RightlyKept ==
    ASSUME row' = row, SplitsHash' = SplitsHash, RightlyValid PROVE RightlyValid'
  BY Zenon DEF RightlyValid

LEMMA RightlyMade ==
    ASSUME NEW owner \in Owners \union {Nobody}, NEW valid \in BOOLEAN,
           row' = IdentityRow(owner, valid),
           valid <=> owner # Nobody /\ SplitsHash' = owner
    PROVE  RightlyValid'
<1>1. row'.owner = owner /\ row'.valid = valid
  BY IdentityRowTyped, Zenon
<1>2. valid = (owner # Nobody /\ SplitsHash' = owner)
  OBVIOUS
<1>. QED
  BY <1>1, <1>2, Zenon DEF RightlyValid

LEMMA MineInv == ASSUME IInv, NEW ev \in Event, Mine(ev) PROVE IInv'
<1>. USE DEF IInv
<1>. DEFINE n == Len(log) + 1
<1>1. TypeOK'
  BY TypeInv DEF Next
<1>2. UNCHANGED <<row, lock, receivers, faults>>
  BY DEF Mine, tables, counts
<1>3. /\ Positions' = Positions \union {n} /\ n \notin Positions /\ n # lock /\ n \in Nat
      /\ \A i \in Positions : log'[i] = log[i] /\ run'[i] = run[i]
      /\ log'[n] = ev /\ run'[n] = "todo"
  BY MineAppends DEF Positions, TypeOK
<1>4. \A i \in Positions : pre'[i] = pre[i]
  BY MineAppends, Zenon
<1>5. OwnerOf' = IF ev.kind = "OwnerUpdated" THEN ev.value ELSE OwnerOf
  BY LastAppended DEF OwnerOf
<1>6. SplitsHash' = IF ev.kind = "SplitsSet" THEN ev.value ELSE SplitsHash
  BY LastAppended DEF SplitsHash
<1>7. ASSUME NEW kind, NEW value, Pending(kind, value) PROVE Pending(kind, value)'
  BY <1>3, <1>7 DEF Pending
<1>8. Pending(ev.kind, ev.value)'
  BY <1>3 DEF Pending
<1>9. SplitsPending' \/ SplitsHash' = SplitsHash
  BY <1>6, <1>8 DEF SplitsPending
<1>10. SplitsPending => SplitsPending'
  BY <1>6, <1>7, <1>8 DEF SplitsPending
<1>11. LabelsFit' /\ LockHeld' /\ AbsentIsNew'
  BY <1>2, <1>3 DEF LabelsFit, LockHeld, AbsentIsNew
<1>12. SplitsWait'
  BY <1>2, <1>9, <1>10 DEF SplitsWait
<1>13. PreIsLater'
  <2>1. SplitsHash # Unset => SplitsHash' # Unset
    BY <1>6, IdentityAssumption DEF Event, Splits
  <2>2. \A i \in Positions : run[i] = "validated" /\ pre[i] => SplitsHash' # Unset
    BY <2>1 DEF PreIsLater
  <2>3. \A i \in Positions' : run'[i] = "validated" =>
            i \in Positions /\ run[i] = "validated"
    BY <1>3
  <2>. QED
    BY <1>4, <2>2, <2>3, Zenon DEF PreIsLater
<1>14. ValidFollows'
  BY <1>2, <1>9, <1>10, RightlyKept DEF ValidFollows
<1>15. OneReceiver' /\ ClaimedReceiver'
  BY <1>2 DEF OneReceiver, ClaimedReceiver
<1>16. ReceiverFollows'
  BY <1>2, <1>9, <1>10 DEF ReceiverFollows
<1>17. ClaimFollows'
  BY <1>2, <1>5, <1>7, <1>8 DEF ClaimFollows
<1>. QED
  BY <1>1, <1>11, <1>12, <1>13, <1>14, <1>15, <1>16, <1>17

LEMMA EnsureInv == ASSUME IInv, EnsureExists PROVE IInv'
<1>. USE DEF IInv
<1>1. TypeOK'
  BY TypeInv DEF Next
<1>2. UNCHANGED <<log, run, pre, lock, receivers, faults>>
  BY DEF EnsureExists, counts
<1>3. /\ row' = IdentityRow(Nobody, FALSE) /\ row'.there /\ row'.owner = Nobody
      /\ row.owner = Nobody /\ receivers = {}
  BY DEF EnsureExists, IdentityRow, AbsentIsNew, Absent
<1>4. OwnerOf' = OwnerOf /\ SplitsHash' = SplitsHash /\ Positions' = Positions
  BY <1>2, ChainKept
<1>5. LabelsFit' /\ AbsentIsNew' /\ SplitsWait' /\ PreIsLater'
  BY <1>2, <1>3, <1>4, Zenon DEF LabelsFit, AbsentIsNew, SplitsWait, PreIsLater
<1>6. LockHeld'
  BY <1>2, <1>3, <1>4 DEF LockHeld
<1>7. ValidFollows'
  BY <1>3, RightlyMade DEF ValidFollows
<1>8. OneReceiver' /\ ClaimedReceiver' /\ ReceiverFollows'
  BY <1>2, <1>3 DEF OneReceiver, ClaimedReceiver, ReceiverFollows
<1>9. ClaimFollows'
  BY <1>2, <1>3, <1>4 DEF ClaimFollows, Pending
<1>. QED
  BY <1>1, <1>5, <1>6, <1>7, <1>8, <1>9
(* Steps that leave the row and the receivers alone.  They end a run only  *)
(* if its event is outdated.                                               *)
LEMMA MoveFits ==
    ASSUME TypeOK, LabelsFit, LockHeld, NEW i \in Positions, Move(i)
    PROVE  \E label \in Labels :
              /\ Goto(i, label)
              /\ label \in {"owned", "validated", "update"} => log[i].kind = "OwnerUpdated"
              /\ label \in {"current", "splits"} => log[i].kind = "SplitsSet"
              /\ label = "done" => \/ log[i].kind = "OwnerUpdated" /\ log[i].value # OwnerOf
                                   \/ log[i].kind = "SplitsSet" /\ log[i].value # SplitsHash
              /\ lock' = i <=> label \in {"update", "splits"}
              /\ lock' # 0 => row.there
              /\ \A m \in Positions \ {i} : lock' = m <=> lock = m
              /\ label = "validated" => ValidateDefaults(i)
<1>1. i # 0 /\ (lock = i <=> run[i] \in {"update", "splits"})
  BY EventTyped DEF LockHeld
<1>2. \A m \in Positions : m # 0
  BY EventTyped
<1>3. CASE ReadOwner(i)
  BY <1>1, <1>3 DEF ReadOwner, LockHeld, Labels
<1>4. CASE ValidateDefaults(i)
  BY <1>1, <1>4 DEF ValidateDefaults, LabelsFit, LockHeld, Labels
<1>5. CASE FindIdentity(i)
  BY <1>1, <1>2, <1>5 DEF FindIdentity, LabelsFit, Labels
<1>6. CASE CheckSplits(i)
  BY <1>1, <1>6 DEF CheckSplits, LockHeld, Labels
<1>7. CASE LockForSplits(i)
  BY <1>1, <1>2, <1>7 DEF LockForSplits, LabelsFit, Labels
<1>8. CASE Abort(i)
  BY <1>1, <1>2, <1>8 DEF Abort, LockHeld, Labels
<1>. QED
  BY <1>3, <1>4, <1>5, <1>6, <1>7, <1>8 DEF Move

LEMMA MoveInv == ASSUME IInv, TypeOK', NEW i \in Positions, Move(i) PROVE IInv'
<1>. USE DEF IInv
<1>1. log' = log /\ row' = row /\ receivers' = receivers
  BY MoveTyped DEF tables
<1>2. OwnerOf' = OwnerOf /\ SplitsHash' = SplitsHash /\ Positions' = Positions
  BY <1>1, ChainKept
<1>3. PICK label \in Labels :
         /\ Goto(i, label)
         /\ label \in {"owned", "validated", "update"} => log[i].kind = "OwnerUpdated"
         /\ label \in {"current", "splits"} => log[i].kind = "SplitsSet"
         /\ label = "done" => \/ log[i].kind = "OwnerUpdated" /\ log[i].value # OwnerOf
                              \/ log[i].kind = "SplitsSet" /\ log[i].value # SplitsHash
         /\ lock' = i <=> label \in {"update", "splits"}
         /\ lock' # 0 => row.there
         /\ \A m \in Positions \ {i} : lock' = m <=> lock = m
         /\ label = "validated" => ValidateDefaults(i)
  BY MoveFits
<1>4. \A m \in Positions : run'[m] = IF m = i THEN label ELSE run[m]
  BY <1>3, GotoRun
<1>5. SplitsPending => SplitsPending'
  BY <1>1, <1>2, <1>3, StillPending DEF SplitsPending
<1>6. Pending("OwnerUpdated", OwnerOf) => Pending("OwnerUpdated", OwnerOf)'
  BY <1>1, <1>2, <1>3, StillPending
<1>7. LabelsFit' /\ LockHeld'
  BY <1>1, <1>2, <1>3, <1>4 DEF LabelsFit, LockHeld
<1>8. AbsentIsNew' /\ SplitsWait'
  BY <1>1, <1>2, <1>5 DEF AbsentIsNew, SplitsWait
<1>9. PreIsLater'
  <2>1. CASE ValidateDefaults(i)
    <3>1. PICK result \in BOOLEAN :
             Validate(log[i].value, result) /\ pre' = [pre EXCEPT ![i] = result]
      BY <2>1 DEF ValidateDefaults
    <3>2. log[i].value \in Owners
      BY <2>1, EventTyped DEF ValidateDefaults, LabelsFit
    <3>3. result => SplitsHash # Unset
      BY <3>1, <3>2, ValidateSays, IdentityAssumption
    <3>4. pre'[i] = result /\ \A m \in Positions \ {i} : pre'[m] = pre[m]
      <4>. DEFINE B == BOOLEAN
                  r == result
      <4>1. pre \in Seq(B) /\ r \in B /\ pre' = [pre EXCEPT ![i] = r] /\ i \in 1..Len(pre)
            /\ Positions = 1..Len(pre)
        BY <3>1 DEF TypeOK, Positions
      <4>. HIDE DEF B, r
      <4>2. pre'[i] = r /\ \A m \in Positions \ {i} : pre'[m] = pre[m]
        BY <4>1, ExceptSeq
      <4>. QED
        BY <4>2, Zenon DEF r
    <3>5. \A m \in Positions \ {i} : run'[m] = run[m]
      BY <1>4
    <3>. QED
      BY <1>2, <3>3, <3>4, <3>5, Zenon DEF PreIsLater
  <2>2. CASE ~ValidateDefaults(i)
    <3>1. pre' = pre
      BY <2>2 DEF Move, ReadOwner, FindIdentity, CheckSplits, LockForSplits, Abort
    <3>2. label # "validated"
      BY <1>3, <2>2
    <3>3. \A m \in Positions : run'[m] = "validated" => run[m] = "validated"
      BY <1>4, <3>2
    <3>. QED
      BY <1>2, <3>1, <3>3, Zenon DEF PreIsLater
  <2>. QED
    BY <2>1, <2>2
<1>10. ValidFollows'
  <2>1. faults' = faults \/ faults' = faults + 1
    BY DEF Move, ReadOwner, ValidateDefaults, Validate, FindIdentity, CheckSplits,
           LockForSplits, Abort, counts
  <2>2. faults' = 0 => faults = 0
    BY <2>1 DEF TypeOK
  <2>. QED
    BY <1>1, <1>2, <1>5, <2>2, RightlyKept DEF ValidFollows
<1>11. OneReceiver' /\ ClaimedReceiver' /\ ReceiverFollows' /\ ClaimFollows'
  BY <1>1, <1>2, <1>5, <1>6
     DEF OneReceiver, ClaimedReceiver, ReceiverFollows, ClaimFollows
<1>. QED
  BY <1>7, <1>8, <1>9, <1>10, <1>11

(* What holds whenever event i is done and the row is there.               *)
LEMMA DoneFits ==
    ASSUME IInv, NEW i \in Positions, Goto(i, "done"), log' = log, pre' = pre,
           row'.there, \/ lock' = 0 /\ lock \in {0, i}
                       \/ lock' = lock /\ lock # i
    PROVE  /\ LabelsFit' /\ LockHeld' /\ AbsentIsNew' /\ SplitsWait' /\ PreIsLater'
           /\ OwnerOf' = OwnerOf /\ SplitsHash' = SplitsHash
<1>. USE DEF IInv
<1>1. OwnerOf' = OwnerOf /\ SplitsHash' = SplitsHash /\ Positions' = Positions
  BY ChainKept
<1>2. \A m \in Positions : run'[m] = IF m = i THEN "done" ELSE run[m]
  BY GotoRun DEF Labels
<1>3. \A m \in Positions : m # 0
  BY EventTyped
<1>4. LabelsFit' /\ LockHeld' /\ AbsentIsNew' /\ SplitsWait'
  BY <1>1, <1>2, <1>3 DEF LabelsFit, LockHeld, AbsentIsNew, SplitsWait
<1>5. \A m \in Positions : run'[m] = "validated" => run[m] = "validated"
  BY <1>2
<1>6. PreIsLater'
  BY <1>1, <1>5, Zenon DEF PreIsLater
<1>. QED
  BY <1>1, <1>4, <1>6

(* OwnerUpdated writes the owner and leaves the receivers.                 *)
LEMMA OwnerInv ==
    ASSUME IInv, TypeOK', NEW i \in Positions, CreateIdentity(i) \/ UpdateIdentity(i)
    PROVE  IInv'
<1>. USE DEF IInv
<1>1. /\ log' = log /\ pre' = pre /\ receivers' = receivers /\ Goto(i, "done")
      /\ log[i].kind = "OwnerUpdated" /\ log[i].value \in Owners
      /\ row'.there /\ row'.owner = log[i].value
  BY OwnerWrites
<1>2. \/ lock' = 0 /\ lock \in {0, i}
      \/ lock' = lock /\ lock # i
  BY DEF CreateIdentity, UpdateIdentity, LockHeld
<1>3. /\ LabelsFit' /\ LockHeld' /\ AbsentIsNew' /\ SplitsWait' /\ PreIsLater'
      /\ OwnerOf' = OwnerOf /\ SplitsHash' = SplitsHash
  BY <1>1, <1>2, DoneFits
<1>4. row'.owner # Nobody
  BY <1>1, IdentityAssumption
<1>5. SplitsPending => SplitsPending'
  BY <1>1, <1>3, StillPending DEF SplitsPending, Labels
<1>6. ValidFollows'
  <2>1. CASE CreateIdentity(i)
    <3>1. SplitsHash = Unset \/ SplitsPending
      BY <2>1 DEF CreateIdentity, SplitsWait
    <3>2. ASSUME SplitsHash = Unset PROVE RightlyValid'
      <4>1. ~pre[i]
        BY <2>1, <3>2 DEF CreateIdentity, PreIsLater
      <4>2. row' = IdentityRow(log[i].value, FALSE)
        <5>1. row' = IdentityRow(log[i].value, pre[i]) /\ pre[i] \in BOOLEAN
          BY <2>1, EventTyped, Zenon DEF CreateIdentity
        <5>. QED
          BY <4>1, <5>1, Zenon
      <4>3. SplitsHash' # log[i].value
        BY <1>1, <1>3, <3>2, IdentityAssumption
      <4>. QED
        BY <1>1, <4>2, <4>3, RightlyMade
    <3>. QED
      BY <1>5, <3>1, <3>2 DEF ValidFollows
  <2>2. CASE UpdateIdentity(i)
    <3>1. PICK result \in BOOLEAN : /\ Validate(log[i].value, result)
                                    /\ row' = IdentityRow(log[i].value, result)
      BY <2>2 DEF UpdateIdentity
    <3>2. ASSUME faults' = 0 PROVE result <=> SplitsHash = log[i].value
      BY <1>1, <3>1, <3>2, ValidateSays
    <3>3. faults' = 0 => RightlyValid'
      BY <1>1, <1>3, <1>4, <3>1, <3>2, RightlyMade
    <3>. QED
      BY <3>3 DEF ValidFollows
  <2>. QED
    BY <2>1, <2>2
<1>7. OneReceiver' /\ ClaimedReceiver' /\ ClaimFollows'
  BY <1>1, <1>4 DEF OneReceiver, ClaimedReceiver, ClaimFollows
<1>8. ReceiverFollows'
  BY <1>1, <1>3, <1>5 DEF ReceiverFollows
<1>. QED
  BY <1>3, <1>6, <1>7, <1>8

(* SplitsSet sets the flag and the receivers, and leaves the owner.        *)
LEMMA SplitsInv ==
    ASSUME IInv, TypeOK', NEW i \in Positions, UnclaimedSplits(i) \/ ProcessSplits(i)
    PROVE  IInv'
<1>. USE DEF IInv
<1>1. /\ log' = log /\ pre' = pre /\ Goto(i, "done") /\ log[i].kind = "SplitsSet"
      /\ row'.there /\ row'.owner = row.owner /\ lock' = 0
  BY SplitsWrites
<1>2. lock = i
  BY DEF UnclaimedSplits, ProcessSplits, LockHeld
<1>3. /\ LabelsFit' /\ LockHeld' /\ AbsentIsNew' /\ SplitsWait' /\ PreIsLater'
      /\ OwnerOf' = OwnerOf /\ SplitsHash' = SplitsHash
  BY <1>1, <1>2, DoneFits
<1>4. Pending("OwnerUpdated", OwnerOf) => Pending("OwnerUpdated", OwnerOf)'
  BY <1>1, <1>3, StillPending DEF Labels
<1>5. ClaimFollows'
  BY <1>1, <1>3, <1>4 DEF ClaimFollows
<1>6. CASE UnclaimedSplits(i)
  <2>1. /\ row.owner = Nobody /\ receivers = {} /\ receivers' = {}
        /\ row' = IdentityRow(Nobody, FALSE)
    BY <1>6 DEF UnclaimedSplits, ClaimedReceiver
  <2>2. ValidFollows'
    BY <2>1, RightlyMade DEF ValidFollows
  <2>3. OneReceiver' /\ ClaimedReceiver' /\ ReceiverFollows'
    BY <2>1 DEF OneReceiver, ClaimedReceiver, ReceiverFollows
  <2>. QED
    BY <1>3, <1>5, <2>2, <2>3
<1>7. CASE ProcessSplits(i)
  <2>1. row.owner \in Owners /\ row.owner # Nobody
    BY <1>7 DEF ProcessSplits, TypeOK, Row
  <2>2. PICK result \in BOOLEAN :
           /\ Validate(row.owner, result)
           /\ row' = IdentityRow(row.owner, result)
           /\ receivers' = IF result THEN {[by |-> i, owner |-> row.owner]} ELSE {}
    BY <1>7 DEF ProcessSplits
  <2>3. /\ faults' = 0 => (result <=> SplitsHash = row.owner)
        /\ result => SplitsHash = row.owner
    BY <2>1, <2>2, ValidateSays
  <2>4. faults' = 0 => RightlyValid'
    BY <1>3, <2>1, <2>2, <2>3, RightlyMade
  <2>5. ValidFollows'
    BY <2>4 DEF ValidFollows
  <2>6. OneReceiver' /\ ClaimedReceiver' /\ ReceiverFollows'
    BY <1>1, <1>3, <2>1, <2>2, <2>3 DEF OneReceiver, ClaimedReceiver, ReceiverFollows
  <2>. QED
    BY <1>3, <1>5, <2>5, <2>6
<1>. QED
  BY <1>6, <1>7
LEMMA Invariance == Spec => []IInv
<1>1. IInv /\ [Next]_vars => IInv'
  <2> SUFFICES ASSUME IInv, [Next]_vars PROVE IInv'
    OBVIOUS
  <2>1. TypeOK'
    BY TypeInv DEF IInv
  <2>2. CASE UNCHANGED vars
    <3>1. UNCHANGED <<log, run, pre, row, lock, receivers, faults>>
      BY <2>2 DEF vars
    <3>2. OwnerOf' = OwnerOf /\ SplitsHash' = SplitsHash /\ Positions' = Positions
      BY <3>1, ChainKept
    <3>3. \A kind, value : Pending(kind, value) => Pending(kind, value)'
      BY <3>1, <3>2 DEF Pending
    <3>4. SplitsPending => SplitsPending'
      BY <3>2, <3>3 DEF SplitsPending
    <3>5. LabelsFit' /\ LockHeld' /\ AbsentIsNew' /\ SplitsWait' /\ PreIsLater'
      BY <3>1, <3>2, <3>4, Zenon
         DEF IInv, LabelsFit, LockHeld, AbsentIsNew, SplitsWait, PreIsLater
    <3>6. ValidFollows'
      BY <3>1, <3>2, <3>4, RightlyKept DEF IInv, ValidFollows
    <3>7. OneReceiver' /\ ClaimedReceiver' /\ ReceiverFollows' /\ ClaimFollows'
      BY <3>1, <3>2, <3>3, <3>4
         DEF IInv, OneReceiver, ClaimedReceiver, ReceiverFollows, ClaimFollows
    <3>. QED
      BY <2>1, <3>5, <3>6, <3>7 DEF IInv
  <2>. QED
    BY <2>1, <2>2, MineInv, EnsureInv, MoveInv, OwnerInv, SplitsInv
       DEF Next, Handle, Move, Positions
<1>. QED
  BY <1>1, InitInv, PTL DEF Spec

----------------------------------------------------------------------------
(* What the invariant gives.                                               *)

(* Type correctness.  It needs LabelsFit: only the event of an owner       *)
(* update may write its value to the owner column.                         *)
THEOREM TypeCorrect == Spec => []TypeOK
BY Invariance, PTL DEF IInv

(* At rest, the flag says whether the splits on chain are 100% to the      *)
(* owner of the row, for any interleaving of owner updates, splits, other  *)
(* accounts' metadata and runs cut short, unless a validation met an error. *)
THEOREM FlagIsRight == Spec => []ValidAtRest
<1>1. IInv => ValidAtRest
  BY Zenon DEF IInv, ValidFollows, RightlyValid, SplitsPending, Pending, AllHandled,
     Positions, ValidAtRest
<1>. QED
  BY <1>1, Invariance, PTL

(* There is never more than one owner receiver, and none of an identity    *)
(* without an owner; at rest, it is whom the splits on chain pay.          *)
THEOREM ReceiversFollowChain == Spec => []ReceiversMatchChain
<1>1. IInv => ReceiversMatchChain
  BY DEF IInv, OneReceiver, ClaimedReceiver, ReceiverFollows, SplitsPending, Pending,
     AllHandled, Positions, ReceiversMatchChain
<1>. QED
  BY <1>1, Invariance, PTL

(* At rest, an identity that is owned on chain is claimed.                 *)
THEOREM OwnedIsClaimed == Spec => []ClaimedAtRest
<1>1. IInv => ClaimedAtRest
  BY DEF IInv, ClaimFollows, Pending, AllHandled, Positions, ClaimedAtRest
<1>. QED
  BY <1>1, Invariance, PTL

(* The row lock is held by exactly the run that is in its transaction: it  *)
(* is never left behind, also by a run that was cut short, which is what   *)
(* the runs that wait for it rely on.                                      *)
THEOREM LockIsNeverLeft == Spec => []LockHeld
BY Invariance, PTL DEF IInv
=============================================================================
