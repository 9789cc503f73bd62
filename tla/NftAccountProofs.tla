-------------------------- MODULE NftAccountProofs --------------------------
(***************************************************************************)
(* Proofs about NftAccount, for every set of owners, receiver lists and    *)
(* documents, every threshold and any number of events.                    *)
(***************************************************************************)
EXTENDS NftAccount, Versions, SequenceTheorems, TLAPS

Labels == {"todo", "verified", "owned", "replacing", "current", "done"}

----------------------------------------------------------------------------
(* The parts of the inductive invariant.                                   *)

(* The log starts with the mint, and has no other.                         *)
MintFirst == \A i \in Positions : /\ log[1].kind = "Transfer"
                                  /\ i > 1 => FromOf(i) # Nobody

(* What is only known once the mint was mined, and then stays as it is.    *)
CreatorSet == \A k \in Kinds : rows[k].creator # Nobody =>
                 1 \in Positions /\ rows[k].creator = log[1].value
RowsFromLog == Found # {} => 1 \in Positions

(* A mint that was handled left its receiver as the creator of some row.   *)
MintHandled == 1 \in Positions /\ run[1] = "done" =>
                  \E k \in Found : rows[k].creator = log[1].value

(* While there is no row, no transfer is done.                             *)
TransfersWait == Found = {} =>
                    \A i \in Positions : log[i].kind = "Transfer" => run[i] # "done"

(* Each copy is what the chain says, or an event that says the same is     *)
(* still to be handled; of owner and receivers, while nothing raced.       *)
Pending(kind, value) ==
    \E i \in Positions : log[i].kind = kind /\ log[i].value = value /\ run[i] # "done"
Received(prev) ==
    \E i \in Positions :
        log[i].kind = "Transfer" /\ log[i].value = OwnerOf /\ prev = FromOf(i)
PrevFollows  == \A k \in Kinds : Found = {k} =>
                   Received(rows[k].prev) \/ Pending("Transfer", OwnerOf)
OwnerFollows == ~raced => \A k \in Kinds : Found = {k} =>
                   rows[k].owner = OwnerOf \/ Pending("Transfer", OwnerOf)
SplitsFollow == ~raced => \A k \in Kinds : Found = {k} =>
                   Receivers(SplitsHash) \/ Pending("SplitsSet", SplitsHash)
ValidFollows == \/ SplitsHash = NoSplits
                \/ Pending("SplitsSet", SplitsHash)
                \/ \E k \in Found : rows[k].valid

(* The receivers in the table are those of at most one document of a kind, *)
(* whose row is there.  The runs that replace them hold different rows, and *)
(* each has deleted what other documents of its kind left.                 *)
ListedRows == \A j \in listed : rows[log[j].value.type].there
ListedOnce == \A j, m \in listed : log[j].value.type = log[m].value.type => j = m
Replaces(j) == j \in Positions /\ Is(j, "Metadata", "replacing")
OneReplaces == \A j, m : Replaces(j) /\ Replaces(m) /\ log[j].value.type = log[m].value.type
                            => j = m
DeletesOwn == \A j : Replaces(j) =>
                 \A m \in listed : log[m].value.type = log[j].value.type => m \in gone[j]
ReceiversInv == ListedRows /\ ListedOnce /\ OneReplaces /\ DeletesOwn

IInv == /\ TypeOK /\ ReceiversInv /\ MintFirst /\ CreatorSet /\ RowsFromLog /\ MintHandled
        /\ TransfersWait /\ PrevFollows /\ OwnerFollows /\ SplitsFollow /\ ValidFollows
----------------------------------------------------------------------------
(* Lemmas about the log and the runs.                                      *)

(* The value of an event is of its kind.                                   *)
LEMMA EventTyped ==
    ASSUME TypeOK, NEW i \in Positions
    PROVE  /\ log[i] \in Event /\ i \in 1..MaxLog /\ i \in 0..MaxLog /\ i \in 1..Len(log)
           /\ run[i] \in Labels /\ seen[i] \in Owners \union {Nobody}
           /\ gone[i] \in SUBSET (1..MaxLog)
           /\ log[i].kind = "Transfer" => log[i].value \in Owners \union {Nobody}
           /\ log[i].kind = "SplitsSet" => log[i].value \in Splits \union {NoSplits}
           /\ log[i].kind = "Metadata" =>
                 /\ log[i].value \in Document /\ log[i].value.type \in Kinds
                 /\ log[i].value.splits \in Splits \union {NoSplits}
<1>1. /\ log[i] \in Event /\ run[i] \in Labels /\ seen[i] \in Owners \union {Nobody}
      /\ gone[i] \in SUBSET (1..MaxLog)
  BY ElementOfSeq DEF TypeOK, Positions, Labels
<1>2. i \in 1..MaxLog /\ i \in 0..MaxLog /\ i \in 1..Len(log)
  BY NftAssumption, LenProperties DEF TypeOK, Positions
<1>. QED
  BY <1>1, <1>2, NftAssumption DEF Event, Document

(* A new event leaves those before it as they are, and is to be handled.   *)
LEMMA MineAppends ==
    ASSUME TypeOK, NEW ev \in Event, Mine(ev)
    PROVE  /\ Len(log)' = Len(log) + 1 /\ Len(log) \in Nat
           /\ Positions' = Positions \union {Len(log) + 1}
           /\ \A i \in Positions : /\ log'[i] = log[i] /\ run'[i] = run[i]
                                   /\ seen'[i] = seen[i] /\ gone'[i] = gone[i]
                                   /\ i \in Int /\ i <= Len(log)
           /\ log'[Len(log) + 1] = ev /\ run'[Len(log) + 1] = "todo"
           /\ log' \in Seq(Event) /\ Len(log') <= MaxLog
           /\ run' \in Seq(Labels) /\ Len(run)' = Len(log)'
           /\ seen' \in Seq(Owners \union {Nobody}) /\ Len(seen)' = Len(log)'
           /\ gone' \in Seq(SUBSET (1..MaxLog)) /\ Len(gone)' = Len(log)'
<1>1. /\ Len(log)' = Len(log) + 1 /\ log' \in Seq(Event) /\ log'[Len(log) + 1] = ev
      /\ \A i \in 1..Len(log) : log'[i] = log[i]
  BY AppendProperties DEF TypeOK, Mine
<1>2. /\ Len(run)' = Len(log) + 1 /\ run' \in Seq(Labels) /\ run'[Len(log) + 1] = "todo"
      /\ \A i \in 1..Len(log) : run'[i] = run[i]
  BY AppendProperties DEF TypeOK, Mine, Labels
<1>3. /\ Len(seen)' = Len(log) + 1 /\ seen' \in Seq(Owners \union {Nobody})
      /\ \A i \in 1..Len(log) : seen'[i] = seen[i]
  BY AppendProperties DEF TypeOK, Mine
<1>4. /\ Len(gone)' = Len(log) + 1 /\ gone' \in Seq(SUBSET (1..MaxLog))
      /\ \A i \in 1..Len(log) : gone'[i] = gone[i]
  BY AppendProperties DEF TypeOK, Mine
<1>5. Len(log) \in Nat
  BY LenProperties DEF TypeOK
<1>. QED
  BY <1>1, <1>2, <1>3, <1>4, <1>5, NftAssumption DEF Mine, Positions, TypeOK

(* The last event of a kind before a position is one of them.              *)
LEMMA LastIsBefore ==
    ASSUME TypeOK, NEW i, NEW kind, Before(i, kind) # {}
    PROVE  Last(Before(i, kind)) \in Before(i, kind)
<1>1. Before(i, kind) \subseteq 1..Len(log) /\ Len(log) \in Nat
  BY LenProperties DEF Before, Positions, TypeOK
<1>2. \E k \in Before(i, kind) : \A m \in Before(i, kind) : m <= k
  BY <1>1, NewestExists
<1>. QED
  BY <1>2 DEF Last

LEMMA LastTyped ==
    ASSUME TypeOK, NEW i, NEW kind, NEW none, NEW S, none \in S,
           \A k \in Positions : log[k].kind = kind => log[k].value \in S
    PROVE  LastOf(i, kind, none) \in S
  BY LastIsBefore DEF LastOf, Before

LEMMA ChainTyped ==
    ASSUME TypeOK
    PROVE  /\ OwnerOf \in Owners \union {Nobody} /\ SplitsHash \in Splits \union {NoSplits}
           /\ \A i : FromOf(i) \in Owners \union {Nobody}
<1>1. \A i : LastOf(i, "Transfer", Nobody) \in Owners \union {Nobody}
  BY LastTyped, EventTyped
<1>2. SplitsHash \in Splits \union {NoSplits}
  BY LastTyped, EventTyped DEF SplitsHash
<1>. QED
  BY <1>1, <1>2 DEF OwnerOf, FromOf

(* Appending an event leaves what was the last before it.                  *)
LEMMA EarlierKept ==
    ASSUME TypeOK, NEW ev \in Event, Mine(ev), NEW i \in Positions \union {Len(log) + 1},
           NEW kind, NEW none
    PROVE  LastOf(i, kind, none)' = LastOf(i, kind, none)
<1>1. Before(i, kind)' = Before(i, kind)
  BY MineAppends DEF Before
<1>2. Before(i, kind) # {} => log'[Last(Before(i, kind))] = log[Last(Before(i, kind))]
  <2>1. Before(i, kind) # {} => Last(Before(i, kind)) \in Positions
    BY LastIsBefore DEF Before
  <2>. QED
    BY <2>1, MineAppends
<1>3. LastOf(i, kind, none)' = IF Before(i, kind)' = {} THEN none
                               ELSE log'[Last(Before(i, kind)')].value
  BY DEF LastOf, Last
<1>. QED
  BY <1>1, <1>2, <1>3 DEF LastOf

(* A new event of a kind is the last of it, and of no other kind.          *)
LEMMA LastAppended ==
    ASSUME TypeOK, NEW ev \in Event, Mine(ev), NEW kind, NEW none
    PROVE  LastOf(Len(log) + 1, kind, none)' =
               IF ev.kind = kind THEN ev.value ELSE LastOf(Len(log) + 1, kind, none)
<1>. DEFINE old == Before(Len(log) + 1, kind)
            new == Before(Len(log) + 1, kind)'
<1>1. LastOf(Len(log) + 1, kind, none)' = IF new = {} THEN none ELSE log'[Last(new)].value
  BY DEF LastOf, Last
<1>2. new = {k \in Positions' : log'[k].kind = kind}
  BY MineAppends DEF Before, Positions
<1>3. old = {k \in Positions : log[k].kind = kind}
  BY MineAppends DEF Before, Positions
<1>4. CASE ev.kind = kind
  <2>1. Len(log) + 1 \in new /\ \A k \in new : k \in Int /\ k <= Len(log) + 1
    BY <1>2, <1>4, MineAppends
  <2>2. Last(new) = Len(log) + 1
    BY <2>1 DEF Last
  <2>. HIDE DEF new
  <2>. QED
    BY <1>1, <1>4, <2>1, <2>2, MineAppends
<1>5. CASE ev.kind # kind
  <2>1. new = old
    BY <1>2, <1>3, <1>5, MineAppends
  <2>2. old # {} => log'[Last(old)] = log[Last(old)]
    BY <1>3, LastIsBefore, MineAppends
  <2>3. LastOf(Len(log) + 1, kind, none) = IF old = {} THEN none ELSE log[Last(old)].value
    BY DEF LastOf
  <2>. HIDE DEF old, new
  <2>. QED
    BY <1>1, <1>5, <2>1, <2>2, <2>3
<1>. QED
  BY <1>4, <1>5

(* While the log is the same, so is what it says.                          *)
LEMMA ChainKept ==
    ASSUME log' = log
    PROVE  /\ OwnerOf' = OwnerOf /\ SplitsHash' = SplitsHash /\ Positions' = Positions
           /\ \A i : FromOf(i)' = FromOf(i)
  BY DEF OwnerOf, SplitsHash, FromOf, LastOf, Last, Before, Positions

(* What the handler of event i does to the runs.                           *)
LEMMA GotoRun ==
    ASSUME TypeOK, NEW i \in Positions, NEW label \in Labels, Goto(i, label)
    PROVE  /\ run' \in Seq(Labels) /\ Len(run') = Len(log)
           /\ \A k \in Positions : run'[k] = IF k = i THEN label ELSE run[k]
  BY ExceptSeq DEF TypeOK, Positions, Goto, Labels
----------------------------------------------------------------------------
(* Type correctness.                                                       *)

LEMMA AbsentTyped == Absent \in Row
  BY NftAssumption DEF Absent, Row

(* What each of the writes makes of a row is a row.                        *)
LEMMA TransferredTyped ==
    ASSUME TypeOK, NEW i \in Positions, log[i].kind = "Transfer", NEW r \in Row
    PROVE  Transferred(i, r) \in Row
<1>1. /\ log[i].value \in Owners \union {Nobody} /\ FromOf(i) \in Owners \union {Nobody}
      /\ i \in 0..MaxLog /\ TransferVisible(i) \in BOOLEAN
  BY EventTyped, ChainTyped DEF TransferVisible
<1>3. /\ r.creator \in Owners \union {Nobody} /\ r.owner \in Owners \union {Nobody}
      /\ r.prev \in Owners \union {Nobody} /\ r.visible \in BOOLEAN /\ r.version \in 0..MaxLog
  BY DEF Row
<1>. DEFINE current == log[i].value = OwnerOf
            c == IF IsMint(i) THEN log[i].value ELSE r.creator
            o == IF current THEN log[i].value ELSE r.owner
            p == IF current THEN FromOf(i) ELSE r.prev
            b == IF current /\ i > r.version THEN TransferVisible(i) ELSE r.visible
            v == IF current THEN i ELSE r.version
<1>4. /\ c \in Owners \union {Nobody} /\ o \in Owners \union {Nobody}
      /\ p \in Owners \union {Nobody} /\ b \in BOOLEAN /\ v \in 0..MaxLog
  BY <1>1, <1>3
<1>5. Transferred(i, r) =
         [r EXCEPT !.creator = c, !.owner = o, !.prev = p, !.visible = b, !.version = v]
  BY DEF Transferred
<1>. HIDE DEF c, o, p, b, v
<1>6. [r EXCEPT !.creator = c, !.owner = o, !.prev = p, !.visible = b, !.version = v] \in Row
  BY <1>4 DEF Row
<1>. QED
  BY <1>5, <1>6

LEMMA DocumentTyped ==
    ASSUME TypeOK, NEW i \in Positions, log[i].kind = "Metadata", NEW r \in Row
    PROVE  /\ \A b \in BOOLEAN :
                 [r EXCEPT !.owner = seen[i], !.version = i, !.visible = b] \in Row
           /\ [Absent EXCEPT !.there = TRUE, !.owner = seen[i], !.version = i,
                             !.visible = DocumentVisible(i)] \in Row
           /\ DocumentVisible(i) \in BOOLEAN /\ log[i].value.splits \in Splits \union {NoSplits}
<1>1. seen[i] \in Owners \union {Nobody} /\ i \in 0..MaxLog /\ log[i].value \in Document
  BY EventTyped
<1>2. DocumentVisible(i) \in BOOLEAN
  BY <1>1 DEF DocumentVisible, Document
<1>3. \A b \in BOOLEAN : [r EXCEPT !.owner = seen[i], !.version = i, !.visible = b] \in Row
  BY <1>1 DEF Row
<1>4. [Absent EXCEPT !.there = TRUE, !.owner = seen[i], !.version = i,
                     !.visible = DocumentVisible(i)] \in Row
  BY <1>1, <1>2, AbsentTyped DEF Row
<1>. QED
  BY <1>2, <1>3, <1>4, EventTyped

LEMMA TypeInv == TypeOK /\ [Next]_vars => TypeOK'
<1> SUFFICES ASSUME TypeOK, [Next]_vars PROVE TypeOK'
  OBVIOUS
<1>1. ASSUME NEW ev \in Event, Mine(ev) PROVE TypeOK'
  BY <1>1, MineAppends DEF TypeOK, Mine, history, Labels
<1>2. ASSUME NEW i \in Positions, NEW label \in Labels, Goto(i, label), log' = log,
             \/ seen' = seen
             \/ \E o \in Owners \union {Nobody} : seen' = [seen EXCEPT ![i] = o],
             rows' \in [Kinds -> Row],
             listed' \subseteq listed \union {i}, i \in listed' => log[i].kind = "Metadata",
             gone' = gone \/ \E G \in SUBSET (1..MaxLog) : gone' = [gone EXCEPT ![i] = G],
             raced' \in BOOLEAN, decided' \in [Kinds -> 0..MaxLog]
      PROVE  TypeOK'
  <2>1. seen' \in Seq(Owners \union {Nobody}) /\ Len(seen') = Len(log)
    <3>1. CASE seen' = seen
      BY <3>1 DEF TypeOK
    <3>2. ASSUME NEW o \in Owners \union {Nobody}, seen' = [seen EXCEPT ![i] = o]
          PROVE  seen' \in Seq(Owners \union {Nobody}) /\ Len(seen') = Len(log)
      BY <3>2, ExceptSeq DEF TypeOK, Positions
    <3>. QED
      BY <1>2, <3>1, <3>2
  <2>2. gone' \in Seq(SUBSET (1..MaxLog)) /\ Len(gone') = Len(log)
    <3>1. CASE gone' = gone
      BY <3>1 DEF TypeOK
    <3>2. ASSUME NEW G \in SUBSET (1..MaxLog), gone' = [gone EXCEPT ![i] = G]
          PROVE  gone' \in Seq(SUBSET (1..MaxLog)) /\ Len(gone') = Len(log)
      BY <3>2, ExceptSeq DEF TypeOK, Positions
    <3>. QED
      BY <1>2, <3>1, <3>2
  <2>3. listed' \subseteq {j \in Positions' : log'[j].kind = "Metadata"}
    BY <1>2 DEF TypeOK, Positions
  <2>4. run' \in Seq(Labels) /\ Len(run') = Len(log)
    BY <1>2, GotoRun
  <2>. QED
    BY <1>2, <2>1, <2>2, <2>3, <2>4 DEF TypeOK, Labels
<1>3. ASSUME NEW i \in Positions,
             \/ CheckDocument(i) \/ ReadOwner(i) \/ DeleteReceivers(i)
             \/ CheckSplits(i) \/ Abort(i)
      PROVE  TypeOK'
  <2>1. \E label \in Labels : Goto(i, label)
    BY <1>3 DEF CheckDocument, ReadOwner, DeleteReceivers, CheckSplits, Abort, Labels
  <2>2. UNCHANGED <<log, rows, listed, raced, decided>>
    BY <1>3 DEF CheckDocument, ReadOwner, DeleteReceivers, CheckSplits, Abort, history
  <2>3. seen' = seen \/ \E o \in Owners \union {Nobody} : seen' = [seen EXCEPT ![i] = o]
    BY <1>3, ChainTyped DEF CheckDocument, ReadOwner, DeleteReceivers, CheckSplits, Abort
  <2>4. listed \in SUBSET (1..MaxLog)
    BY EventTyped DEF TypeOK
  <2>5. gone' = gone \/ \E G \in SUBSET (1..MaxLog) : gone' = [gone EXCEPT ![i] = G]
    BY <1>3, <2>4 DEF CheckDocument, ReadOwner, DeleteReceivers, CheckSplits, Abort
  <2>. QED
    BY <1>2, <2>1, <2>2, <2>3, <2>5 DEF TypeOK
<1>4. ASSUME NEW i \in Positions, NEW k \in Kinds, Decide(i, k) \/ decided' = decided
      PROVE  decided' \in [Kinds -> 0..MaxLog]
  <2>1. i \in 0..MaxLog /\ decided \in [Kinds -> 0..MaxLog]
    BY EventTyped DEF TypeOK
  <2>. QED
    BY <1>4, <2>1 DEF Decide
<1>5. ASSUME NEW i \in Positions, NEW k \in Kinds, Transfer(i, k) PROVE TypeOK'
  <2>1. Transferred(i, rows[k]) \in Row
    BY <1>5, TransferredTyped DEF Transfer, Is, TypeOK
  <2>2. rows' \in [Kinds -> Row]
    BY <1>5, <2>1 DEF Transfer, TypeOK
  <2>3. decided' \in [Kinds -> 0..MaxLog]
    BY <1>4, <1>5 DEF Transfer
  <2>. QED
    BY <1>2, <1>5, <2>2, <2>3 DEF Transfer, TypeOK, Labels
<1>6. ASSUME NEW i \in Positions, log[i].kind = "Metadata", FinishDocument(i),
             rows' \in [Kinds -> Row], decided' \in [Kinds -> 0..MaxLog]
      PROVE  TypeOK'
  <2>1. listed' \subseteq listed \union {i}
    BY <1>6 DEF FinishDocument
  <2>2. raced' \in BOOLEAN
    BY <1>6 DEF FinishDocument, TypeOK
  <2>3. \E G \in SUBSET (1..MaxLog) : gone' = [gone EXCEPT ![i] = G]
    BY <1>6 DEF FinishDocument
  <2>. QED
    BY <1>2, <1>6, <2>1, <2>2, <2>3 DEF FinishDocument, Labels
<1>7. ASSUME NEW i \in Positions, NEW k \in Kinds, CreateAccount(i, k) PROVE TypeOK'
  <2>1. rows' \in [Kinds -> Row]
    BY <1>7, DocumentTyped, AbsentTyped DEF CreateAccount, Is, TypeOK
  <2>2. decided' \in [Kinds -> 0..MaxLog]
    BY <1>4, <1>7 DEF CreateAccount
  <2>. QED
    BY <1>6, <1>7, <2>1, <2>2 DEF CreateAccount, Is
<1>8. ASSUME NEW i \in Positions, UpdateDripList(i) PROVE TypeOK'
  <2>1. rows["dripList"] \in Row /\ rows["dripList"].visible \in BOOLEAN
    BY DEF TypeOK, Kinds, Row
  <2>2. rows' \in [Kinds -> Row]
    <3>1. ASSUME NEW b \in BOOLEAN
          PROVE  [rows["dripList"] EXCEPT !.owner = seen[i], !.version = i, !.visible = b]
                    \in Row
      BY <1>8, <2>1, DocumentTyped DEF UpdateDripList, Is
    <3>2. DocumentVisible(i) \in BOOLEAN
      BY <1>8, AbsentTyped, DocumentTyped DEF UpdateDripList, Is
    <3>3. \E b \in BOOLEAN : rows' = [rows EXCEPT !["dripList"] =
             [@ EXCEPT !.owner = seen[i], !.version = i, !.visible = b]]
      <4>1. CASE i > rows["dripList"].version
        BY <1>8, <3>2, <4>1 DEF UpdateDripList
      <4>2. CASE ~(i > rows["dripList"].version)
        <5>. DEFINE b == rows["dripList"].visible
        <5>1. rows' = [rows EXCEPT !["dripList"] =
                         [@ EXCEPT !.owner = seen[i], !.version = i, !.visible = b]]
          BY <1>8, <4>2 DEF UpdateDripList
        <5>. HIDE DEF b
        <5>2. b \in BOOLEAN
          BY <2>1 DEF b
        <5>. QED
          BY <5>1, <5>2
      <4>. QED
        BY <4>1, <4>2
    <3>. QED
      BY <3>1, <3>3 DEF TypeOK
  <2>3. decided' \in [Kinds -> 0..MaxLog]
    BY <1>4, <1>8 DEF UpdateDripList, Kinds
  <2>. QED
    BY <1>6, <1>8, <2>2, <2>3 DEF UpdateDripList, Is
<1>9. ASSUME NEW i \in Positions, UpdateEcosystem(i) PROVE TypeOK'
  <2>1. rows["ecosystem"] \in Row
    BY DEF TypeOK, Kinds
  <2>2. rows' \in [Kinds -> Row]
    <3>1. [rows["ecosystem"] EXCEPT !.owner = seen[i], !.version = i,
                                    !.visible = DocumentVisible(i)] \in Row
      BY <1>9, <2>1, DocumentTyped DEF UpdateEcosystem, Is
    <3>. QED
      BY <1>9, <3>1 DEF UpdateEcosystem, TypeOK
  <2>3. decided' \in [Kinds -> 0..MaxLog]
    BY <1>4, <1>9 DEF UpdateEcosystem, Kinds
  <2>. QED
    BY <1>6, <1>9, <2>2, <2>3 DEF UpdateEcosystem, Is
<1>10. ASSUME NEW i \in Positions, NEW k \in Kinds, SetIsValidFlag(i, k) PROVE TypeOK'
  <2>1. rows' \in [Kinds -> Row]
    BY <1>10 DEF SetIsValidFlag, TypeOK, Row
  <2>2. raced' \in BOOLEAN
    BY <1>10 DEF SetIsValidFlag, TypeOK
  <2>. QED
    BY <1>2, <1>10, <2>1, <2>2 DEF SetIsValidFlag, TypeOK, Labels
<1>11. CASE UNCHANGED vars
  BY <1>11 DEF vars, TypeOK, Positions
<1>. QED
  BY <1>1, <1>3, <1>5, <1>7, <1>8, <1>9, <1>10, <1>11 DEF Next, Handle, Write

LEMMA InitTyped == Init => TypeOK
<1>1. /\ << >> \in Seq(Event) /\ << >> \in Seq(Labels) /\ << >> \in Seq(Owners \union {Nobody})
      /\ << >> \in Seq(SUBSET (1..MaxLog)) /\ Len(<< >>) = 0
  BY EmptySeq
<1>2. 0 <= MaxLog /\ 0 \in 0..MaxLog
  BY NftAssumption
<1>. QED
  BY <1>1, <1>2, AbsentTyped DEF Init, TypeOK, Labels

(* Type correctness, for every order in which transfers, documents and     *)
(* splits are handled.                                                     *)
THEOREM TypeCorrect == Spec => []TypeOK
BY InitTyped, TypeInv, PTL DEF Spec

----------------------------------------------------------------------------
(* The inductive invariant.                                                *)

LEMMA InitInv == ASSUME Init, TypeOK PROVE IInv /\ Positions = {}
<1>1. Positions = {}
  BY EmptySeq DEF Init, Positions
<1>2. Found = {}
  BY DEF Init, Found, Absent
<1>3. SplitsHash = NoSplits
  BY <1>1 DEF SplitsHash, LastOf, Before
<1>4. \A k \in Kinds : rows[k].creator = Nobody
  BY DEF Init, Absent
<1>5. ReceiversInv
  BY <1>1 DEF Init, ReceiversInv, ListedRows, ListedOnce, Replaces, OneReplaces, DeletesOwn
<1>. QED
  BY <1>1, <1>2, <1>3, <1>4, <1>5 DEF Init, IInv, MintFirst, CreatorSet, RowsFromLog, MintHandled,
     TransfersWait, PrevFollows, OwnerFollows, SplitsFollow, ValidFollows

(* Once the mint is mined, some transfer made the owner the owner.         *)
LEMMA OwnerReceived ==
    ASSUME TypeOK, MintFirst, Positions # {}
    PROVE  \E i \in Positions : log[i].kind = "Transfer" /\ log[i].value = OwnerOf
<1>. DEFINE all == Before(Len(log) + 1, "Transfer")
<1>1. Len(log) \in Nat
  BY LenProperties DEF TypeOK
<1>2. 1 \in all
  BY <1>1 DEF MintFirst, Before, Positions
<1>3. Last(all) \in all
  BY <1>2, LastIsBefore
<1>4. OwnerOf = log[Last(all)].value
  BY <1>2 DEF OwnerOf, LastOf
<1>. QED
  BY <1>3, <1>4 DEF Before

(* What is pending stays so until its own run is done.                     *)
LEMMA StillPending ==
    ASSUME TypeOK, NEW i \in Positions, NEW label \in Labels, Goto(i, label), log' = log,
           NEW kind, NEW value, Pending(kind, value),
           label = "done" => log[i].kind # kind \/ log[i].value # value
    PROVE  Pending(kind, value)'
<1>1. PICK k \in Positions : log[k].kind = kind /\ log[k].value = value /\ run[k] # "done"
  BY DEF Pending
<1>2. run'[k] # "done" /\ Positions' = Positions
  BY <1>1, GotoRun DEF Positions
<1>. QED
  BY <1>1, <1>2 DEF Pending

(* While the documents in the table are the same, so are the receivers.    *)
LEMMA ReceiversKept ==
    ASSUME listed' = listed, \A i \in listed : log'[i] = log[i], NEW splits
    PROVE  Receivers(splits)' = Receivers(splits)
<1>1. NotEmpty' = NotEmpty
  BY DEF NotEmpty
<1>2. \A i \in NotEmpty : log'[i] = log[i]
  BY DEF NotEmpty
<1>. QED
  BY <1>1, <1>2 DEF Receivers

LEMMA MineInv == ASSUME IInv, ReceiversInv', NEW ev \in Event, Mine(ev) PROVE IInv'
<1>. USE DEF IInv
<1>. DEFINE n == Len(log) + 1
<1>1. TypeOK'
  BY TypeInv DEF Next
<1>2. UNCHANGED <<rows, listed, raced>> /\ Found' = Found
  BY DEF Mine, history, Found
<1>3. /\ n \in Nat /\ n >= 1 /\ Positions' = Positions \union {n} /\ n \notin Positions
      /\ \A i \in Positions : log'[i] = log[i] /\ run'[i] = run[i] /\ 1 <= i
      /\ log'[n] = ev /\ run'[n] = "todo" /\ (n # 1 => 1 \in Positions) /\ Positions = 1..(n - 1)
  BY MineAppends DEF Positions
<1>4. OwnerOf' = IF ev.kind = "Transfer" THEN ev.value ELSE OwnerOf
  BY LastAppended DEF OwnerOf
<1>5. SplitsHash' = IF ev.kind = "SplitsSet" THEN ev.value ELSE SplitsHash
  BY LastAppended DEF SplitsHash
<1>6. \A i \in Positions : FromOf(i)' = FromOf(i)
  BY EarlierKept DEF FromOf
<1>7. \A i \in {n} : FromOf(i)' = OwnerOf
  BY EarlierKept DEF FromOf, OwnerOf
<1>8. ASSUME NEW kind, NEW value, Pending(kind, value) PROVE Pending(kind, value)'
  BY <1>3, <1>8 DEF Pending
<1>9. Pending(ev.kind, ev.value)'
  BY <1>3 DEF Pending
<1>10. MintFirst'
  <2>1. CASE n = 1
    <3>1. OwnerOf = Nobody
      BY <2>1, <1>3 DEF OwnerOf, LastOf, Before, n
    <3>. QED
      BY <2>1, <1>3, <3>1 DEF MintFirst, Mine
  <2>2. CASE n # 1
    <3>1. OwnerOf # Nobody
      BY <2>2, EmptySeq DEF Mine
    <3>. QED
      BY <2>2, <1>3, <1>6, <1>7, <3>1 DEF MintFirst
  <2>. QED
    BY <2>1, <2>2
<1>11. CreatorSet' /\ RowsFromLog' /\ MintHandled' /\ TransfersWait'
  BY <1>2, <1>3 DEF CreatorSet, RowsFromLog, MintHandled, TransfersWait
<1>12. PrevFollows'
  <2>1. CASE ev.kind = "Transfer"
    BY <1>4, <1>9, <2>1 DEF PrevFollows
  <2>2. CASE ev.kind # "Transfer"
    <3>1. ASSUME NEW prev, Received(prev) PROVE Received(prev)'
      BY <1>3, <1>4, <1>6, <2>2, <3>1 DEF Received
    <3>. QED
      BY <1>2, <1>4, <1>8, <2>2, <3>1 DEF PrevFollows
  <2>. QED
    BY <2>1, <2>2
<1>13. OwnerFollows'
  BY <1>2, <1>4, <1>8, <1>9 DEF OwnerFollows
<1>14. SplitsFollow' /\ ValidFollows'
  <2>1. \A splits : Receivers(splits)' = Receivers(splits)
    BY <1>2, <1>3, ReceiversKept DEF TypeOK
  <2>. QED
    BY <1>2, <1>5, <1>8, <1>9, <2>1 DEF SplitsFollow, ValidFollows
<1>. QED
  BY <1>1, <1>10, <1>11, <1>12, <1>13, <1>14
(* Steps that only move a run, and do not end it while it is up to date.   *)
LEMMA MoveInv ==
    ASSUME IInv, TypeOK', ReceiversInv', NEW i \in Positions, NEW label \in Labels,
           Goto(i, label), UNCHANGED <<log, rows, listed, raced>>,
           label = "done" =>
              /\ log[i].kind # "Transfer"
              /\ log[i].kind = "SplitsSet" => log[i].value # SplitsHash
    PROVE  IInv'
<1>. USE DEF IInv
<1>1. /\ OwnerOf' = OwnerOf /\ SplitsHash' = SplitsHash /\ Positions' = Positions
      /\ \A k : FromOf(k)' = FromOf(k)
      /\ Found' = Found
  BY ChainKept DEF Found
<1>2. \A k \in Positions : run'[k] = IF k = i THEN label ELSE run[k]
  BY GotoRun
<1>3. ASSUME NEW value, Pending("Transfer", value) PROVE Pending("Transfer", value)'
  BY <1>3, StillPending
<1>4. Pending("SplitsSet", SplitsHash) => Pending("SplitsSet", SplitsHash)'
  BY <1>1, StillPending
<1>5. ASSUME NEW prev, Received(prev) PROVE Received(prev)'
  BY <1>1, <1>5 DEF Received
<1>6. MintFirst' /\ CreatorSet' /\ RowsFromLog'
  BY <1>1 DEF MintFirst, CreatorSet, RowsFromLog
<1>7. MintHandled' /\ TransfersWait'
  BY <1>1, <1>2 DEF MintHandled, TransfersWait, MintFirst
<1>8. PrevFollows' /\ OwnerFollows'
  BY <1>1, <1>3, <1>5 DEF PrevFollows, OwnerFollows
<1>9. SplitsFollow' /\ ValidFollows'
  BY <1>1, <1>4, ReceiversKept DEF SplitsFollow, ValidFollows
<1>. QED
  BY <1>6, <1>7, <1>8, <1>9

(* A transfer writes the row, and leaves the receivers.                    *)
LEMMA TransferInv ==
    ASSUME IInv, TypeOK', ReceiversInv', NEW i \in Positions, NEW k \in Kinds, Transfer(i, k)
    PROVE  IInv'
<1>. USE DEF IInv
<1>1. /\ log' = log /\ listed' = listed /\ raced' = raced /\ Found = {k}
      /\ Goto(i, "done") /\ log[i].kind = "Transfer"
  BY DEF Transfer, Is
<1>2. /\ OwnerOf' = OwnerOf /\ SplitsHash' = SplitsHash /\ Positions' = Positions
      /\ \A m : FromOf(m)' = FromOf(m)
  BY <1>1, ChainKept
<1>3. \A m \in Positions : run'[m] = IF m = i THEN "done" ELSE run[m]
  BY <1>1, GotoRun DEF Labels
<1>4. rows[k] \in Row
  BY DEF TypeOK
<1>5. /\ rows' = [rows EXCEPT ![k] = rows'[k]]
      /\ rows'[k].there = rows[k].there /\ rows'[k].valid = rows[k].valid
      /\ rows'[k].creator = IF IsMint(i) THEN log[i].value ELSE rows[k].creator
      /\ rows'[k].owner = IF log[i].value = OwnerOf THEN OwnerOf ELSE rows[k].owner
      /\ rows'[k].prev = IF log[i].value = OwnerOf THEN FromOf(i) ELSE rows[k].prev
  <2>1. rows' = [rows EXCEPT ![k] = Transferred(i, rows[k])] /\ rows \in [Kinds -> Row]
    BY DEF Transfer, TypeOK
  <2>2. rows'[k] = Transferred(i, rows[k])
    BY <2>1
  <2>. QED
    BY <1>4, <2>1, <2>2 DEF Transferred, Row
<1>6. Found' = Found
  BY <1>1, <1>5 DEF Found, TypeOK
<1>7. IsMint(i) <=> i = 1
  <2>1. i \in Int /\ i >= 1
    BY LenProperties DEF Positions, TypeOK
  <2>2. i = 1 => FromOf(i) = Nobody
    BY DEF FromOf, LastOf, Before, Positions
  <2>. QED
    BY <2>1, <2>2 DEF MintFirst, IsMint
<1>8. MintFirst'
  BY <1>1, <1>2 DEF MintFirst
<1>9. CreatorSet' /\ RowsFromLog'
  BY <1>1, <1>2, <1>5, <1>6, <1>7 DEF CreatorSet, RowsFromLog, TypeOK
<1>10. MintHandled' /\ TransfersWait'
  BY <1>1, <1>2, <1>3, <1>5, <1>6, <1>7 DEF MintHandled, TransfersWait
<1>11. ASSUME log[i].value # OwnerOf, Pending("Transfer", OwnerOf)
       PROVE  Pending("Transfer", OwnerOf)'
  BY <1>1, <1>2, <1>11, StillPending DEF Labels
<1>12. PrevFollows'
  <2>1. ASSUME NEW prev, Received(prev) PROVE Received(prev)'
    BY <1>1, <1>2, <2>1 DEF Received
  <2>2. CASE log[i].value = OwnerOf
    <3>1. Received(FromOf(i))
      BY <1>1, <2>2 DEF Received
    <3>. QED
      BY <1>1, <1>2, <1>5, <1>6, <2>1, <2>2, <3>1 DEF PrevFollows
  <2>3. CASE log[i].value # OwnerOf
    BY <1>1, <1>2, <1>5, <1>6, <1>11, <2>1, <2>3 DEF PrevFollows
  <2>. QED
    BY <2>2, <2>3
<1>13. OwnerFollows'
  BY <1>1, <1>2, <1>5, <1>6, <1>11 DEF OwnerFollows
<1>14. Pending("SplitsSet", SplitsHash) => Pending("SplitsSet", SplitsHash)'
  BY <1>1, <1>2, StillPending DEF Labels
<1>15. SplitsFollow' /\ ValidFollows'
  BY <1>1, <1>2, <1>5, <1>6, <1>14, ReceiversKept DEF SplitsFollow, ValidFollows
<1>. QED
  BY <1>8, <1>9, <1>10, <1>12, <1>13, <1>15

(* A document writes the row of its kind and the receivers.  A new row has *)
(* no creator and no previous owner: its transfers are still to be handled. *)
LEMMA DocumentInv ==
    ASSUME IInv, TypeOK', ReceiversInv', NEW i \in Positions, NEW k \in Kinds,
           Is(i, "Metadata", "replacing"), log[i].value.type = k, FinishDocument(i),
           \A m \in Kinds \ {k} : rows'[m] = rows[m],
           rows'[k].there,
           IF rows[k].there
           THEN /\ rows'[k].creator = rows[k].creator /\ rows'[k].prev = rows[k].prev
                /\ rows'[k].valid = rows[k].valid
                /\ rows'[k].owner \in {seen[i], rows[k].owner}
           ELSE rows'[k].creator = Nobody
    PROVE  IInv'
<1>. USE DEF IInv
<1>1. /\ log' = log /\ Goto(i, "done") /\ log[i].kind = "Metadata"
      /\ listed' = (listed \ gone[i]) \union {i}
      /\ raced' = (raced \/ seen[i] # OwnerOf \/ log[i].value.splits # SplitsHash)
  BY DEF FinishDocument, Is
<1>2. /\ OwnerOf' = OwnerOf /\ SplitsHash' = SplitsHash /\ Positions' = Positions
      /\ \A m : FromOf(m)' = FromOf(m)
  BY <1>1, ChainKept
<1>3. \A m \in Positions : run'[m] = IF m = i THEN "done" ELSE run[m]
  BY <1>1, GotoRun DEF Labels
<1>4. Found' = Found \union {k}
  BY DEF Found
<1>5. 1 \in Positions
  BY LenProperties DEF Positions, TypeOK
<1>6. ASSUME NEW value, Pending("Transfer", value) PROVE Pending("Transfer", value)'
  BY <1>1, <1>6, StillPending DEF Labels
<1>7. Pending("SplitsSet", SplitsHash) => Pending("SplitsSet", SplitsHash)'
  BY <1>1, <1>2, StillPending DEF Labels
<1>8. ASSUME NEW prev, Received(prev) PROVE Received(prev)'
  BY <1>1, <1>2, <1>8 DEF Received
<1>9. MintFirst'
  BY <1>1, <1>2 DEF MintFirst
<1>10. CreatorSet' /\ RowsFromLog'
  BY <1>1, <1>2, <1>5 DEF CreatorSet, RowsFromLog
<1>11. MintHandled'
  <2>1. i # 1
    BY <1>1, <1>5 DEF MintFirst
  <2>. QED
    BY <1>1, <1>2, <1>3, <1>4, <2>1 DEF MintHandled, Found
<1>12. TransfersWait'
  BY <1>4 DEF TransfersWait
<1>13. Found = {} => Pending("Transfer", OwnerOf)
  BY <1>5, OwnerReceived DEF TransfersWait, Pending
<1>14. PrevFollows'
  <2> SUFFICES ASSUME NEW m \in Kinds, Found' = {m}
               PROVE  \/ Received(rows[m].prev)'
                      \/ Pending("Transfer", OwnerOf)'
    BY <1>2 DEF PrevFollows
  <2>1. m = k /\ Found \in {{}, {k}}
    BY <1>4
  <2>2. CASE Found = {}
    BY <1>2, <1>6, <1>13, <2>2
  <2>3. CASE Found = {k}
    BY <1>2, <1>6, <1>8, <2>1, <2>3 DEF PrevFollows, Found
  <2>. QED
    BY <2>1, <2>2, <2>3
<1>15. OwnerFollows'
  <2> SUFFICES ASSUME NEW m \in Kinds, Found' = {m}, ~raced'
               PROVE  rows'[m].owner = OwnerOf \/ Pending("Transfer", OwnerOf)'
    BY <1>2 DEF OwnerFollows
  <2>1. m = k /\ Found \in {{}, {k}}
    BY <1>4
  <2>2. seen[i] = OwnerOf /\ ~raced
    BY <1>1
  <2>3. CASE Found = {}
    BY <1>2, <1>6, <1>13, <2>3
  <2>4. CASE Found = {k}
    BY <1>2, <1>6, <2>1, <2>2, <2>4 DEF OwnerFollows, Found
  <2>. QED
    BY <2>1, <2>3, <2>4
<1>16. SplitsFollow'
  <2> SUFFICES ASSUME NEW m \in Kinds, Found' = {m}, ~raced' PROVE Receivers(SplitsHash)'
    BY <1>2 DEF SplitsFollow
  <2>1. m = k /\ Found \subseteq {k} /\ log[i].value.splits = SplitsHash
    BY <1>1, <1>4
  <2>2. \A j \in listed : j \in gone[i]
    <3>1. \A j \in listed : log[j].value.type \in Found
      BY EventTyped DEF ReceiversInv, ListedRows, Found, TypeOK
    <3>2. Replaces(i)
      BY DEF Replaces
    <3>. QED
      BY <2>1, <3>1, <3>2 DEF ReceiversInv, DeletesOwn
  <2>3. listed' = {i}
    BY <1>1, <2>2
  <2>4. NotEmpty' = {j \in {i} : log[j].value.splits # NoSplits}
    BY <1>1, <2>3 DEF NotEmpty
  <2>5. Receivers(SplitsHash)' = IF SplitsHash = NoSplits THEN NotEmpty' = {}
            ELSE \E j \in NotEmpty' : NotEmpty' = {j} /\ log[j].value.splits = SplitsHash
    BY <1>1, <1>2 DEF Receivers
  <2>. QED
    BY <2>1, <2>4, <2>5
<1>17. ValidFollows'
  BY <1>2, <1>4, <1>7 DEF ValidFollows, Found
<1>. QED
  BY <1>9, <1>10, <1>11, <1>12, <1>14, <1>15, <1>16, <1>17
(* Setting the flag shows that the receivers are those of the event.       *)
LEMMA SetIsValidFlagInv ==
    ASSUME IInv, TypeOK', ReceiversInv', NEW i \in Positions, NEW k \in Kinds,
           SetIsValidFlag(i, k)
    PROVE  IInv'
<1>. USE DEF IInv
<1>1. /\ log' = log /\ listed' = listed /\ Found = {k} /\ Goto(i, "done")
      /\ log[i].kind = "SplitsSet" /\ Receivers(log[i].value)
      /\ raced' = (raced \/ log[i].value # SplitsHash)
  BY DEF SetIsValidFlag, Is
<1>2. /\ OwnerOf' = OwnerOf /\ SplitsHash' = SplitsHash /\ Positions' = Positions
      /\ \A m : FromOf(m)' = FromOf(m)
  BY <1>1, ChainKept
<1>3. \A m \in Positions : run'[m] = IF m = i THEN "done" ELSE run[m]
  BY <1>1, GotoRun DEF Labels
<1>4. /\ rows'[k].valid
      /\ \A m \in Kinds : /\ rows'[m].there = rows[m].there /\ rows'[m].owner = rows[m].owner
                          /\ rows'[m].prev = rows[m].prev
                          /\ rows'[m].creator = rows[m].creator
  BY DEF SetIsValidFlag, TypeOK, Row
<1>5. Found' = Found
  BY <1>4 DEF Found
<1>6. ASSUME NEW value, Pending("Transfer", value) PROVE Pending("Transfer", value)'
  BY <1>1, <1>6, StillPending DEF Labels
<1>7. ASSUME NEW prev, Received(prev) PROVE Received(prev)'
  BY <1>1, <1>2, <1>7 DEF Received
<1>8. MintFirst' /\ CreatorSet' /\ RowsFromLog'
  BY <1>1, <1>2, <1>4, <1>5 DEF MintFirst, CreatorSet, RowsFromLog
<1>9. MintHandled' /\ TransfersWait'
  BY <1>1, <1>2, <1>3, <1>4, <1>5 DEF MintHandled, TransfersWait, MintFirst
<1>10. PrevFollows'
  BY <1>2, <1>4, <1>5, <1>6, <1>7 DEF PrevFollows
<1>11. OwnerFollows'
  BY <1>1, <1>2, <1>4, <1>5, <1>6 DEF OwnerFollows
<1>12. SplitsFollow'
  <2>1. ~raced' => Receivers(SplitsHash)
    BY <1>1
  <2>. QED
    BY <1>1, <1>2, <2>1, ReceiversKept DEF SplitsFollow
<1>13. ValidFollows'
  BY <1>1, <1>4, <1>5 DEF ValidFollows
<1>. QED
  BY <1>8, <1>9, <1>10, <1>11, <1>12, <1>13

(* What a step does to the deletions of the other runs.                    *)
LEMMA GoneByMove ==
    ASSUME TypeOK, NEW i \in Positions, NEW G, gone' = gone \/ gone' = [gone EXCEPT ![i] = G]
    PROVE  /\ gone' # gone => gone'[i] = G
           /\ gone' = [gone EXCEPT ![i] = G] => gone'[i] = G
           /\ \A k \in Positions \ {i} : gone'[k] = gone[k]
<1>1. i \in 1..Len(gone) /\ \A k \in Positions : k \in 1..Len(gone)
  BY DEF TypeOK, Positions
<1>2. gone \in [1..Len(gone) -> SUBSET (1..MaxLog)]
  BY SeqDef DEF TypeOK
<1>. QED
  BY <1>1, <1>2

(* The receivers: a document of a kind replaces them while it holds the    *)
(* row of that kind.                                                       *)
LEMMA ReceiversNext == ASSUME IInv, TypeOK', [Next]_vars PROVE ReceiversInv'
<1>. USE DEF IInv
<1>1. ASSUME NEW ev \in Event, Mine(ev) PROVE ReceiversInv'
  <2>1. /\ \A j \in Positions : /\ log'[j] = log[j] /\ run'[j] = run[j] /\ gone'[j] = gone[j]
      /\ run'[Len(log) + 1] = "todo" /\ Positions' = Positions \union {Len(log) + 1}
    BY <1>1, MineAppends
  <2>2. rows' = rows /\ listed' = listed /\ listed \subseteq Positions
    BY <1>1 DEF Mine, TypeOK
  <2>3. \A j : Replaces(j)' => Replaces(j)
    BY <2>1 DEF Replaces, Is
  <2>4. \A j : Replaces(j) => j \in Positions
    BY DEF Replaces
  <2>5. ListedRows' /\ ListedOnce'
    BY <2>1, <2>2 DEF ReceiversInv, ListedRows, ListedOnce
  <2>6. OneReplaces'
    BY <2>1, <2>3, <2>4 DEF ReceiversInv, OneReplaces
  <2>7. DeletesOwn'
    BY <2>1, <2>2, <2>3, <2>4 DEF ReceiversInv, DeletesOwn
  <2>. QED
    BY <2>5, <2>6, <2>7 DEF ReceiversInv
<1>2. ASSUME log' = log, listed' = listed,
             \A k \in Kinds : rows[k].there => rows'[k].there,
             \A j \in Positions : run'[j] = "replacing" => run[j] = "replacing" /\ gone'[j] = gone[j]
      PROVE  ReceiversInv'
  <2>1. \A j : Replaces(j)' => Replaces(j) /\ gone'[j] = gone[j]
    BY <1>2 DEF Replaces, Is, Positions
  <2>2. \A j \in listed : log[j].value.type \in Kinds
    BY EventTyped DEF TypeOK
  <2>3. ListedRows' /\ ListedOnce'
    BY <1>2, <2>2 DEF ReceiversInv, ListedRows, ListedOnce
  <2>4. OneReplaces' /\ DeletesOwn'
    BY <1>2, <2>1 DEF ReceiversInv, OneReplaces, DeletesOwn
  <2>. QED
    BY <2>3, <2>4 DEF ReceiversInv
<1>3. ASSUME NEW i \in Positions, NEW label \in Labels \ {"replacing"}, Goto(i, label),
             log' = log, listed' = listed, gone' = gone \/ gone' = [gone EXCEPT ![i] = {}],
             \A k \in Kinds : rows[k].there => rows'[k].there
      PROVE  ReceiversInv'
  <2>1. \A j \in Positions : run'[j] = IF j = i THEN label ELSE run[j]
    BY <1>3, GotoRun
  <2>2. \A j \in Positions \ {i} : gone'[j] = gone[j]
    BY <1>3, GoneByMove DEF Positions
  <2>. QED
    BY <1>2, <1>3, <2>1, <2>2
<1>4. ASSUME NEW i \in Positions,
             CheckDocument(i) \/ ReadOwner(i) \/ CheckSplits(i) \/ Abort(i)
      PROVE  ReceiversInv'
  <2>1. \E label \in Labels \ {"replacing"} : Goto(i, label)
    BY <1>4 DEF CheckDocument, ReadOwner, CheckSplits, Abort, Labels
  <2>. QED
    BY <1>3, <1>4, <2>1 DEF CheckDocument, ReadOwner, CheckSplits, Abort
<1>5. ASSUME NEW i \in Positions, NEW k \in Kinds, Transfer(i, k) PROVE ReceiversInv'
  <2>1. /\ Goto(i, "done") /\ log' = log /\ listed' = listed /\ gone' = gone
        /\ rows' = [rows EXCEPT ![k] = Transferred(i, rows[k])]
    BY <1>5 DEF Transfer
  <2>2. rows[k] \in Row /\ rows \in [Kinds -> Row]
    BY DEF TypeOK
  <2>3. Transferred(i, rows[k]).there = rows[k].there
    BY <2>2 DEF Transferred, Row
  <2>4. \A m \in Kinds : rows[m].there => rows'[m].there
    BY <2>1, <2>2, <2>3
  <2>. QED
    BY <1>3, <2>1, <2>4 DEF Labels
<1>6. ASSUME NEW i \in Positions, NEW k \in Kinds, SetIsValidFlag(i, k) PROVE ReceiversInv'
  <2>1. \A m \in Kinds : rows[m].there => rows'[m].there
    BY <1>6 DEF SetIsValidFlag, TypeOK, Row
  <2>. QED
    BY <1>3, <1>6, <2>1 DEF SetIsValidFlag, Labels
<1>7. ASSUME NEW i \in Positions, DeleteReceivers(i) PROVE ReceiversInv'
  <2>1. /\ log' = log /\ listed' = listed /\ rows' = rows /\ Positions' = Positions
        /\ gone' = [gone EXCEPT ![i] = listed] /\ ~Locked(log[i].value.type)
    BY <1>7, ChainKept DEF DeleteReceivers
  <2>2. \A j \in Positions : run'[j] = IF j = i THEN "replacing" ELSE run[j]
    BY <1>7, GotoRun DEF DeleteReceivers, Labels
  <2>3. gone'[i] = listed /\ \A j \in Positions \ {i} : gone'[j] = gone[j]
    BY <2>1, GoneByMove
  <2>4. \A j : Replaces(j)' => j \in Positions /\ (j = i \/ Replaces(j))
    BY <2>1, <2>2 DEF Replaces, Is
  <2>5. \A j : Replaces(j) => log[j].value.type # log[i].value.type
    BY <2>1 DEF Replaces, Locked
  <2>6. ListedRows' /\ ListedOnce'
    BY <2>1 DEF ReceiversInv, ListedRows, ListedOnce
  <2>7. OneReplaces'
    BY <2>1, <2>4, <2>5 DEF ReceiversInv, OneReplaces
  <2>8. DeletesOwn'
    BY <2>1, <2>3, <2>4 DEF ReceiversInv, DeletesOwn
  <2>. QED
    BY <2>6, <2>7, <2>8 DEF ReceiversInv
<1>8. ASSUME NEW i \in Positions, NEW k \in Kinds,
             Is(i, "Metadata", "replacing"), log[i].value.type = k, FinishDocument(i),
             rows'[k].there, \A m \in Kinds : rows[m].there => rows'[m].there
      PROVE  ReceiversInv'
  <2>1. /\ log' = log /\ Positions' = Positions /\ listed' = (listed \ gone[i]) \union {i}
        /\ gone' = [gone EXCEPT ![i] = {}]
    BY <1>8, ChainKept DEF FinishDocument
  <2>2. \A j \in Positions : run'[j] = IF j = i THEN "done" ELSE run[j]
    BY <1>8, GotoRun DEF FinishDocument, Labels
  <2>3. \A j \in Positions \ {i} : gone'[j] = gone[j]
    BY <2>1, GoneByMove
  <2>4. \A j : Replaces(j)' => Replaces(j) /\ j # i /\ gone'[j] = gone[j]
    BY <2>1, <2>2, <2>3 DEF Replaces, Is
  <2>5. Replaces(i)
    BY <1>8 DEF Replaces
  <2>6. \A j \in listed \ gone[i] : log[j].value.type # k
    BY <1>8, <2>5 DEF ReceiversInv, DeletesOwn
  <2>7. \A j : Replaces(j)' => log[j].value.type # k
    BY <1>8, <2>4, <2>5 DEF ReceiversInv, OneReplaces
  <2>8. ListedRows'
    <3>1. \A j \in listed : log[j].value.type \in Kinds
      BY EventTyped DEF TypeOK
    <3>. QED
      BY <1>8, <2>1, <3>1 DEF ReceiversInv, ListedRows
  <2>9. ListedOnce'
    BY <1>8, <2>1, <2>6 DEF ReceiversInv, ListedOnce
  <2>10. OneReplaces'
    BY <2>1, <2>4 DEF ReceiversInv, OneReplaces
  <2>11. DeletesOwn'
    BY <1>8, <2>1, <2>4, <2>7 DEF ReceiversInv, DeletesOwn
  <2>. QED
    BY <2>8, <2>9, <2>10, <2>11 DEF ReceiversInv
<1>9. ASSUME NEW i \in Positions, NEW k \in Kinds, CreateAccount(i, k) PROVE ReceiversInv'
  <2>1. rows'[k].there /\ \A m \in Kinds : rows[m].there => rows'[m].there
    BY <1>9 DEF CreateAccount, TypeOK, Absent
  <2>. QED
    BY <1>8, <1>9, <2>1 DEF CreateAccount
<1>10. ASSUME NEW i \in Positions, UpdateDripList(i) PROVE ReceiversInv'
  <2>1. "dripList" \in Kinds /\ rows \in [Kinds -> Row]
    BY DEF Kinds, TypeOK
  <2>2. PICK b : rows' = [rows EXCEPT !["dripList"] =
             [rows["dripList"] EXCEPT !.owner = seen[i], !.version = i, !.visible = b]]
    BY <1>10 DEF UpdateDripList
  <2>3. \A m \in Kinds : rows'[m].there = rows[m].there
    BY <2>1, <2>2 DEF Row
  <2>. QED
    BY <1>8, <1>10, <2>1, <2>3 DEF UpdateDripList
<1>11. ASSUME NEW i \in Positions, UpdateEcosystem(i) PROVE ReceiversInv'
  <2>1. "ecosystem" \in Kinds /\ rows \in [Kinds -> Row]
    BY DEF Kinds, TypeOK
  <2>2. \/ rows' = rows
        \/ rows' = [rows EXCEPT !["ecosystem"] =
              [rows["ecosystem"] EXCEPT !.owner = seen[i], !.version = i,
                                        !.visible = DocumentVisible(i)]]
    BY <1>11 DEF UpdateEcosystem
  <2>3. ASSUME NEW m \in Kinds PROVE rows'[m].there = rows[m].there
    <3>1. CASE rows' = rows
      BY <3>1
    <3>2. CASE rows' = [rows EXCEPT !["ecosystem"] =
                  [rows["ecosystem"] EXCEPT !.owner = seen[i], !.version = i,
                                            !.visible = DocumentVisible(i)]]
      <4>1. rows["ecosystem"] \in Row
        BY <2>1
      <4>. QED
        BY <2>1, <3>2, <4>1 DEF Row
    <3>. QED
      BY <2>2, <3>1, <3>2
  <2>. QED
    BY <1>8, <1>11, <2>1, <2>3 DEF UpdateEcosystem
<1>12. CASE UNCHANGED vars
  BY <1>2, <1>12 DEF vars
<1>13. "dripList" \in Kinds
  BY DEF Kinds
<1>. QED
  BY <1>1, <1>4, <1>5, <1>6, <1>7, <1>9, <1>10, <1>11, <1>12, <1>13 DEF Next, Handle, Write

LEMMA Invariance == Spec => []IInv
<1>1. IInv /\ [Next]_vars => IInv'
  <2> SUFFICES ASSUME IInv, [Next]_vars PROVE IInv'
    OBVIOUS
  <2>0. TypeOK' /\ ReceiversInv'
    BY TypeInv, ReceiversNext DEF IInv
  <2>1. ASSUME NEW i \in Positions, CheckDocument(i) PROVE IInv'
    BY <2>0, <2>1, MoveInv DEF CheckDocument, Is, Labels, history
  <2>2. ASSUME NEW i \in Positions, ReadOwner(i) PROVE IInv'
    BY <2>0, <2>2, MoveInv DEF ReadOwner, Labels, history
  <2>3. ASSUME NEW i \in Positions, CheckSplits(i) PROVE IInv'
    BY <2>0, <2>3, MoveInv DEF CheckSplits, Is, Labels, history
  <2>4. ASSUME NEW i \in Positions, Abort(i) PROVE IInv'
    BY <2>0, <2>4, MoveInv DEF Abort, Labels, history
  <2>9. ASSUME NEW i \in Positions, DeleteReceivers(i) PROVE IInv'
    BY <2>0, <2>9, MoveInv DEF DeleteReceivers, Labels, history
  <2>5. ASSUME NEW i \in Positions, NEW k \in Kinds, CreateAccount(i, k) PROVE IInv'
    <3>1. /\ \A m \in Kinds \ {k} : rows'[m] = rows[m]
          /\ rows'[k].there /\ rows'[k].creator = Nobody /\ ~rows[k].there
      BY <2>5 DEF CreateAccount, Absent, IInv, TypeOK
    <3>. QED
      BY <2>0, <2>5, <3>1, DocumentInv DEF CreateAccount
  <2>6. ASSUME NEW i \in Positions, UpdateDripList(i) PROVE IInv'
    <3>. DEFINE k == "dripList"
    <3>1. k \in Kinds /\ rows[k] \in Row /\ rows[k].there
      BY <2>6 DEF Kinds, IInv, TypeOK, UpdateDripList
    <3>2. PICK b : rows' = [rows EXCEPT ![k] =
                      [rows[k] EXCEPT !.owner = seen[i], !.version = i, !.visible = b]]
      BY <2>6 DEF UpdateDripList
    <3>3. /\ \A m \in Kinds \ {k} : rows'[m] = rows[m]
          /\ rows'[k] = [rows[k] EXCEPT !.owner = seen[i], !.version = i, !.visible = b]
      BY <3>1, <3>2 DEF IInv, TypeOK
    <3>4. /\ rows'[k].there = rows[k].there /\ rows'[k].creator = rows[k].creator
          /\ rows'[k].prev = rows[k].prev /\ rows'[k].valid = rows[k].valid
          /\ rows'[k].owner = seen[i]
      BY <3>1, <3>3 DEF Row
    <3>5. /\ Is(i, "Metadata", "replacing") /\ log[i].value.type = k
          /\ FinishDocument(i)
      BY <2>6 DEF UpdateDripList
    <3>. HIDE DEF k
    <3>. QED
      BY <2>0, <3>1, <3>3, <3>4, <3>5, DocumentInv
  <2>7. ASSUME NEW i \in Positions, UpdateEcosystem(i) PROVE IInv'
    <3>. DEFINE k == "ecosystem"
    <3>1. k \in Kinds /\ rows[k] \in Row /\ rows[k].there
      BY <2>7 DEF Kinds, IInv, TypeOK, UpdateEcosystem
    <3>2. /\ \A m \in Kinds \ {k} : rows'[m] = rows[m]
          /\ rows'[k] \in {rows[k], [rows[k] EXCEPT !.owner = seen[i], !.version = i,
                                                    !.visible = DocumentVisible(i)]}
      BY <2>7, <3>1 DEF UpdateEcosystem, IInv, TypeOK
    <3>3. /\ rows'[k].there = rows[k].there /\ rows'[k].creator = rows[k].creator
          /\ rows'[k].prev = rows[k].prev /\ rows'[k].valid = rows[k].valid
          /\ rows'[k].owner \in {seen[i], rows[k].owner}
      BY <3>1, <3>2 DEF Row
    <3>4. /\ Is(i, "Metadata", "replacing") /\ log[i].value.type = k
          /\ FinishDocument(i)
      BY <2>7 DEF UpdateEcosystem
    <3>. HIDE DEF k
    <3>. QED
      BY <2>0, <3>1, <3>2, <3>3, <3>4, DocumentInv
  <2>8. CASE UNCHANGED vars
    <3>1. /\ OwnerOf' = OwnerOf /\ SplitsHash' = SplitsHash /\ Positions' = Positions
          /\ \A m : FromOf(m)' = FromOf(m)
      BY <2>8, ChainKept DEF vars
    <3>2. \A kind, value : Pending(kind, value) => Pending(kind, value)'
      BY <2>8, <3>1 DEF vars, Pending
    <3>3. \A prev : Received(prev) => Received(prev)'
      BY <2>8, <3>1 DEF vars, Received
    <3>4. /\ UNCHANGED <<log, run, rows, listed, raced>> /\ Found' = Found
          /\ \A splits : Receivers(splits)' = Receivers(splits)
      BY <2>8, ReceiversKept DEF vars, Found
    <3>5. MintFirst' /\ CreatorSet' /\ RowsFromLog' /\ MintHandled' /\ TransfersWait'
      BY <3>1, <3>4 DEF IInv, MintFirst, CreatorSet, RowsFromLog, MintHandled, TransfersWait
    <3>6. PrevFollows' /\ OwnerFollows' /\ SplitsFollow' /\ ValidFollows'
      BY <3>1, <3>2, <3>3, <3>4
         DEF IInv, PrevFollows, OwnerFollows, SplitsFollow, ValidFollows
    <3>. QED
      BY <2>0, <3>5, <3>6 DEF IInv
  <2>. QED
    BY <2>0, <2>1, <2>2, <2>3, <2>4, <2>5, <2>6, <2>7, <2>8, <2>9, MineInv,
       TransferInv, SetIsValidFlagInv DEF Next, Handle, Write
<1>2. Init => IInv
  <2> SUFFICES ASSUME Init PROVE IInv
    OBVIOUS
  <2>1. TypeOK
    BY InitTyped
  <2>. QED
    BY <2>1, InitInv
<1>. QED
  BY <1>1, <1>2, PTL DEF Spec

----------------------------------------------------------------------------
(* What the invariant gives.                                               *)

(* Once all events are handled, an account with one row has the owner and  *)
(* the receivers that are on chain and is valid if splits were set, unless *)
(* some run wrote what it had read before the chain moved on.              *)
THEOREM Convergence == Spec => []ConvergesWithoutRaces
<1>1. IInv => ConvergesWithoutRaces
  <2> SUFFICES ASSUME IInv, AllHandled, ~raced, NEW k \in Kinds, Found = {k}
               PROVE  /\ rows[k].owner = OwnerOf /\ Receivers(SplitsHash)
                      /\ SplitsHash # NoSplits => rows[k].valid
    BY DEF ConvergesWithoutRaces
  <2>1. \A kind, value : ~Pending(kind, value)
    BY DEF Pending, AllHandled
  <2>. QED
    BY <2>1 DEF IInv, OwnerFollows, SplitsFollow, ValidFollows
<1>. QED
  BY <1>1, Invariance, PTL

(* The creator is the receiver of the mint, whatever was handled before    *)
(* it, and once everything is handled, some row has it.                    *)
THEOREM CreatorAlwaysMinter == Spec => []CreatorIsMinter
<1>1. IInv => CreatorIsMinter
  BY DEF IInv, CreatorSet, MintHandled, RowsFromLog, AllHandled, CreatorIsMinter
<1>. QED
  BY <1>1, Invariance, PTL

(* The creator of a row, once set, is never replaced: not by a later       *)
(* transfer, not by metadata, and not by a handler that runs again.        *)
CreatorNeverReplaced ==
    [][\A k \in Kinds : rows[k].creator # Nobody => rows'[k].creator = rows[k].creator]_vars

(* A mint goes to an owner, and an absent row has no creator.              *)
MintReal == 1 \in Positions => log[1].value # Nobody
AbsentIsNew == \A k \in Kinds : ~rows[k].there => rows[k].creator = Nobody

CreatorKept(k) == rows[k].creator # Nobody => rows'[k].creator = rows[k].creator

(* A step that leaves the log alone and the row as it was, or makes it     *)
(* from nothing, keeps what is known of creators.                          *)
LEMMA CreatorUntouched ==
    ASSUME MintReal, AbsentIsNew, log' = log,
           \A k \in Kinds :
              \/ rows'[k].there = rows[k].there /\ rows'[k].creator = rows[k].creator
              \/ ~rows[k].there /\ rows'[k].there
    PROVE  MintReal' /\ AbsentIsNew' /\ \A k \in Kinds : CreatorKept(k)
  BY ChainKept DEF MintReal, AbsentIsNew, CreatorKept

LEMMA CreatorSteps ==
    ASSUME IInv, MintReal, AbsentIsNew, [Next]_vars
    PROVE  MintReal' /\ AbsentIsNew' /\ \A k \in Kinds : CreatorKept(k)
<1>. USE DEF IInv
<1>1. ASSUME NEW ev \in Event, Mine(ev)
      PROVE  MintReal' /\ AbsentIsNew' /\ \A k \in Kinds : CreatorKept(k)
  <2>1. rows' = rows
    BY <1>1 DEF Mine
  <2>2. CASE 1 \in Positions
    <3>1. log'[1] = log[1]
      BY <1>1, <2>2, MineAppends
    <3>. QED
      BY <2>1, <2>2, <3>1 DEF MintReal, AbsentIsNew, CreatorKept
  <2>3. CASE 1 \notin Positions
    <3>1. Len(log) = 0 /\ Positions = {}
      BY <2>3, LenProperties DEF Positions, TypeOK
    <3>2. OwnerOf = Nobody
      BY <3>1 DEF OwnerOf, LastOf, Before
    <3>3. ev.value # Nobody
      BY <1>1, <3>2 DEF Mine
    <3>4. log'[1] = ev
      BY <1>1, <3>1, MineAppends
    <3>. QED
      BY <2>1, <3>3, <3>4 DEF MintReal, AbsentIsNew, CreatorKept
  <2>. QED
    BY <2>2, <2>3
<1>2. ASSUME log' = log, rows' = rows
      PROVE  MintReal' /\ AbsentIsNew' /\ \A k \in Kinds : CreatorKept(k)
  BY <1>2, CreatorUntouched
<1>3. ASSUME NEW i \in Positions, NEW k \in Kinds, Transfer(i, k)
      PROVE  MintReal' /\ AbsentIsNew' /\ \A m \in Kinds : CreatorKept(m)
  <2>1. /\ rows' = [rows EXCEPT ![k] = Transferred(i, rows[k])] /\ rows \in [Kinds -> Row]
        /\ log' = log /\ Found = {k}
    BY <1>3 DEF Transfer, TypeOK
  <2>2. rows'[k] = Transferred(i, rows[k]) /\ \A m \in Kinds \ {k} : rows'[m] = rows[m]
    BY <2>1
  <2>3. rows[k].there /\ rows[k] \in Row
    BY <2>1 DEF Found
  <2>4. /\ rows'[k].there
        /\ rows'[k].creator = IF IsMint(i) THEN log[i].value ELSE rows[k].creator
    BY <2>2, <2>3 DEF Transferred, Row
  <2>5. IsMint(i) => i = 1
    <3>1. i \in Int /\ i >= 1
      BY LenProperties DEF Positions, TypeOK
    <3>. QED
      BY <3>1 DEF MintFirst, IsMint
  <2>6. CreatorKept(k)
    BY <2>4, <2>5 DEF CreatorKept, CreatorSet
  <2>7. MintReal'
    BY <2>1, ChainKept DEF MintReal
  <2>8. AbsentIsNew'
    BY <2>2, <2>4 DEF AbsentIsNew
  <2>. QED
    BY <2>2, <2>6, <2>7, <2>8 DEF CreatorKept
<1>4. ASSUME NEW i \in Positions, NEW k \in Kinds, CreateAccount(i, k)
      PROVE  MintReal' /\ AbsentIsNew' /\ \A m \in Kinds : CreatorKept(m)
  <2>1. log' = log
    BY <1>4 DEF CreateAccount, FinishDocument
  <2>2. ~rows[k].there /\ rows'[k].there /\ \A m \in Kinds \ {k} : rows'[m] = rows[m]
    BY <1>4 DEF CreateAccount, TypeOK, Absent
  <2>. QED
    BY <2>1, <2>2, CreatorUntouched
<1>5. ASSUME NEW i \in Positions, NEW k \in Kinds,
             SetIsValidFlag(i, k) \/ UpdateDripList(i) \/ UpdateEcosystem(i)
      PROVE  MintReal' /\ AbsentIsNew' /\ \A m \in Kinds : CreatorKept(m)
  <2>1. log' = log
    BY <1>5 DEF SetIsValidFlag, UpdateDripList, UpdateEcosystem, FinishDocument
  <2>2. ASSUME NEW m \in Kinds
        PROVE  rows'[m].there = rows[m].there /\ rows'[m].creator = rows[m].creator
    <3>1. rows \in [Kinds -> Row] /\ "dripList" \in Kinds /\ "ecosystem" \in Kinds
      BY DEF TypeOK, Kinds
    <3>2. CASE SetIsValidFlag(i, k)
      BY <3>1, <3>2 DEF SetIsValidFlag, Row
    <3>3. CASE UpdateDripList(i)
      <4>1. \E b : rows' = [rows EXCEPT !["dripList"] =
               [rows["dripList"] EXCEPT !.owner = seen[i], !.version = i, !.visible = b]]
        BY <3>3 DEF UpdateDripList
      <4>. QED
        BY <3>1, <4>1 DEF Row
    <3>4. CASE UpdateEcosystem(i)
      <4>1. \/ rows' = rows
            \/ \E b : rows' = [rows EXCEPT !["ecosystem"] =
               [rows["ecosystem"] EXCEPT !.owner = seen[i], !.version = i, !.visible = b]]
        BY <3>4 DEF UpdateEcosystem
      <4>2. CASE rows' = rows
        BY <4>2
      <4>3. ASSUME NEW b, rows' = [rows EXCEPT !["ecosystem"] =
               [rows["ecosystem"] EXCEPT !.owner = seen[i], !.version = i, !.visible = b]]
            PROVE  rows'[m].there = rows[m].there /\ rows'[m].creator = rows[m].creator
        BY <3>1, <4>3 DEF Row
      <4>. QED
        BY <4>1, <4>2, <4>3
    <3>. QED
      BY <1>5, <3>2, <3>3, <3>4
  <2>. QED
    BY <2>1, <2>2, CreatorUntouched
<1>6. CASE UNCHANGED vars
  BY <1>2, <1>6 DEF vars
<1>7. ASSUME NEW i \in Positions,
             \/ CheckDocument(i) \/ ReadOwner(i) \/ DeleteReceivers(i)
             \/ CheckSplits(i) \/ Abort(i)
      PROVE  MintReal' /\ AbsentIsNew' /\ \A k \in Kinds : CreatorKept(k)
  BY <1>2, <1>7 DEF CheckDocument, ReadOwner, DeleteReceivers, CheckSplits, Abort
<1>8. "dripList" \in Kinds
  BY DEF Kinds
<1>. QED
  BY <1>1, <1>3, <1>4, <1>5, <1>6, <1>7, <1>8 DEF Next, Handle, Write

(* The creator of a Drip List or an Ecosystem, once known, stays: no       *)
(* transfer, no document and no retry of either ever replaces it.          *)
THEOREM CreatorStays == Spec => CreatorNeverReplaced
<1>. DEFINE Known == MintReal /\ AbsentIsNew
            Step == \A k \in Kinds :
                       rows[k].creator # Nobody => rows'[k].creator = rows[k].creator
<1>1. Init => Known
  <2> SUFFICES ASSUME Init PROVE Known
    OBVIOUS
  <2>1. Positions = {}
    BY InitTyped, InitInv
  <2>. QED
    BY <2>1 DEF MintReal, AbsentIsNew, Init, Absent
<1>2. IInv /\ Known /\ [Next]_vars => Known' /\ [Step]_vars
  BY CreatorSteps DEF CreatorKept
<1>. HIDE DEF Known, Step
<1>3. Spec => [][Step]_vars
  BY <1>1, <1>2, Invariance, PTL DEF Spec
<1>. QED
  BY <1>3 DEF CreatorNeverReplaced, Step

(* Once everything is handled, the previous owner is one from whom the     *)
(* owner on chain received the token, races or not.                        *)
THEOREM PreviousOwnerGaveIt == Spec => []PreviousOwner
<1>1. IInv => PreviousOwner
  BY DEF IInv, PrevFollows, Received, Pending, AllHandled, PreviousOwner
<1>. QED
  BY <1>1, Invariance, PTL
----------------------------------------------------------------------------
(* The refinement.  What a run holds is the owner it has read and the      *)
(* receivers it has compared with the chain, until it writes them or       *)
(* starts again.                                                           *)

LEMMA HeldByMine ==
    ASSUME TypeOK, NEW ev \in Event, Mine(ev)
    PROVE  HeldOwner' = HeldOwner /\ HeldSplits' = HeldSplits
  BY MineAppends DEF HeldOwner, HeldSplits

LEMMA HeldByGoto ==
    ASSUME TypeOK, NEW i \in Positions, NEW label \in Labels, Goto(i, label), log' = log,
           \A k \in Positions \ {i} : seen'[k] = seen[k]
    PROVE  /\ i \in 1..MaxLog
           /\ HeldOwner' = [HeldOwner EXCEPT ![i] =
                 IF label \in {"owned", "replacing"} THEN {seen'[i]} ELSE {}]
           /\ HeldSplits' = [HeldSplits EXCEPT ![i] =
                 IF label \in {"verified", "owned", "replacing"}
                 THEN {[kind |-> log[i].value.type, value |-> log[i].value.splits]} ELSE {}]
<1>1. i \in 1..MaxLog /\ Positions' = Positions
  BY EventTyped DEF Positions
<1>2. ASSUME NEW k \in Positions
      PROVE  run'[k] = IF k = i THEN label ELSE run[k]
  BY GotoRun
<1>3. HeldOwner' = [HeldOwner EXCEPT ![i] =
         IF label \in {"owned", "replacing"} THEN {seen'[i]} ELSE {}]
  BY <1>1, <1>2 DEF HeldOwner
<1>4. HeldSplits' = [HeldSplits EXCEPT ![i] =
         IF label \in {"verified", "owned", "replacing"}
         THEN {[kind |-> log[i].value.type, value |-> log[i].value.splits]} ELSE {}]
  BY <1>1, <1>2 DEF HeldSplits
<1>. QED
  BY <1>1, <1>3, <1>4

(* What a step does to the reads of the other runs.                        *)
LEMMA SeenByMove ==
    ASSUME TypeOK, NEW i \in Positions, NEW o, seen' = [seen EXCEPT ![i] = o]
    PROVE  seen'[i] = o /\ \A k \in Positions \ {i} : seen'[k] = seen[k]
<1>1. i \in 1..Len(seen) /\ \A k \in Positions : k \in 1..Len(seen)
  BY DEF TypeOK, Positions
<1>2. seen \in [1..Len(seen) -> Owners \union {Nobody}]
  BY SeqDef DEF TypeOK
<1>. QED
  BY <1>1, <1>2

(* Init and Next of Mirror for the owner of the row of kind k.             *)
OwnerAtFirst(k) ==
    /\ OwnerOf \in Owners \union {Nobody}
    /\ rows[k].owner = OwnerOf
    /\ HeldOwner = [i \in 1..MaxLog |-> {}]

OwnerStep(k) ==
    LET copy == rows[k].owner
    IN  \/ OwnerOf' \in Owners \union {Nobody} /\ UNCHANGED <<copy, HeldOwner>>
        \/ \E i \in 1..MaxLog :
              \/ HeldOwner' = [HeldOwner EXCEPT ![i] = {OwnerOf}] /\ UNCHANGED <<OwnerOf, copy>>
              \/ HeldOwner' = [HeldOwner EXCEPT ![i] = {}] /\ UNCHANGED <<OwnerOf, copy>>
              \/ /\ copy' \in HeldOwner[i]
                 /\ HeldOwner' = [HeldOwner EXCEPT ![i] = {}]
                 /\ UNCHANGED OwnerOf
        \/ copy' = OwnerOf /\ UNCHANGED <<OwnerOf, HeldOwner>>
        \/ UNCHANGED <<OwnerOf, copy, HeldOwner>>

LEMMA OwnerInit == ASSUME NEW k \in Kinds, Init PROVE OwnerAtFirst(k)
<1>1. Positions = {}
  BY EmptySeq DEF Init, Positions
<1>2. OwnerOf = Nobody
  BY <1>1 DEF OwnerOf, LastOf, Before
<1>. QED
  BY <1>1, <1>2 DEF OwnerAtFirst, HeldOwner, Init, Absent

LEMMA OwnerNext == ASSUME NEW k \in Kinds, IInv, [Next]_vars PROVE OwnerStep(k)
<1>. USE DEF IInv
<1>1. ASSUME NEW ev \in Event, Mine(ev) PROVE OwnerStep(k)
  <2>1. OwnerOf' = IF ev.kind = "Transfer" THEN ev.value ELSE OwnerOf
    BY <1>1, LastAppended DEF OwnerOf
  <2>2. OwnerOf' \in Owners \union {Nobody}
    BY <2>1, ChainTyped DEF Event
  <2>3. rows' = rows /\ HeldOwner' = HeldOwner
    BY <1>1, HeldByMine DEF Mine
  <2>. QED
    BY <2>2, <2>3 DEF OwnerStep
<1>2. ASSUME NEW i \in Positions, NEW label \in Labels \ {"owned", "replacing"}, Goto(i, label),
             log' = log, \A m \in Positions \ {i} : seen'[m] = seen[m],
             rows'[k].owner \in {rows[k].owner} \union HeldOwner[i]
      PROVE  OwnerStep(k)
  BY <1>2, ChainKept, HeldByGoto DEF OwnerStep
<1>3. ASSUME NEW i \in Positions, ReadOwner(i) PROVE OwnerStep(k)
  <2>1. seen'[i] = OwnerOf /\ \A m \in Positions \ {i} : seen'[m] = seen[m]
    BY <1>3, SeenByMove DEF ReadOwner
  <2>2. i \in 1..MaxLog /\ HeldOwner' = [HeldOwner EXCEPT ![i] = {OwnerOf}]
    BY <1>3, <2>1, HeldByGoto DEF ReadOwner, Labels
  <2>. QED
    BY <1>3, <2>2, ChainKept DEF ReadOwner, OwnerStep
<1>4. ASSUME NEW i \in Positions, CheckDocument(i) \/ CheckSplits(i) \/ Abort(i)
      PROVE  OwnerStep(k)
  <2>1. \E label \in Labels \ {"owned", "replacing"} : Goto(i, label)
    BY <1>4 DEF CheckDocument, CheckSplits, Abort, Labels
  <2>2. log' = log /\ rows' = rows
    BY <1>4 DEF CheckDocument, CheckSplits, Abort
  <2>3. \A m \in Positions \ {i} : seen'[m] = seen[m]
    BY <1>4, SeenByMove DEF CheckDocument, CheckSplits, Abort
  <2>. QED
    BY <1>2, <2>1, <2>2, <2>3
<1>5. ASSUME NEW i \in Positions, NEW m \in Kinds, Transfer(i, m) PROVE OwnerStep(k)
  <2>1. /\ log' = log /\ seen' = seen /\ Goto(i, "done") /\ run[i] = "todo"
        /\ rows' = [rows EXCEPT ![m] = Transferred(i, rows[m])]
    BY <1>5 DEF Transfer, Is
  <2>2. rows[m] \in Row /\ rows \in [Kinds -> Row]
    BY DEF TypeOK
  <2>3. rows'[k].owner \in {rows[k].owner, OwnerOf}
    <3>1. CASE k = m
      <4>1. rows'[k] = Transferred(i, rows[k])
        BY <2>1, <2>2, <3>1
      <4>. QED
        BY <2>2, <3>1, <4>1 DEF Transferred, Row
    <3>2. CASE k # m
      BY <2>1, <2>2, <3>2
    <3>. QED
      BY <3>1, <3>2
  <2>4. i \in 1..MaxLog /\ HeldOwner' = [HeldOwner EXCEPT ![i] = {}]
    BY <2>1, HeldByGoto DEF Labels
  <2>5. HeldOwner[i] = {}
    BY <2>1, <2>4 DEF HeldOwner
  <2>6. HeldOwner' = HeldOwner
    BY <2>4, <2>5 DEF HeldOwner
  <2>. QED
    BY <2>1, <2>3, <2>6, ChainKept DEF OwnerStep
<1>6. ASSUME NEW i \in Positions, Is(i, "Metadata", "replacing"), FinishDocument(i),
             rows'[k].owner \in {rows[k].owner, seen[i]}
      PROVE  OwnerStep(k)
  <2>1. log' = log /\ seen' = seen /\ Goto(i, "done")
    BY <1>6 DEF FinishDocument
  <2>2. HeldOwner[i] = {seen[i]}
    BY <1>6, EventTyped DEF HeldOwner, Is
  <2>. QED
    BY <1>2, <1>6, <2>1, <2>2 DEF Labels
<1>7. ASSUME NEW i \in Positions, NEW m \in Kinds, CreateAccount(i, m) PROVE OwnerStep(k)
  <2>1. rows'[k].owner \in {rows[k].owner, seen[i]}
    BY <1>7 DEF CreateAccount, Absent, TypeOK
  <2>. QED
    BY <1>6, <1>7, <2>1 DEF CreateAccount
<1>8. ASSUME NEW i \in Positions, UpdateDripList(i) PROVE OwnerStep(k)
  <2>1. rows["dripList"] \in Row /\ rows \in [Kinds -> Row]
    BY DEF TypeOK, Kinds
  <2>2. PICK b : rows' = [rows EXCEPT !["dripList"] =
             [rows["dripList"] EXCEPT !.owner = seen[i], !.version = i, !.visible = b]]
    BY <1>8 DEF UpdateDripList
  <2>3. rows'[k].owner \in {rows[k].owner, seen[i]}
    <3>. HIDE DEF IInv
    <3>1. CASE k = "dripList"
      BY <2>1, <2>2, <3>1 DEF Row
    <3>2. CASE k # "dripList"
      BY <2>1, <2>2, <3>2
    <3>. QED
      BY <3>1, <3>2
  <2>. QED
    BY <1>6, <1>8, <2>3 DEF UpdateDripList
<1>9. ASSUME NEW i \in Positions, UpdateEcosystem(i) PROVE OwnerStep(k)
  <2>1. rows["ecosystem"] \in Row /\ rows \in [Kinds -> Row]
    BY DEF TypeOK, Kinds
  <2>2. \/ rows' = rows
        \/ \E b : rows' = [rows EXCEPT !["ecosystem"] =
              [rows["ecosystem"] EXCEPT !.owner = seen[i], !.version = i, !.visible = b]]
    BY <1>9 DEF UpdateEcosystem
  <2>3. rows'[k].owner \in {rows[k].owner, seen[i]}
    <3>. HIDE DEF IInv
    <3>1. CASE rows' = rows
      BY <3>1
    <3>2. ASSUME NEW b, k = "ecosystem",
                 rows' = [rows EXCEPT !["ecosystem"] =
                   [rows["ecosystem"] EXCEPT !.owner = seen[i], !.version = i, !.visible = b]]
          PROVE  rows'[k].owner \in {rows[k].owner, seen[i]}
      BY <2>1, <3>2 DEF Row
    <3>3. ASSUME NEW b, k # "ecosystem",
                 rows' = [rows EXCEPT !["ecosystem"] =
                   [rows["ecosystem"] EXCEPT !.owner = seen[i], !.version = i, !.visible = b]]
          PROVE  rows'[k].owner \in {rows[k].owner, seen[i]}
      BY <2>1, <3>3
    <3>. QED
      BY <2>2, <3>1, <3>2, <3>3
  <2>. QED
    BY <1>6, <1>9, <2>3 DEF UpdateEcosystem
<1>10. ASSUME NEW i \in Positions, NEW m \in Kinds, SetIsValidFlag(i, m) PROVE OwnerStep(k)
  <2>1. rows'[k].owner = rows[k].owner
    BY <1>10 DEF SetIsValidFlag, TypeOK, Row
  <2>. QED
    BY <1>2, <1>10, <2>1 DEF SetIsValidFlag, Labels
<1>11. ASSUME NEW i \in Positions, DeleteReceivers(i) PROVE OwnerStep(k)
  <2>1. /\ log' = log /\ seen' = seen /\ rows' = rows /\ run[i] = "owned"
        /\ Goto(i, "replacing")
    BY <1>11 DEF DeleteReceivers, Is
  <2>2. i \in 1..MaxLog /\ HeldOwner' = [HeldOwner EXCEPT ![i] = {seen[i]}]
    BY <2>1, HeldByGoto DEF Labels
  <2>3. HeldOwner[i] = {seen[i]}
    BY <2>1, <2>2 DEF HeldOwner
  <2>4. HeldOwner' = HeldOwner
    BY <2>2, <2>3 DEF HeldOwner
  <2>. QED
    BY <2>1, <2>4, ChainKept DEF OwnerStep
<1>12. CASE UNCHANGED vars
  BY <1>12, ChainKept DEF vars, OwnerStep, HeldOwner
<1>. QED
  BY <1>1, <1>3, <1>4, <1>5, <1>7, <1>8, <1>9, <1>10, <1>11, <1>12 DEF Next, Handle, Write

(* While the documents in the table are the same, so are their lists.      *)
LEMMA ListedKept ==
    ASSUME listed' = listed, \A i \in listed : log'[i] = log[i]
    PROVE  Listed' = Listed
  BY DEF Listed

(* What a document leaves in the table are lists of the other kind.        *)
LEMMA ListedByDocument ==
    ASSUME IInv, NEW i \in Positions, Is(i, "Metadata", "replacing"), FinishDocument(i)
    PROVE  \E others \in SUBSET {e \in Listed : e.kind # log[i].value.type} :
              Listed' = others \union
                 {[run |-> i, kind |-> log[i].value.type, value |-> log[i].value.splits]}
<1>. DEFINE entry(j) == [run |-> j, kind |-> log[j].value.type, value |-> log[j].value.splits]
            others   == {entry(j) : j \in listed \ gone[i]}
<1>1. \A j \in listed \ gone[i] : log[j].value.type # log[i].value.type
  BY DEF IInv, ReceiversInv, DeletesOwn, Replaces
<1>2. others \subseteq {e \in Listed : e.kind # log[i].value.type}
  BY <1>1 DEF Listed
<1>3. Listed' = {entry(j) : j \in (listed \ gone[i]) \union {i}}
  BY DEF Listed, FinishDocument
<1>4. Listed' = others \union {entry(i)}
  BY <1>3
<1>. QED
  BY <1>2, <1>4

LEMMA SplitsRefined == Spec => SplitsTable!Spec
<1>1. Init => SplitsTable!Init
  <2> SUFFICES ASSUME Init PROVE SplitsTable!Init
    OBVIOUS
  <2>1. Positions = {}
    BY EmptySeq DEF Init, Positions
  <2>2. SplitsHash = NoSplits
    BY <2>1 DEF SplitsHash, LastOf, Before
  <2>. QED
    BY <2>1, <2>2 DEF SplitsTable!Init, HeldSplits, Listed, Init
<1>2. IInv /\ [Next]_vars => [SplitsTable!Next]_(SplitsTable!tableVars)
  <2> SUFFICES ASSUME IInv, [Next]_vars PROVE [SplitsTable!Next]_(SplitsTable!tableVars)
    OBVIOUS
  <2>. USE DEF IInv, SplitsTable!tableVars
  <2>1. ASSUME NEW ev \in Event, Mine(ev) PROVE SplitsTable!Next
    <3>1. SplitsHash' = IF ev.kind = "SplitsSet" THEN ev.value ELSE SplitsHash
      BY <2>1, LastAppended DEF SplitsHash
    <3>2. SplitsHash' \in Splits \union {NoSplits}
      BY <3>1, ChainTyped DEF Event
    <3>3. Listed' = Listed /\ HeldSplits' = HeldSplits
      BY <2>1, HeldByMine, MineAppends, ListedKept DEF Mine, TypeOK
    <3>. QED
      BY <3>2, <3>3 DEF SplitsTable!Next, SplitsTable!Publish
  <2>2. ASSUME NEW i \in Positions,
               NEW label \in Labels \ {"verified", "owned", "replacing"},
               Goto(i, label), log' = log, listed' = listed,
               \A m \in Positions \ {i} : seen'[m] = seen[m]
        PROVE  SplitsTable!Next
    BY <2>2, ChainKept, ListedKept, HeldByGoto DEF SplitsTable!Next, SplitsTable!Forget
  <2>3. ASSUME NEW i \in Positions, CheckDocument(i) PROVE SplitsTable!Next
    <3>1. log' = log /\ seen' = seen /\ listed' = listed /\ log[i].kind = "Metadata"
      BY <2>3 DEF CheckDocument, Is
    <3>2. CASE Goto(i, "verified") /\ log[i].value.splits = SplitsHash
      <4>1. /\ i \in 1..MaxLog /\ log[i].value.type \in Kinds
            /\ HeldSplits' = [HeldSplits EXCEPT ![i] =
                                 {[kind |-> log[i].value.type, value |-> SplitsHash]}]
        BY <3>1, <3>2, HeldByGoto, EventTyped DEF Labels
      <4>2. SplitsTable!Look(i, log[i].value.type)
        BY <3>1, <4>1, ChainKept, ListedKept DEF SplitsTable!Look
      <4>. QED
        BY <4>1, <4>2 DEF SplitsTable!Next
    <3>3. CASE Goto(i, "done")
      BY <2>2, <3>1, <3>3 DEF Labels
    <3>. QED
      BY <2>3, <3>2, <3>3 DEF CheckDocument
  <2>4. ASSUME NEW i \in Positions, ReadOwner(i) \/ DeleteReceivers(i)
        PROVE  UNCHANGED SplitsTable!tableVars
    <3>. DEFINE read == [kind |-> log[i].value.type, value |-> log[i].value.splits]
    <3>1. /\ log' = log /\ listed' = listed /\ run[i] \in {"verified", "owned"}
          /\ Goto(i, "owned") \/ Goto(i, "replacing")
          /\ \A m \in Positions \ {i} : seen'[m] = seen[m]
      BY <2>4, SeenByMove DEF ReadOwner, DeleteReceivers, Is
    <3>2. i \in 1..MaxLog /\ HeldSplits' = [HeldSplits EXCEPT ![i] = {read}]
      BY <3>1, HeldByGoto DEF Labels
    <3>3. HeldSplits[i] = {read}
      BY <3>1, <3>2 DEF HeldSplits
    <3>4. HeldSplits' = HeldSplits
      BY <3>2, <3>3 DEF HeldSplits
    <3>. QED
      BY <3>1, <3>4, ChainKept, ListedKept
  <2>5. ASSUME NEW i \in Positions, NEW k \in Kinds,
               CreateAccount(i, k) \/ UpdateDripList(i) \/ UpdateEcosystem(i)
        PROVE  SplitsTable!Next
    <3>. DEFINE read == [kind |-> log[i].value.type, value |-> log[i].value.splits]
    <3>1. /\ log' = log /\ seen' = seen /\ Goto(i, "done") /\ Is(i, "Metadata", "replacing")
          /\ FinishDocument(i)
      BY <2>5 DEF CreateAccount, UpdateDripList, UpdateEcosystem, FinishDocument
    <3>2. i \in 1..MaxLog /\ HeldSplits' = [HeldSplits EXCEPT ![i] = {}]
      BY <3>1, HeldByGoto DEF Labels
    <3>3. HeldSplits[i] = {read}
      BY <3>1, <3>2 DEF HeldSplits, Is
    <3>4. \E others \in SUBSET {e \in Listed : e.kind # read.kind} :
             Listed' = others \union
                {[run |-> i, kind |-> read.kind, value |-> read.value]}
      BY <3>1, ListedByDocument
    <3>5. SplitsTable!Write(i)
      BY <3>1, <3>2, <3>3, <3>4, ChainKept DEF SplitsTable!Write
    <3>. QED
      BY <3>2, <3>5 DEF SplitsTable!Next
  <2>6. ASSUME NEW i \in Positions, NEW k \in Kinds,
               \/ CheckSplits(i) \/ Transfer(i, k) \/ SetIsValidFlag(i, k) \/ Abort(i)
        PROVE  SplitsTable!Next
    <3>1. \E label \in Labels \ {"verified", "owned", "replacing"} : Goto(i, label)
      BY <2>6 DEF CheckSplits, Transfer, SetIsValidFlag, Abort, Labels
    <3>2. log' = log /\ listed' = listed
      BY <2>6 DEF CheckSplits, Transfer, SetIsValidFlag, Abort
    <3>3. \A m \in Positions \ {i} : seen'[m] = seen[m]
      BY <2>6, SeenByMove DEF CheckSplits, Transfer, SetIsValidFlag, Abort
    <3>. QED
      BY <2>2, <3>1, <3>2, <3>3
  <2>7. CASE UNCHANGED vars
    BY <2>7, ChainKept, ListedKept DEF vars, HeldSplits
  <2>8. "dripList" \in Kinds
    BY DEF Kinds
  <2>. QED
    BY <2>1, <2>3, <2>4, <2>5, <2>6, <2>7, <2>8 DEF Next, Handle, Write
<1>. QED
  BY <1>1, <1>2, Invariance, PTL DEF Spec, SplitsTable!Spec

LEMMA DripListOwnerRefined == Spec => DripListOwner!Spec
<1>1. Init => DripListOwner!Init
  BY OwnerInit DEF Kinds, OwnerAtFirst, DripListOwner!Init
<1>2. IInv /\ [Next]_vars => [DripListOwner!Next]_(DripListOwner!mirrorVars)
  <2> SUFFICES ASSUME IInv, [Next]_vars
               PROVE  [DripListOwner!Next]_(DripListOwner!mirrorVars)
    OBVIOUS
  <2>1. OwnerStep("dripList")
    BY OwnerNext DEF Kinds
  <2>. QED
    BY <2>1 DEF OwnerStep, DripListOwner!mirrorVars, DripListOwner!Next,
       DripListOwner!Publish, DripListOwner!Look, DripListOwner!Forget,
       DripListOwner!Write, DripListOwner!Refresh
<1>. QED
  BY <1>1, <1>2, Invariance, PTL DEF Spec, DripListOwner!Spec

LEMMA EcosystemOwnerRefined == Spec => EcosystemOwner!Spec
<1>1. Init => EcosystemOwner!Init
  BY OwnerInit DEF Kinds, OwnerAtFirst, EcosystemOwner!Init
<1>2. IInv /\ [Next]_vars => [EcosystemOwner!Next]_(EcosystemOwner!mirrorVars)
  <2> SUFFICES ASSUME IInv, [Next]_vars
               PROVE  [EcosystemOwner!Next]_(EcosystemOwner!mirrorVars)
    OBVIOUS
  <2>1. OwnerStep("ecosystem")
    BY OwnerNext DEF Kinds
  <2>. QED
    BY <2>1 DEF OwnerStep, EcosystemOwner!mirrorVars, EcosystemOwner!Next,
       EcosystemOwner!Publish, EcosystemOwner!Look, EcosystemOwner!Forget,
       EcosystemOwner!Write, EcosystemOwner!Refresh
<1>. QED
  BY <1>1, <1>2, Invariance, PTL DEF Spec, EcosystemOwner!Spec

(* The owner of each row implements Mirror, and the receivers implement    *)
(* MirrorTable: whatever events and documents claim, and however runs      *)
(* overlap and start again, an owner only becomes what the chain says, or  *)
(* what some run has seen on it since it last started; each list of        *)
(* receivers in the table is one that the run that wrote it has seen       *)
(* there, and no two documents of one kind are mixed.                      *)
THEOREM NftAccountImplementsMirror == Spec => Mirrored
BY DripListOwnerRefined, EcosystemOwnerRefined, SplitsRefined DEF Mirrored
==============================================================================
