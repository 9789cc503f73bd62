---------------------------- MODULE SubListProofs ----------------------------
(***************************************************************************)
(* Proofs about SubList, for every set of receivers, any number of         *)
(* recipients and documents, and every number of retries.                  *)
(*                                                                         *)
(* The list that formatSplitReceivers builds is the value of a function on *)
(* the prefixes of its argument.  What holds of it is shown by induction   *)
(* on the prefix, as a fact about the set of the lengths for which it      *)
(* holds.                                                                  *)
(***************************************************************************)
EXTENDS SubList, SequenceTheorems, WellFoundedInduction, TLAPS

----------------------------------------------------------------------------
(* Induction, and functions defined by it.                                 *)

(* A set with 0 and, below n, the successor of each of its members.        *)
LEMMA Induction ==
    ASSUME NEW n \in Nat, NEW S, 0 \in S, \A k \in 0..n : k < n /\ k \in S => k + 1 \in S
    PROVE  \A k \in 0..n : k \in S
<1>. DEFINE R == OpToRel(<, Nat)
            T == {k \in 0..n : k \notin S}
<1>. HIDE DEF R
<1>. SUFFICES ASSUME T # {} PROVE FALSE
  OBVIOUS
<1>1. PICK x \in T : \A y \in T : <<y, x>> \notin R
  <2>1. IsWellFoundedOn(R, Nat)
    BY NatLessThanWellFounded DEF R
  <2>2. T \subseteq Nat
    OBVIOUS
  <2>. HIDE DEF T
  <2>. QED
    BY <2>1, <2>2, WFMin
<1>2. x \in 0..n /\ x \notin S /\ x # 0
  OBVIOUS
<1>3. x - 1 \in 0..n /\ x - 1 < n /\ x - 1 < x /\ x = (x - 1) + 1
  BY <1>2
<1>4. x - 1 \notin S
  BY <1>2, <1>3
<1>5. <<x - 1, x>> \in R
  BY <1>2, <1>3 DEF R, OpToRel
<1>. QED
  BY <1>1, <1>3, <1>4, <1>5

(* f is the function that begins with base and goes on with step.          *)
FoldOf(f, n, T, base, step) ==
    f \in [0..n -> T] /\ f[0] = base /\ \A k \in 1..n : f[k] = step[k][f[k - 1]]

(* Such a function exists.                                                 *)
LEMMA FoldDefined ==
    ASSUME NEW n \in Nat, NEW T, NEW base \in T, NEW step \in [1..n -> [T -> T]]
    PROVE  \E f : FoldOf(f, n, T, base, step)
<1>. USE DEF FoldOf
<1>. DEFINE IsFold(f, m) == FoldOf(f, m, T, base, step)
            S == {m \in 0..n : \E f : IsFold(f, m)}
<1>1. 0 \in S
  <2>. DEFINE g == [k \in 0..0 |-> base]
  <2>0. g \in [0..0 -> T] /\ g[0] = base
    OBVIOUS
  <2>1. IsFold(g, 0)
    <3>. HIDE DEF g
    <3>. QED
      BY <2>0
  <2>. HIDE DEF FoldOf, g
  <2>. QED
    BY <2>1
<1>2. ASSUME NEW m \in 0..n, m < n, m \in S PROVE m + 1 \in S
  <2>1. PICK f : IsFold(f, m)
    BY <1>2
  <2>2. m + 1 \in 1..n /\ m \in 0..m /\ f[m] \in T
    BY <1>2, <2>1
  <2>. DEFINE v == step[m + 1][f[m]]
              g == [k \in 0..(m + 1) |-> IF k = m + 1 THEN v ELSE f[k]]
  <2>3. v \in T
    BY <2>2
  <2>4. g \in [0..(m + 1) -> T] /\ g[0] = base /\ g[m + 1] = v /\ \A k \in 0..m : g[k] = f[k]
    <3>. HIDE DEF v
    <3>1. \A k \in 0..(m + 1) : k # m + 1 => k \in 0..m
      BY <1>2
    <3>2. \A k \in 0..m : k \in 0..(m + 1) /\ k # m + 1
      BY <1>2
    <3>. QED
      BY <1>2, <2>1, <2>2, <2>3, <3>1, <3>2
  <2>5. ASSUME NEW k \in 1..(m + 1) PROVE g[k] = step[k][g[k - 1]]
    <3>. HIDE DEF g
    <3>1. CASE k = m + 1
      BY <1>2, <2>4, <3>1
    <3>2. CASE k # m + 1
      <4>1. k \in 1..m /\ k - 1 \in 0..m /\ k \in 0..m
        BY <1>2, <3>2
      <4>. QED
        BY <4>1, <2>1, <2>4
    <3>. QED
      BY <3>1, <3>2
  <2>6. IsFold(g, m + 1)
    <3>. HIDE DEF g, v
    <3>. QED
      BY <2>4, <2>5
  <2>. HIDE DEF FoldOf, g
  <2>. QED
    BY <1>2, <2>2, <2>6
<1>3. n \in S
  <2>. HIDE DEF S
  <2>1. \A k \in 0..n : k < n /\ k \in S => k + 1 \in S
    BY <1>2
  <2>2. \A k \in 0..n : k \in S
    BY <1>1, <2>1, Induction
  <2>. QED
    BY <2>2
<1>. QED
  BY <1>3

(* A function whose first value is in T, and every next one if the value   *)
(* before it is, has its values in T.                                      *)
LEMMA StaysIn ==
    ASSUME NEW n \in Nat, NEW T, NEW u, DOMAIN u = 0..n, u = [k \in 0..n |-> u[k]],
           u[0] \in T, \A k \in 1..n : u[k - 1] \in T => u[k] \in T
    PROVE  u \in [0..n -> T]
<1>. DEFINE S == {k \in 0..n : u[k] \in T}
<1>1. 0 \in S
  OBVIOUS
<1>2. \A k \in 0..n : k < n /\ k \in S => k + 1 \in S
  <2> SUFFICES ASSUME NEW k \in 0..n, k < n, u[k] \in T
               PROVE  k + 1 \in 0..n /\ u[k + 1] \in T
    OBVIOUS
  <2>1. k + 1 \in 1..n /\ (k + 1) - 1 = k
    OBVIOUS
  <2>. QED
    BY <2>1
<1>3. \A k \in 0..n : k \in S
  <2>. HIDE DEF S
  <2>. QED
    BY <1>1, <1>2, Induction
<1>. QED
  BY <1>3

----------------------------------------------------------------------------
(* Lists of receivers.                                                     *)

(* The receivers that are listed, and what a list of them may be.          *)
Receiver == [accountId : Int, weight : Int]
Ascending(s) == \A i, k \in 1..Len(s) : i < k => s[i].accountId <= s[k].accountId
Strictly(s)  == \A i, k \in 1..Len(s) : i < k => s[i].accountId < s[k].accountId
NoDup(s)     == \A i, k \in 1..Len(s) : s[i] = s[k] => i = k

SameId(S) == \A x, y \in S : x.accountId = y.accountId => x = y

(* The members of a list.                                                  *)
LEMMA ToSetOf ==
    ASSUME NEW S, NEW s \in Seq(S)
    PROVE  ToSet(s) = {s[i] : i \in 1..Len(s)} /\ ToSet(s) \subseteq S
<1>1. DOMAIN s = 1..Len(s) /\ \A i \in 1..Len(s) : s[i] \in S
  BY LenProperties, ElementOfSeq
<1>. QED
  BY <1>1 DEF ToSet

(* Appending adds one member.                                              *)
LEMMA AppendSet ==
    ASSUME NEW S, NEW s \in Seq(S), NEW o \in S
    PROVE  /\ Append(s, o) \in Seq(S) /\ Len(Append(s, o)) = Len(s) + 1
           /\ ToSet(Append(s, o)) = ToSet(s) \union {o}
           /\ NoDup(s) /\ o \notin ToSet(s) => NoDup(Append(s, o))
<1>. DEFINE n == Len(s)
            t == Append(s, o)
<1>1. /\ n \in Nat /\ t \in Seq(S) /\ Len(t) = n + 1
      /\ t[n + 1] = o /\ \A i \in 1..n : t[i] = s[i]
  BY AppendProperties, LenProperties
<1>2. ToSet(s) = {s[i] : i \in 1..n} /\ ToSet(t) = {t[i] : i \in 1..(n + 1)}
  BY <1>1, ToSetOf
<1>. HIDE DEF n, t
<1>3. \A i \in 1..(n + 1) : i = n + 1 \/ i \in 1..n
  BY <1>1
<1>4. n + 1 \in 1..(n + 1) /\ \A i \in 1..n : i \in 1..(n + 1)
  BY <1>1
<1>5. ToSet(t) = ToSet(s) \union {o}
  BY <1>1, <1>2, <1>3, <1>4
<1>6. ASSUME NoDup(s), o \notin ToSet(s) PROVE NoDup(t)
  <2> SUFFICES ASSUME NEW i \in 1..(n + 1), NEW k \in 1..(n + 1), t[i] = t[k]
               PROVE  i = k
    BY <1>1 DEF NoDup
  <2>1. \A a \in 1..n : s[a] # o
    BY <1>2, <1>6
  <2>2. \A a, b \in 1..n : s[a] = s[b] => a = b
    BY <1>6 DEF NoDup, n
  <2>. QED
    BY <1>1, <1>3, <2>1, <2>2
<1>. QED
  BY <1>1, <1>5, <1>6 DEF n, t

----------------------------------------------------------------------------
(* Inserting a receiver where it belongs.                                  *)

(* A set of numbers that is not empty has a smallest one.                  *)
LEMMA SmallestExists ==
    ASSUME NEW S, S \subseteq Nat, S # {}
    PROVE  \E i \in S : \A k \in S : i <= k
<1>. DEFINE R == OpToRel(<, Nat)
<1>. HIDE DEF R
<1>1. IsWellFoundedOn(R, Nat)
  BY NatLessThanWellFounded DEF R
<1>2. PICK i \in S : \A k \in S : <<k, i>> \notin R
  BY <1>1, WFMin
<1>3. ASSUME NEW k \in S PROVE i <= k
  <2>1. ~(k < i)
    BY <1>2 DEF R, OpToRel
  <2>. QED
    BY <2>1
<1>. QED
  BY <1>3

(* In an ascending list there is a place for every receiver, behind those  *)
(* that are not above it and before the others.                            *)
LEMMA InsertPlace ==
    ASSUME NEW s \in Seq(Receiver), NEW o \in Receiver, Ascending(s)
    PROVE  \E p \in 1..(Len(s) + 1) :
              /\ \A i \in 1..Len(s) : i < p <=> s[i].accountId <= o.accountId
              /\ Insert(s, o) = InsertAt(s, p, o)
<1>. DEFINE n == Len(s)
            Place(p) == \A i \in 1..n : i < p <=> s[i].accountId <= o.accountId
            Above == {i \in 1..n : ~(s[i].accountId <= o.accountId)}
<1>1. n \in Nat /\ o.accountId \in Int /\ \A i \in 1..n : s[i].accountId \in Int
  <2>1. n \in Nat /\ \A i \in 1..n : s[i] \in Receiver
    BY LenProperties, ElementOfSeq
  <2>. QED
    BY <2>1 DEF Receiver
<1>2. \E p \in 1..(n + 1) : Place(p)
  <2>1. CASE Above = {}
    <3>1. Place(n + 1)
      BY <1>1, <2>1
    <3>. HIDE DEF Place
    <3>. QED
      BY <1>1, <3>1
  <2>2. CASE Above # {}
    <3>1. PICK p \in Above : \A k \in Above : p <= k
      <4>1. Above \subseteq Nat
        BY <1>1
      <4>. HIDE DEF Above
      <4>. QED
        BY <2>2, <4>1, SmallestExists
    <3>2. ASSUME NEW i \in 1..n PROVE i < p <=> s[i].accountId <= o.accountId
      <4>1. p \in 1..n /\ ~(s[p].accountId <= o.accountId)
        BY <3>1
      <4>2. CASE i < p
        BY <1>1, <3>1, <4>1, <4>2
      <4>3. CASE i = p
        BY <4>1, <4>3
      <4>4. CASE i > p
        <5>1. s[p].accountId <= s[i].accountId
          BY <4>1, <4>4 DEF Ascending
        <5>. QED
          BY <1>1, <4>1, <4>4, <5>1
      <4>. QED
        BY <1>1, <4>1, <4>2, <4>3, <4>4
    <3>3. Place(p) /\ p \in 1..(n + 1)
      BY <1>1, <3>1, <3>2
    <3>. HIDE DEF Place, Above
    <3>. QED
      BY <3>3
  <2>. QED
    BY <2>1, <2>2
<1>3. Insert(s, o) = InsertAt(s, CHOOSE p \in 1..(n + 1) : Place(p), o)
  BY DEF Insert
<1>. DEFINE c == CHOOSE p \in 1..(n + 1) : Place(p)
<1>4. c \in 1..(n + 1) /\ Place(c)
  <2>. HIDE DEF Place, n
  <2>. QED
    BY <1>2
<1>. HIDE DEF c
<1>. QED
  BY <1>3, <1>4 DEF c

(* What is before the place stays, what is behind it moves by one.         *)
LEMMA InsertElements ==
    ASSUME NEW s \in Seq(Receiver), NEW o \in Receiver, NEW p \in 1..(Len(s) + 1)
    PROVE  /\ InsertAt(s, p, o) \in Seq(Receiver)
           /\ Len(InsertAt(s, p, o)) = Len(s) + 1
           /\ \A i \in 1..(Len(s) + 1) :
                 InsertAt(s, p, o)[i] = IF i < p THEN s[i] ELSE IF i = p THEN o ELSE s[i - 1]
<1>. DEFINE n == Len(s)
            a == SubSeq(s, 1, p - 1)
            b == SubSeq(s, p, n)
            c == a \o <<o>>
<1>1. n \in Nat /\ \A i \in 1..n : s[i] \in Receiver
  BY LenProperties, ElementOfSeq
<1>2. /\ a \in Seq(Receiver) /\ Len(a) = p - 1 /\ \A i \in 1..(p - 1) : a[i] = s[i]
  <2>1. \A i \in 1..(p - 1) : s[i] \in Receiver
    BY <1>1
  <2>. QED
    BY <1>1, <2>1, SubSeqProperties
<1>3. /\ b \in Seq(Receiver) /\ Len(b) = n - p + 1
      /\ \A i \in 1..(n - p + 1) : b[i] = s[p + i - 1]
  <2>1. \A i \in p..n : s[i] \in Receiver
    BY <1>1
  <2>. QED
    BY <1>1, <2>1, SubSeqProperties
<1>4. <<o>> \in Seq(Receiver) /\ Len(<<o>>) = 1 /\ <<o>>[1] = o
  OBVIOUS
<1>. HIDE DEF a, b
<1>5. /\ c \in Seq(Receiver) /\ Len(c) = p
      /\ \A i \in 1..p : c[i] = IF i <= p - 1 THEN a[i] ELSE <<o>>[i - (p - 1)]
  BY <1>1, <1>2, <1>4, ConcatProperties
<1>. HIDE DEF c
<1>6. /\ c \o b \in Seq(Receiver) /\ Len(c \o b) = n + 1
      /\ \A i \in 1..(n + 1) : (c \o b)[i] = IF i <= p THEN c[i] ELSE b[i - p]
  BY <1>1, <1>3, <1>5, ConcatProperties
<1>7. InsertAt(s, p, o) = c \o b
  BY DEF InsertAt, a, b, c
<1>8. ASSUME NEW i \in 1..(n + 1)
      PROVE  (c \o b)[i] = IF i < p THEN s[i] ELSE IF i = p THEN o ELSE s[i - 1]
  <2>1. CASE i < p
    BY <1>1, <1>2, <1>5, <1>6, <2>1
  <2>2. CASE i = p
    BY <1>1, <1>4, <1>5, <1>6, <2>2
  <2>3. CASE i > p
    <3>1. i - p \in 1..(n - p + 1) /\ p + (i - p) - 1 = i - 1 /\ ~(i <= p)
      BY <1>1, <2>3
    <3>2. (c \o b)[i] = b[i - p]
      BY <1>6, <3>1
    <3>3. b[i - p] = s[p + (i - p) - 1]
      BY <1>3, <3>1
    <3>4. b[i - p] = s[i - 1]
      BY <3>1, <3>3
    <3>5. ~(i < p) /\ i # p
      BY <1>1, <2>3
    <3>. QED
      BY <3>2, <3>4, <3>5
  <2>4. i < p \/ i = p \/ i > p
    BY <1>1
  <2>. QED
    BY <2>1, <2>2, <2>3, <2>4
<1>. QED
  BY <1>6, <1>7, <1>8

(* The list stays ascending, and gains the receiver.                       *)
LEMMA InsertSorted ==
    ASSUME NEW s \in Seq(Receiver), NEW o \in Receiver, Ascending(s)
    PROVE  /\ Insert(s, o) \in Seq(Receiver) /\ Ascending(Insert(s, o))
           /\ Len(Insert(s, o)) = Len(s) + 1
           /\ ToSet(Insert(s, o)) = ToSet(s) \union {o}
           /\ NoDup(s) /\ o \notin ToSet(s) => NoDup(Insert(s, o))
<1>. DEFINE n == Len(s)
            t == Insert(s, o)
<1>1. n \in Nat /\ o.accountId \in Int /\ \A i \in 1..n : s[i].accountId \in Int
  <2>1. n \in Nat /\ \A i \in 1..n : s[i] \in Receiver
    BY LenProperties, ElementOfSeq
  <2>. QED
    BY <2>1 DEF Receiver
<1>2. PICK p \in 1..(n + 1) :
         /\ \A i \in 1..n : i < p <=> s[i].accountId <= o.accountId
         /\ Insert(s, o) = InsertAt(s, p, o)
  BY InsertPlace
<1>3. /\ t \in Seq(Receiver) /\ Len(t) = n + 1
      /\ \A i \in 1..(n + 1) : t[i] = IF i < p THEN s[i] ELSE IF i = p THEN o ELSE s[i - 1]
  <2>1. t = InsertAt(s, p, o) /\ p \in 1..(Len(s) + 1)
    BY <1>2
  <2>2. /\ InsertAt(s, p, o) \in Seq(Receiver) /\ Len(InsertAt(s, p, o)) = Len(s) + 1
        /\ \A i \in 1..(Len(s) + 1) :
              InsertAt(s, p, o)[i] = IF i < p THEN s[i] ELSE IF i = p THEN o ELSE s[i - 1]
    BY <2>1, InsertElements
  <2>. HIDE DEF t
  <2>. QED
    BY <2>1, <2>2
<1>. HIDE DEF t
<1>4. ToSet(s) = {s[i] : i \in 1..n} /\ ToSet(t) = {t[i] : i \in 1..(n + 1)}
  BY <1>3, ToSetOf
<1>. HIDE DEF n
<1>5. \A i \in 1..(n + 1) : /\ i < p => i \in 1..n /\ t[i] = s[i]
                            /\ i = p => t[i] = o
                            /\ i > p => i - 1 \in 1..n /\ ~(i - 1 < p) /\ t[i] = s[i - 1]
                            /\ i < p \/ i = p \/ i > p
  <2> SUFFICES ASSUME NEW i \in 1..(n + 1)
               PROVE  /\ i < p => i \in 1..n /\ t[i] = s[i]
                      /\ i = p => t[i] = o
                      /\ i > p => i - 1 \in 1..n /\ ~(i - 1 < p) /\ t[i] = s[i - 1]
                      /\ i < p \/ i = p \/ i > p
    OBVIOUS
  <2>1. t[i] = IF i < p THEN s[i] ELSE IF i = p THEN o ELSE s[i - 1]
    BY <1>3
  <2>2. i \in Nat /\ p \in Nat /\ i <= n + 1 /\ p <= n + 1 /\ 1 <= i /\ 1 <= p
    BY <1>1
  <2>. QED
    BY <1>1, <2>1, <2>2
<1>6. Ascending(t)
  <2> SUFFICES ASSUME NEW i \in 1..(n + 1), NEW k \in 1..(n + 1), i < k
               PROVE  t[i].accountId <= t[k].accountId
    BY <1>3 DEF Ascending
  <2>0. \A a, b \in 1..n : a < b \/ a = b => s[a].accountId <= s[b].accountId
    BY <1>1 DEF Ascending, n
  <2>1. CASE i < p /\ k < p
    BY <1>5, <2>0, <2>1
  <2>2. CASE i < p /\ k = p
    BY <1>2, <1>5, <2>2
  <2>3. CASE i < p /\ k > p
    <3>1. i < k - 1 \/ i = k - 1
      BY <1>1, <2>3
    <3>2. i \in 1..n /\ t[i] = s[i] /\ k - 1 \in 1..n /\ t[k] = s[k - 1]
      BY <1>5, <2>3
    <3>. QED
      BY <2>0, <3>1, <3>2
  <2>4. CASE i = p /\ k > p
    <3>1. t[i] = o /\ k - 1 \in 1..n /\ ~(k - 1 < p) /\ t[k] = s[k - 1]
      BY <1>5, <2>4
    <3>2. ~(s[k - 1].accountId <= o.accountId)
      BY <1>2, <3>1
    <3>. QED
      BY <1>1, <3>1, <3>2
  <2>5. CASE i > p /\ k > p
    <3>1. i - 1 < k - 1
      BY <1>1
    <3>2. i - 1 \in 1..n /\ t[i] = s[i - 1] /\ k - 1 \in 1..n /\ t[k] = s[k - 1]
      BY <1>5, <2>5
    <3>. QED
      BY <2>0, <3>1, <3>2
  <2>6. (i < p \/ i = p \/ i > p) /\ (i >= p => k > p) /\ (k < p \/ k = p \/ k > p)
    BY <1>1
  <2>7. i = p => i >= p
    BY <1>1
  <2>8. i > p => i >= p
    BY <1>1
  <2>. QED
    BY <2>1, <2>2, <2>3, <2>4, <2>5, <2>6, <2>7, <2>8
<1>7. ToSet(t) = ToSet(s) \union {o}
  <2>1. ASSUME NEW i \in 1..(n + 1) PROVE t[i] \in {s[j] : j \in 1..n} \union {o}
    BY <1>5
  <2>2. o = t[p]
    BY <1>5
  <2>3. ASSUME NEW i \in 1..n PROVE s[i] \in {t[j] : j \in 1..(n + 1)}
    <3>1. CASE i < p
      <4>1. i \in 1..(n + 1)
        BY <1>1
      <4>. QED
        BY <1>5, <3>1, <4>1
    <3>2. CASE ~(i < p)
      <4>1. i + 1 \in 1..(n + 1) /\ i + 1 > p /\ (i + 1) - 1 = i
        BY <1>1, <3>2
      <4>2. t[i + 1] = s[i]
        BY <1>5, <4>1
      <4>. QED
        BY <4>1, <4>2
    <3>. QED
      BY <3>1, <3>2
  <2>. QED
    BY <1>4, <2>1, <2>2, <2>3
<1>8. ASSUME NoDup(s), o \notin ToSet(s) PROVE NoDup(t)
  <2> SUFFICES ASSUME NEW i \in 1..(n + 1), NEW k \in 1..(n + 1), t[i] = t[k]
               PROVE  i = k
    BY <1>3 DEF NoDup
  <2>0. \A a \in 1..n : s[a] # o
    BY <1>4, <1>8
  <2>1. \A a, b \in 1..n : s[a] = s[b] => a = b
    BY <1>8 DEF NoDup, n
  <2>2. CASE i < p /\ k < p
    BY <1>5, <2>1, <2>2
  <2>3. CASE i = p \/ k = p
    BY <1>5, <2>0, <2>3
  <2>4. CASE i > p /\ k > p
    <3>1. i - 1 = k - 1
      BY <1>5, <2>1, <2>4
    <3>. QED
      BY <1>1, <3>1
  <2>5. CASE i < p /\ k > p
    <3>1. i = k - 1 /\ ~(k - 1 < p)
      BY <1>5, <2>1, <2>5
    <3>. QED
      BY <2>5, <3>1
  <2>6. CASE i > p /\ k < p
    <3>1. i - 1 = k /\ ~(i - 1 < p)
      BY <1>5, <2>1, <2>6
    <3>. QED
      BY <2>6, <3>1
  <2>. QED
    BY <1>5, <2>2, <2>3, <2>4, <2>5, <2>6
<1>. QED
  BY <1>3, <1>6, <1>7, <1>8 DEF t, n

----------------------------------------------------------------------------
(* formatSplitReceivers.                                                   *)

(* The lists that Unique goes through, one for each prefix.                *)
LEMMA UniqueSteps ==
    ASSUME NEW S, NEW s \in Seq(S)
    PROVE  \E u \in [0..Len(s) -> Seq(S)] :
              /\ Unique(s) = u[Len(s)] /\ u[0] = << >>
              /\ \A k \in 1..Len(s) :
                    u[k] = IF s[k] \in ToSet(u[k - 1]) THEN u[k - 1] ELSE Append(u[k - 1], s[k])
<1>. DEFINE n == Len(s)
            Add(k, before) == IF s[k] \in ToSet(before) THEN before ELSE Append(before, s[k])
            Def(g) == [k \in 0..n |-> IF k = 0 THEN << >> ELSE Add(k, g[k - 1])]
            u == CHOOSE g : g = Def(g)
<1>1. n \in Nat /\ \A k \in 1..n : s[k] \in S
  BY LenProperties, ElementOfSeq
<1>2. Unique(s) = u[n]
  BY DEF Unique
<1>. HIDE DEF n
<1>3. \A k \in 1..n, before \in Seq(S) : Add(k, before) \in Seq(S)
  BY <1>1, AppendProperties
<1>4. \E g : g = Def(g)
  <2>. DEFINE step == [k \in 1..n |-> [before \in Seq(S) |-> Add(k, before)]]
  <2>1. step \in [1..n -> [Seq(S) -> Seq(S)]] /\ << >> \in Seq(S)
    <3>. HIDE DEF Add
    <3>. QED
      BY <1>3, EmptySeq
  <2>2. PICK f \in [0..n -> Seq(S)] :
           f[0] = << >> /\ \A k \in 1..n : f[k] = step[k][f[k - 1]]
    <3>. DEFINE T == Seq(S)  base == << >>
    <3>1. base \in T /\ step \in [1..n -> [T -> T]]
      BY <2>1
    <3>. HIDE DEF step, T, base
    <3>2. PICK f : FoldOf(f, n, T, base, step)
      BY <1>1, <3>1, FoldDefined
    <3>. QED
      BY <3>2 DEF T, base, FoldOf
  <2>3. \A k \in 1..n : k - 1 \in 0..n /\ f[k] = Add(k, f[k - 1])
    <3>. HIDE DEF Add
    <3>1. \A k \in 1..n : k - 1 \in 0..n
      BY <1>1
    <3>. QED
      BY <2>2, <3>1
  <2>4. f = Def(f)
    <3>. HIDE DEF Add
    <3>1. \A k \in 0..n : k # 0 => k \in 1..n
      BY <1>1
    <3>. QED
      BY <2>2, <2>3, <3>1
  <2>. QED
    <3>. HIDE DEF Def
    <3>. QED
      BY <2>4
<1>5. u = Def(u)
  <2>. HIDE DEF Def
  <2>. QED
    BY <1>4
<1>. HIDE DEF u
<1>6. u[0] = << >> /\ \A k \in 1..n : u[k] = Add(k, u[k - 1])
  <2>. HIDE DEF Add
  <2>1. 0 \in 0..n /\ \A k \in 1..n : k \in 0..n /\ k # 0
    BY <1>1
  <2>2. \A k \in 0..n : u[k] = IF k = 0 THEN << >> ELSE Add(k, u[k - 1])
    BY <1>5
  <2>. QED
    BY <2>1, <2>2
<1>7. u \in [0..n -> Seq(S)]
  <2>. HIDE DEF Add
  <2>1. u[0] \in Seq(S)
    BY <1>6, EmptySeq
  <2>2. \A k \in 1..n : u[k - 1] \in Seq(S) => u[k] \in Seq(S)
    BY <1>3, <1>6
  <2>3. DOMAIN u = 0..n /\ u = [k \in 0..n |-> u[k]]
    BY <1>5
  <2>. QED
    BY <1>1, <2>1, <2>2, <2>3, StaysIn
<1>. QED
  <2>. HIDE DEF Def
  <2>. QED
    BY <1>2, <1>6, <1>7 DEF n

AscendingSeq == {s \in Seq(Receiver) : Ascending(s)}

(* The empty list is ascending.                                            *)
LEMMA EmptyAscending == << >> \in AscendingSeq
BY EmptySeq DEF AscendingSeq, Ascending

(* The lists that SortById goes through.                                   *)
LEMMA SortSteps ==
    ASSUME NEW s \in Seq(Receiver)
    PROVE  \E u \in [0..Len(s) -> AscendingSeq] :
              /\ SortById(s) = u[Len(s)] /\ u[0] = << >>
              /\ \A k \in 1..Len(s) :
                    u[k] = Insert(u[k - 1], s[k])
<1>. DEFINE n == Len(s)
            Add(k, before) == Insert(before, s[k])
            Def(g) == [k \in 0..n |-> IF k = 0 THEN << >> ELSE Add(k, g[k - 1])]
            u == CHOOSE g : g = Def(g)
<1>1. n \in Nat /\ \A k \in 1..n : s[k] \in Receiver
  BY LenProperties, ElementOfSeq
<1>2. SortById(s) = u[n]
  BY DEF SortById
<1>. HIDE DEF n
<1>3. \A k \in 1..n, before \in AscendingSeq : Add(k, before) \in AscendingSeq
  BY <1>1, InsertSorted DEF AscendingSeq
<1>4. \E g : g = Def(g)
  <2>. DEFINE step == [k \in 1..n |-> [before \in AscendingSeq |-> Add(k, before)]]
  <2>1. step \in [1..n -> [AscendingSeq -> AscendingSeq]] /\ << >> \in AscendingSeq
    <3>. HIDE DEF Add
    <3>. QED
      BY <1>3, EmptyAscending
  <2>2. PICK f \in [0..n -> AscendingSeq] :
           f[0] = << >> /\ \A k \in 1..n : f[k] = step[k][f[k - 1]]
    <3>. DEFINE T == AscendingSeq  base == << >>
    <3>1. base \in T /\ step \in [1..n -> [T -> T]]
      BY <2>1
    <3>. HIDE DEF step, T, base
    <3>2. PICK f : FoldOf(f, n, T, base, step)
      BY <1>1, <3>1, FoldDefined
    <3>. QED
      BY <3>2 DEF T, base, FoldOf
  <2>3. \A k \in 1..n : k - 1 \in 0..n /\ f[k] = Add(k, f[k - 1])
    <3>. HIDE DEF Add
    <3>1. \A k \in 1..n : k - 1 \in 0..n
      BY <1>1
    <3>. QED
      BY <2>2, <3>1
  <2>4. f = Def(f)
    <3>. HIDE DEF Add
    <3>1. \A k \in 0..n : k # 0 => k \in 1..n
      BY <1>1
    <3>. QED
      BY <2>2, <2>3, <3>1
  <2>. QED
    <3>. HIDE DEF Def
    <3>. QED
      BY <2>4
<1>5. u = Def(u)
  <2>. HIDE DEF Def
  <2>. QED
    BY <1>4
<1>. HIDE DEF u
<1>6. u[0] = << >> /\ \A k \in 1..n : u[k] = Add(k, u[k - 1])
  <2>. HIDE DEF Add
  <2>1. 0 \in 0..n /\ \A k \in 1..n : k \in 0..n /\ k # 0
    BY <1>1
  <2>2. \A k \in 0..n : u[k] = IF k = 0 THEN << >> ELSE Add(k, u[k - 1])
    BY <1>5
  <2>. QED
    BY <2>1, <2>2
<1>7. u \in [0..n -> AscendingSeq]
  <2>. HIDE DEF Add
  <2>1. u[0] \in AscendingSeq
    BY <1>6, EmptyAscending
  <2>2. \A k \in 1..n : u[k - 1] \in AscendingSeq => u[k] \in AscendingSeq
    BY <1>3, <1>6
  <2>3. DOMAIN u = 0..n /\ u = [k \in 0..n |-> u[k]]
    BY <1>5
  <2>. QED
    BY <1>1, <2>1, <2>2, <2>3, StaysIn
<1>. QED
  <2>. HIDE DEF Def
  <2>. QED
    BY <1>2, <1>6, <1>7 DEF n

(* Unique keeps every receiver, once, and drops none that is there once.   *)
LEMMA UniqueSet ==
    ASSUME NEW S, NEW s \in Seq(S)
    PROVE  /\ Unique(s) \in Seq(S) /\ NoDup(Unique(s)) /\ ToSet(Unique(s)) = ToSet(s)
           /\ NoDup(s) => Len(Unique(s)) = Len(s)
<1>. DEFINE n == Len(s)
            Before(k) == {s[i] : i \in 1..k}
<1>1. n \in Nat /\ (\A k \in 1..n : s[k] \in S) /\ ToSet(s) = Before(n)
  BY LenProperties, ElementOfSeq, ToSetOf
<1>2. PICK u \in [0..n -> Seq(S)] :
         /\ Unique(s) = u[n] /\ u[0] = << >>
         /\ \A k \in 1..n :
               u[k] = IF s[k] \in ToSet(u[k - 1]) THEN u[k - 1] ELSE Append(u[k - 1], s[k])
  BY UniqueSteps
<1>. DEFINE Good(k) == /\ NoDup(u[k]) /\ ToSet(u[k]) = Before(k)
                       /\ NoDup(s) => Len(u[k]) = k
            T == {k \in 0..n : Good(k)}
<1>3. 0 \in T
  <2>1. Before(0) = {} /\ ToSet(<< >>) = {} /\ Len(<< >>) = 0 /\ NoDup(<< >>)
    BY DEF ToSet, NoDup
  <2>2. u[0] = << >> /\ 0 \in 0..n
    BY <1>1, <1>2
  <2>. HIDE DEF Before, n
  <2>3. Good(0)
    BY <2>1, <2>2
  <2>. QED
    BY <2>2, <2>3
<1>. HIDE DEF n
<1>4. ASSUME NEW k \in 0..n, k < n, Good(k) PROVE Good(k + 1)
  <2>1. k + 1 \in 1..n /\ k \in 0..n /\ (k + 1) - 1 = k /\ k \in Nat
    BY <1>1, <1>4
  <2>2. u[k + 1] = IF s[k + 1] \in ToSet(u[k]) THEN u[k] ELSE Append(u[k], s[k + 1])
    BY <1>2, <2>1
  <2>3. u[k] \in Seq(S) /\ s[k + 1] \in S
    BY <1>1, <1>2, <2>1
  <2>4. Before(k + 1) = Before(k) \union {s[k + 1]}
    <3>1. \A i \in 1..(k + 1) : i \in 1..k \/ i = k + 1
      BY <2>1
    <3>2. k + 1 \in 1..(k + 1) /\ \A i \in 1..k : i \in 1..(k + 1)
      BY <2>1
    <3>. QED
      BY <3>1, <3>2
  <2>5. NoDup(s) => s[k + 1] \notin Before(k)
    <3> SUFFICES ASSUME NoDup(s), NEW i \in 1..k PROVE s[i] # s[k + 1]
      OBVIOUS
    <3>1. i \in 1..n /\ i # k + 1
      BY <1>1, <2>1
    <3>. QED
      BY <2>1, <3>1 DEF NoDup, n
  <2>. HIDE DEF Before
  <2>6. CASE s[k + 1] \in ToSet(u[k])
    <3>1. u[k + 1] = u[k] /\ s[k + 1] \in Before(k)
      BY <1>4, <2>2, <2>6
    <3>2. Before(k + 1) = Before(k) /\ ~NoDup(s)
      BY <2>4, <2>5, <3>1
    <3>. QED
      BY <1>4, <3>1, <3>2
  <2>7. CASE s[k + 1] \notin ToSet(u[k])
    <3>1. u[k + 1] = Append(u[k], s[k + 1])
      BY <2>2, <2>7
    <3>2. /\ Len(u[k + 1]) = Len(u[k]) + 1 /\ ToSet(u[k + 1]) = ToSet(u[k]) \union {s[k + 1]}
          /\ NoDup(u[k + 1])
      BY <1>4, <2>3, <2>7, <3>1, AppendSet
    <3>. QED
      BY <1>4, <2>4, <3>2
  <2>. QED
    BY <2>6, <2>7
<1>5. \A k \in 0..n : k \in T
  <2>1. \A k \in 0..n : k < n /\ k \in T => k + 1 \in T
    <3> SUFFICES ASSUME NEW k \in 0..n, k < n, Good(k) PROVE k + 1 \in 0..n /\ Good(k + 1)
      OBVIOUS
    <3>1. k + 1 \in 0..n
      BY <1>1
    <3>. HIDE DEF Good
    <3>. QED
      BY <1>4, <3>1
  <2>. HIDE DEF T
  <2>. QED
    BY <1>1, <1>3, <2>1, Induction
<1>6. Good(n) /\ n \in 0..n
  <2>1. n \in 0..n
    BY <1>1
  <2>. HIDE DEF Good
  <2>. QED
    BY <1>5, <2>1
<1>. QED
  BY <1>1, <1>2, <1>6 DEF n

(* SortById keeps every receiver as often as it is there, in ascending     *)
(* order.                                                                  *)
LEMMA SortSet ==
    ASSUME NEW s \in Seq(Receiver)
    PROVE  /\ SortById(s) \in Seq(Receiver) /\ Ascending(SortById(s))
           /\ Len(SortById(s)) = Len(s) /\ ToSet(SortById(s)) = ToSet(s)
           /\ NoDup(s) => NoDup(SortById(s))
<1>. DEFINE n == Len(s)
            Before(k) == {s[i] : i \in 1..k}
<1>1. n \in Nat /\ (\A k \in 1..n : s[k] \in Receiver) /\ ToSet(s) = Before(n)
  BY LenProperties, ElementOfSeq, ToSetOf
<1>2. PICK u \in [0..n -> AscendingSeq] :
         /\ SortById(s) = u[n] /\ u[0] = << >>
         /\ \A k \in 1..n : u[k] = Insert(u[k - 1], s[k])
  BY SortSteps
<1>. DEFINE Good(k) == /\ ToSet(u[k]) = Before(k) /\ Len(u[k]) = k
                       /\ NoDup(s) => NoDup(u[k])
            T == {k \in 0..n : Good(k)}
<1>3. 0 \in T
  <2>1. Before(0) = {} /\ ToSet(<< >>) = {} /\ Len(<< >>) = 0 /\ NoDup(<< >>)
    BY DEF ToSet, NoDup
  <2>2. u[0] = << >> /\ 0 \in 0..n
    BY <1>1, <1>2
  <2>. HIDE DEF Before, n
  <2>3. Good(0)
    BY <2>1, <2>2
  <2>. QED
    BY <2>2, <2>3
<1>. HIDE DEF n
<1>4. ASSUME NEW k \in 0..n, k < n, Good(k) PROVE Good(k + 1)
  <2>1. k + 1 \in 1..n /\ k \in 0..n /\ (k + 1) - 1 = k /\ k \in Nat
    BY <1>1, <1>4
  <2>2. u[k + 1] = Insert(u[k], s[k + 1])
    BY <1>2, <2>1
  <2>3. u[k] \in Seq(Receiver) /\ Ascending(u[k]) /\ s[k + 1] \in Receiver
    BY <1>1, <1>2, <2>1 DEF AscendingSeq
  <2>4. Before(k + 1) = Before(k) \union {s[k + 1]}
    <3>1. \A i \in 1..(k + 1) : i \in 1..k \/ i = k + 1
      BY <2>1
    <3>2. k + 1 \in 1..(k + 1) /\ \A i \in 1..k : i \in 1..(k + 1)
      BY <2>1
    <3>. QED
      BY <3>1, <3>2
  <2>5. NoDup(s) => s[k + 1] \notin Before(k)
    <3> SUFFICES ASSUME NoDup(s), NEW i \in 1..k PROVE s[i] # s[k + 1]
      OBVIOUS
    <3>1. i \in 1..n /\ i # k + 1
      BY <1>1, <2>1
    <3>. QED
      BY <2>1, <3>1 DEF NoDup, n
  <2>. HIDE DEF Before
  <2>6. /\ Len(u[k + 1]) = Len(u[k]) + 1 /\ ToSet(u[k + 1]) = ToSet(u[k]) \union {s[k + 1]}
        /\ NoDup(u[k]) /\ s[k + 1] \notin ToSet(u[k]) => NoDup(u[k + 1])
    BY <2>2, <2>3, InsertSorted
  <2>. QED
    BY <1>4, <2>4, <2>5, <2>6
<1>5. \A k \in 0..n : k \in T
  <2>1. \A k \in 0..n : k < n /\ k \in T => k + 1 \in T
    <3> SUFFICES ASSUME NEW k \in 0..n, k < n, Good(k) PROVE k + 1 \in 0..n /\ Good(k + 1)
      OBVIOUS
    <3>1. k + 1 \in 0..n
      BY <1>1
    <3>. HIDE DEF Good
    <3>. QED
      BY <1>4, <3>1
  <2>. HIDE DEF T
  <2>. QED
    BY <1>1, <1>3, <2>1, Induction
<1>6. Good(n) /\ n \in 0..n
  <2>1. n \in 0..n
    BY <1>1
  <2>. HIDE DEF Good
  <2>. QED
    BY <1>5, <2>1
<1>7. SortById(s) \in Seq(Receiver) /\ Ascending(SortById(s))
  BY <1>2, <1>6 DEF AscendingSeq
<1>. QED
  BY <1>1, <1>2, <1>6, <1>7 DEF n

(* The list that formatSplitReceivers makes is in ascending order, has     *)
(* every receiver that was given and no other, and each once: sorting and  *)
(* dropping what is there twice loses nothing.                             *)
THEOREM Formatted ==
    ASSUME NEW s \in Seq(Receiver)
    PROVE  /\ FormatSplitReceivers(s) \in Seq(Receiver)
           /\ Ascending(FormatSplitReceivers(s)) /\ NoDup(FormatSplitReceivers(s))
           /\ ToSet(FormatSplitReceivers(s)) = ToSet(s)
           /\ NoDup(s) => Len(FormatSplitReceivers(s)) = Len(s)
<1>. DEFINE t == Unique(s)
<1>1. t \in Seq(Receiver) /\ NoDup(t) /\ ToSet(t) = ToSet(s) /\ (NoDup(s) => Len(t) = Len(s))
  BY UniqueSet
<1>2. FormatSplitReceivers(s) = SortById(t)
  BY DEF FormatSplitReceivers
<1>. HIDE DEF t
<1>. QED
  BY <1>1, <1>2, SortSet

----------------------------------------------------------------------------
(* The canonical form.                                                     *)

(* A list without duplicates is strictly ascending if no two of its members *)
(* share an id,                                                            *)
LEMMA StrictlyAscending ==
    ASSUME NEW s \in Seq(Receiver), Ascending(s), NoDup(s), SameId(ToSet(s))
    PROVE  Strictly(s)
<1>. DEFINE n == Len(s)
<1>1. (\A i \in 1..n : s[i] \in Receiver) /\ ToSet(s) = {s[i] : i \in 1..n} /\ n \in Nat
  BY LenProperties, ElementOfSeq, ToSetOf
<1>2. \A i \in 1..n : s[i].accountId \in Int
  BY <1>1 DEF Receiver
<1>3. ASSUME NEW i \in 1..n, NEW k \in 1..n, i < k
      PROVE  s[i].accountId < s[k].accountId
  <2>1. s[i].accountId <= s[k].accountId
    BY <1>3 DEF Ascending
  <2>2. s[i] # s[k]
    BY <1>1, <1>3 DEF NoDup
  <2>3. s[i] \in ToSet(s) /\ s[k] \in ToSet(s)
    BY <1>1
  <2>4. s[i].accountId # s[k].accountId
    BY <2>2, <2>3 DEF SameId
  <2>. QED
    BY <1>2, <2>1, <2>4
<1>. QED
  BY <1>3 DEF Strictly

(* and then no two do.                                                     *)
LEMMA StrictlySame ==
    ASSUME NEW s \in Seq(Receiver), Strictly(s)
    PROVE  SameId(ToSet(s))
<1>. DEFINE n == Len(s)
<1>1. (\A i \in 1..n : s[i] \in Receiver) /\ ToSet(s) = {s[i] : i \in 1..n} /\ n \in Nat
  BY LenProperties, ElementOfSeq, ToSetOf
<1>2. \A i \in 1..n : s[i].accountId \in Int
  BY <1>1 DEF Receiver
<1>3. ASSUME NEW i \in 1..n, NEW k \in 1..n, s[i].accountId = s[k].accountId
      PROVE  s[i] = s[k]
  <2>1. ~(i < k) /\ ~(k < i)
    BY <1>2, <1>3 DEF Strictly
  <2>. QED
    BY <1>1, <2>1
<1>. QED
  BY <1>1, <1>3 DEF SameId

(* Of two strictly ascending lists with the same members, the one begins   *)
(* with the other,                                                         *)
LEMMA Agree ==
    ASSUME NEW s \in Seq(Receiver), NEW t \in Seq(Receiver), Strictly(s), Strictly(t),
           ToSet(s) = ToSet(t)
    PROVE  Len(s) <= Len(t) /\ \A i \in 1..Len(s) : s[i] = t[i]
<1>. DEFINE n == Len(s)
            m == Len(t)
            Good(k) == k <= m /\ \A i \in 1..k : s[i] = t[i]
            T == {k \in 0..n : Good(k)}
<1>1. /\ n \in Nat /\ ToSet(s) = {s[i] : i \in 1..n}
      /\ m \in Nat /\ ToSet(t) = {t[i] : i \in 1..m}
      /\ \A i \in 1..n : s[i] \in Receiver
      /\ \A i \in 1..m : t[i] \in Receiver
  BY LenProperties, ElementOfSeq, ToSetOf
<1>2. /\ \A i \in 1..n : s[i].accountId \in Int
      /\ \A i \in 1..m : t[i].accountId \in Int
  BY <1>1 DEF Receiver
<1>3. /\ \A i, k \in 1..n : i < k => s[i].accountId < s[k].accountId
      /\ \A i, k \in 1..m : i < k => t[i].accountId < t[k].accountId
  BY DEF Strictly
<1>. HIDE DEF n, m
<1>4. ASSUME NEW k \in 0..n, k < n, Good(k) PROVE Good(k + 1)
  <2>1. k + 1 \in 1..n /\ k \in Nat /\ k <= m
    BY <1>1, <1>4
  <2>2. PICK j \in 1..m : t[j] = s[k + 1]
    <3>1. s[k + 1] \in ToSet(t)
      BY <1>1, <2>1
    <3>. QED
      BY <1>1, <3>1
  <2>3. j > k
    <3> SUFFICES ASSUME j <= k PROVE FALSE
      BY <1>1
    <3>1. j \in 1..k /\ j \in 1..n /\ j < k + 1
      BY <1>1, <2>1
    <3>2. s[j] = s[k + 1]
      BY <1>4, <2>2, <3>1
    <3>3. s[j].accountId < s[k + 1].accountId
      BY <1>3, <2>1, <3>1
    <3>. QED
      BY <1>2, <2>1, <3>2, <3>3
  <2>4. k + 1 \in 1..m
    BY <1>1, <2>1, <2>3
  <2>5. PICK h \in 1..n : s[h] = t[k + 1]
    <3>1. t[k + 1] \in ToSet(s)
      BY <1>1, <2>4
    <3>. QED
      BY <1>1, <3>1
  <2>6. h > k
    <3> SUFFICES ASSUME h <= k PROVE FALSE
      BY <1>1
    <3>1. h \in 1..k /\ h \in 1..m /\ h < k + 1
      BY <1>1, <2>1
    <3>2. t[h] = t[k + 1]
      BY <1>4, <2>5, <3>1
    <3>3. t[h].accountId < t[k + 1].accountId
      BY <1>3, <2>4, <3>1
    <3>. QED
      BY <1>2, <2>4, <3>2, <3>3
  <2>7. s[k + 1] = t[k + 1]
    <3>1. CASE j = k + 1
      BY <2>2, <3>1
    <3>2. CASE j > k + 1
      <4>1. t[k + 1].accountId < s[k + 1].accountId
        BY <1>3, <2>2, <2>4, <3>2
      <4>2. h = k + 1 \/ k + 1 < h
        BY <1>1, <2>1, <2>6
      <4>3. k + 1 < h => s[k + 1].accountId < t[k + 1].accountId
        BY <1>3, <2>1, <2>5
      <4>. QED
        BY <1>2, <2>1, <2>4, <2>5, <4>1, <4>2, <4>3
    <3>3. j = k + 1 \/ j > k + 1
      BY <1>1, <2>1, <2>3
    <3>. QED
      BY <3>1, <3>2, <3>3
  <2>8. \A i \in 1..(k + 1) : i \in 1..k \/ i = k + 1
    BY <2>1
  <2>9. k + 1 <= m
    BY <1>1, <2>4
  <2>. QED
    BY <1>4, <2>7, <2>8, <2>9
<1>5. \A k \in 0..n : k \in T
  <2>1. \A k \in 0..n : k < n /\ k \in T => k + 1 \in T
    <3> SUFFICES ASSUME NEW k \in 0..n, k < n, Good(k) PROVE k + 1 \in 0..n /\ Good(k + 1)
      OBVIOUS
    <3>1. k + 1 \in 0..n
      BY <1>1
    <3>. HIDE DEF Good
    <3>. QED
      BY <1>4, <3>1
  <2>2. 0 \in T
    BY <1>1
  <2>. HIDE DEF T
  <2>. QED
    BY <1>1, <2>1, <2>2, Induction
<1>6. Good(n)
  <2>1. n \in 0..n
    BY <1>1
  <2>. HIDE DEF Good
  <2>. QED
    BY <1>5, <2>1
<1>. QED
  BY <1>6 DEF n, m

(* and so they are equal.                                                  *)
LEMMA SameReceivers ==
    ASSUME NEW s \in Seq(Receiver), NEW t \in Seq(Receiver), Strictly(s), Strictly(t),
           ToSet(s) = ToSet(t)
    PROVE  s = t
<1>1. Len(s) \in Nat /\ Len(t) \in Nat
  BY LenProperties
<1>2. Len(s) <= Len(t) /\ \A i \in 1..Len(s) : s[i] = t[i]
  BY Agree
<1>3. Len(t) <= Len(s)
  BY Agree
<1>4. Len(s) = Len(t)
  BY <1>1, <1>2, <1>3
<1>. QED
  BY <1>2, <1>4, SeqEqual

(* Receivers of which no two share an id have one form, in whatever order  *)
(* and however often each is named: what formatSplitReceivers returns is   *)
(* theirs, and a hash of it can be compared.                               *)
THEOREM OneForm ==
    ASSUME NEW s \in Seq(Receiver), NEW t \in Seq(Receiver),
           ToSet(s) = ToSet(t), SameId(ToSet(s))
    PROVE  FormatSplitReceivers(s) = FormatSplitReceivers(t)
<1>. DEFINE f == FormatSplitReceivers(s)
            g == FormatSplitReceivers(t)
<1>1. /\ f \in Seq(Receiver) /\ Ascending(f) /\ NoDup(f) /\ ToSet(f) = ToSet(s)
      /\ g \in Seq(Receiver) /\ Ascending(g) /\ NoDup(g) /\ ToSet(g) = ToSet(t)
  BY Formatted
<1>. HIDE DEF f, g
<1>2. Strictly(f) /\ Strictly(g)
  BY <1>1, StrictlyAscending
<1>3. f = g
  BY <1>1, <1>2, SameReceivers
<1>. QED
  BY <1>3 DEF f, g

----------------------------------------------------------------------------
(* Account ids.                                                            *)

(* An id of a known driver is in range.                                    *)
LEMMA DriversInRange ==
    ASSUME NEW id, IsRepoDriverId(id) \/ IsRepoSubAccountDriverId(id)
    PROVE  id \in Ids
  BY DEF IsRepoDriverId, IsRepoSubAccountDriverId, GetContractNameFromAccountId

(* The repository of a sub-account is a repository, whose sub-account is   *)
(* the one it is of: calcSubRepoDriverId undoes calcParentRepoDriverId.    *)
THEOREM SubOfParent ==
    ASSUME NEW id, CalcParentRepoDriverId(id) # NoId
    PROVE  /\ IsRepoDriverId(CalcParentRepoDriverId(id))
           /\ CalcParentRepoDriverId(id) \in Ids
           /\ CalcSubRepoDriverId(CalcParentRepoDriverId(id)) = id
<1>. DEFINE repo == CalcAccountId(id)
<1>1. /\ CalcParentRepoDriverId(id) = repo /\ IsRepoSubAccountDriverId(id)
      /\ IsRepoDriverId(repo) /\ CalcAccountId(repo) = id
  BY DEF CalcParentRepoDriverId, Transform
<1>2. CalcSubRepoDriverId(repo) = id
  <2>. HIDE DEF repo
  <2>. QED
    BY <1>1 DEF CalcSubRepoDriverId, Transform, repo
<1>. QED
  BY <1>1, <1>2, DriversInRange

----------------------------------------------------------------------------
(* From a document to the rows and back.                                   *)

(* A recipient whose id fits its type has a row, and the row gives back    *)
(* the receiver that the document names.                                   *)
LEMMA RowRoundTrip ==
    ASSUME NEW r \in Recipient, Fits(r)
    PROVE  ToRow(r) \in DbRow /\ FromRow(ToRow(r)) = ToReceiver(r)
<1>1. r.to.accountId \in Ids /\ r.weight \in 0..MaxWeight
  BY ReceiversAssumption DEF Recipient
<1>2. CASE r.to.type = "repoSubAccountDriver"
  <2>1. CalcParentRepoDriverId(r.to.accountId) # NoId
    BY <1>2 DEF Fits
  <2>2. /\ CalcParentRepoDriverId(r.to.accountId) \in Ids
        /\ CalcSubRepoDriverId(CalcParentRepoDriverId(r.to.accountId)) = r.to.accountId
    BY <2>1, SubOfParent
  <2>. QED
    BY <1>1, <1>2, <2>2 DEF ToRow, FromRow, ToReceiver, DbRow
<1>3. CASE r.to.type # "repoSubAccountDriver"
  BY <1>1, <1>3 DEF ToRow, FromRow, ToReceiver, DbRow
<1>. QED
  BY <1>2, <1>3

(* The receivers of a document,                                            *)
LEMMA ReceiversOf ==
    ASSUME NEW seq \in Seq(Recipient)
    PROVE  /\ Map(ToReceiver, seq) \in Seq(Receiver) /\ Len(Map(ToReceiver, seq)) = Len(seq)
           /\ \A i \in 1..Len(seq) : Map(ToReceiver, seq)[i] = ToReceiver(seq[i])
<1>. DEFINE m == [i \in 1..Len(seq) |-> ToReceiver(seq[i])]
<1>1. Len(seq) \in Nat /\ \A i \in 1..Len(seq) : seq[i] \in Recipient
  BY LenProperties, ElementOfSeq
<1>2. Ids \subseteq Int
  BY WidthAssumption DEF Ids
<1>3. \A r \in Recipient : ToReceiver(r) \in Receiver
  <2> SUFFICES ASSUME NEW r \in Recipient PROVE ToReceiver(r) \in Receiver
    OBVIOUS
  <2>1. r.to \in Receivers /\ r.weight \in 0..MaxWeight
    BY DEF Recipient
  <2>2. r.to.accountId \in Ids
    BY <2>1, ReceiversAssumption
  <2>3. r.to.accountId \in Int
    BY <1>2, <2>2
  <2>4. r.weight \in Int
    BY <2>1
  <2>. QED
    BY <2>3, <2>4 DEF ToReceiver, Receiver
<1>4. m \in Seq(Receiver)
  BY <1>1, <1>3, SeqDef
<1>5. Len(m) = Len(seq) /\ \A i \in 1..Len(seq) : m[i] = ToReceiver(seq[i])
  BY <1>1, <1>4, LenProperties
<1>. QED
  BY <1>4, <1>5 DEF Map

(* and its rows.                                                           *)
LEMMA RowsOf ==
    ASSUME NEW seq \in Seq(Recipient), \A i \in 1..Len(seq) : Fits(seq[i])
    PROVE  /\ Map(ToRow, seq) \in Seq(DbRow) /\ Len(Map(ToRow, seq)) = Len(seq)
           /\ \A i \in 1..Len(seq) : Map(ToRow, seq)[i] = ToRow(seq[i])
<1>. DEFINE stored == [i \in 1..Len(seq) |-> ToRow(seq[i])]
<1>1. Len(seq) \in Nat /\ \A i \in 1..Len(seq) : seq[i] \in Recipient
  BY LenProperties, ElementOfSeq
<1>2. \A i \in 1..Len(seq) : ToRow(seq[i]) \in DbRow
  BY <1>1, RowRoundTrip
<1>3. stored \in Seq(DbRow)
  BY <1>1, <1>2, SeqDef
<1>4. Len(stored) = Len(seq) /\ \A i \in 1..Len(seq) : stored[i] = ToRow(seq[i])
  BY <1>1, <1>3, LenProperties
<1>. QED
  BY <1>3, <1>4 DEF Map

(* In whatever order the rows of a document come back, they make the list  *)
(* that the document claims, if that list is canonical.                    *)
LEMMA AnyOrder ==
    ASSUME NEW seq \in Seq(Recipient), \A i \in 1..Len(seq) : Fits(seq[i]),
           Canonical(Claimed(seq)), NEW rows \in Orders(Map(ToRow, seq))
    PROVE  HashDbSplits(rows) = Claimed(seq)
<1>. DEFINE n == Len(seq)
            claim == Map(ToReceiver, seq)
            back == [i \in 1..Len(rows) |-> FromRow(rows[i])]
<1>1. n \in Nat /\ \A i \in 1..n : seq[i] \in Recipient
  BY LenProperties, ElementOfSeq
<1>2. claim \in Seq(Receiver) /\ Len(claim) = n /\ \A i \in 1..n : claim[i] = ToReceiver(seq[i])
  BY ReceiversOf
<1>3. \A i \in 1..n : ToRow(seq[i]) \in DbRow /\ FromRow(ToRow(seq[i])) = claim[i]
  BY <1>1, <1>2, RowRoundTrip
<1>4. PICK p \in [1..n -> 1..n] : /\ \A w \in 1..n : \E v \in 1..n : p[v] = w
                                  /\ rows = [i \in 1..n |-> ToRow(seq[p[i]])]
  <2>. DEFINE stored == Map(ToRow, seq)
  <2>1. Len(stored) = n /\ \A i \in 1..n : stored[i] = ToRow(seq[i])
    BY RowsOf
  <2>2. rows \in Orders(stored)
    OBVIOUS
  <2>. HIDE DEF n, stored
  <2>3. PICK p \in Bijection(1..n, 1..n) : rows = [i \in 1..n |-> stored[p[i]]]
    BY <2>1, <2>2 DEF Orders
  <2>4. p \in [1..n -> 1..n] /\ \A w \in 1..n : \E v \in 1..n : p[v] = w
    BY <2>3 DEF Bijection, Injection, Surjection
  <2>5. \A i \in 1..n : p[i] \in 1..n
    BY <2>4
  <2>6. rows = [i \in 1..n |-> ToRow(seq[p[i]])]
    BY <2>1, <2>3, <2>5
  <2>. QED
    BY <2>4, <2>6
<1>. HIDE DEF claim, n
<1>5. /\ back \in Seq(Receiver) /\ Len(back) = n /\ \A i \in 1..n : back[i] = claim[p[i]]
  <2>1. \A i \in 1..n : p[i] \in 1..n /\ rows[i] = ToRow(seq[p[i]])
    BY <1>4
  <2>2. \A i \in 1..n : rows[i] \in DbRow /\ FromRow(rows[i]) = claim[p[i]]
    BY <1>3, <2>1
  <2>3. rows \in Seq(DbRow) /\ Len(rows) = n
    <3>1. rows \in Seq(DbRow)
      BY <1>1, <1>4, <2>2, SeqDef
    <3>. QED
      BY <1>1, <1>4, <3>1, LenProperties
  <2>4. \A i \in 1..n : claim[p[i]] \in Receiver
    BY <1>2, <2>1, ElementOfSeq
  <2>5. back = [i \in 1..n |-> claim[p[i]]]
    BY <2>2, <2>3
  <2>. HIDE DEF back
  <2>6. back \in Seq(Receiver)
    BY <1>1, <2>4, <2>5, SeqDef
  <2>. QED
    BY <1>1, <2>5, <2>6, LenProperties
<1>6. ToSet(back) = ToSet(claim)
  <2>. HIDE DEF back
  <2>1. ToSet(back) = {back[i] : i \in 1..n} /\ ToSet(claim) = {claim[i] : i \in 1..n}
    BY <1>2, <1>5, ToSetOf
  <2>2. ASSUME NEW i \in 1..n PROVE back[i] \in ToSet(claim)
    BY <1>4, <1>5, <2>1
  <2>3. ASSUME NEW i \in 1..n PROVE claim[i] \in ToSet(back)
    <3>1. PICK v \in 1..n : p[v] = i
      BY <1>4
    <3>. QED
      BY <1>5, <2>1, <3>1
  <2>. QED
    BY <2>1, <2>2, <2>3
<1>7. SameId(ToSet(claim))
  <2>. DEFINE f == FormatSplitReceivers(claim)
  <2>1. f \in Seq(Receiver) /\ ToSet(f) = ToSet(claim)
    BY <1>2, Formatted
  <2>2. f = Claimed(seq)
    BY DEF Claimed, claim
  <2>. HIDE DEF f
  <2>3. Strictly(f)
    BY <2>2 DEF Canonical, Strictly
  <2>. QED
    BY <2>1, <2>3, StrictlySame
<1>8. FormatSplitReceivers(back) = FormatSplitReceivers(claim)
  <2>. HIDE DEF back
  <2>. QED
    BY <1>2, <1>5, <1>6, <1>7, OneForm
<1>9. HashDbSplits(rows) = FormatSplitReceivers(back)
  BY DEF HashDbSplits, Map
<1>10. Claimed(seq) = FormatSplitReceivers(claim)
  BY DEF Claimed, claim
<1>. QED
  BY <1>8, <1>9, <1>10

(* A document that names every account once, with a positive weight, claims *)
(* a canonical list with as many receivers.                                *)
LEMMA ClaimedIsCanonical ==
    ASSUME NEW seq \in Seq(Recipient),
           \A i \in 1..Len(seq) : seq[i].weight > 0,
           \A i, k \in 1..Len(seq) :
               seq[i].to.accountId = seq[k].to.accountId => i = k
    PROVE  Canonical(Claimed(seq)) /\ Len(Claimed(seq)) = Len(seq)
<1>. DEFINE n == Len(seq)
            claim == Map(ToReceiver, seq)
            f == FormatSplitReceivers(claim)
<1>1. claim \in Seq(Receiver) /\ Len(claim) = n /\ \A i \in 1..n : claim[i] = ToReceiver(seq[i])
  BY ReceiversOf
<1>. HIDE DEF claim
<1>2. \A i \in 1..n : /\ claim[i].accountId = seq[i].to.accountId
                      /\ claim[i].weight > 0
  <2> SUFFICES ASSUME NEW i \in 1..n
               PROVE  claim[i].accountId = seq[i].to.accountId /\ claim[i].weight > 0
    OBVIOUS
  <2>1. claim[i] = [accountId |-> seq[i].to.accountId, weight |-> seq[i].weight]
    BY <1>1 DEF ToReceiver
  <2>. QED
    BY <2>1
<1>3. ToSet(claim) = {claim[i] : i \in 1..n}
  BY <1>1, ToSetOf
<1>4. NoDup(claim) /\ SameId(ToSet(claim))
  BY <1>1, <1>2, <1>3 DEF NoDup, SameId
<1>5. /\ f \in Seq(Receiver) /\ Ascending(f) /\ NoDup(f) /\ ToSet(f) = ToSet(claim)
      /\ Len(f) = n
  BY <1>1, <1>4, Formatted
<1>6. f = Claimed(seq)
  BY DEF Claimed, claim
<1>. HIDE DEF f
<1>7. Strictly(f)
  BY <1>4, <1>5, StrictlyAscending
<1>8. \A i \in 1..Len(f) : f[i].weight > 0
  <2>1. \A i \in 1..Len(f) : f[i] \in ToSet(claim)
    BY <1>5, ToSetOf
  <2>. QED
    BY <1>2, <1>3, <2>1
<1>. QED
  BY <1>5, <1>6, <1>7, <1>8 DEF Canonical, Strictly

----------------------------------------------------------------------------
(* The parts of the inductive invariant.                                   *)

(* Nothing is on chain before everything is.                               *)
NothingBefore ==
    Deployed \/ /\ \A j \in Jobs : run[j] = "none"
                /\ list = << >> /\ row = Absent /\ table = << >>

(* What is stored is the document that was compared with the chain.        *)
StoredIsClaimed ==
    row.there => /\ Claimed(recipients) = list
                 /\ table = Map(ToRow, recipients)
                 /\ \A i \in 1..Len(recipients) : Fits(recipients[i])

(* The flag, once set, is never reset, by a document handled again.        *)
ValidOnceDone == run["SplitsSet"] = "done" => row.there /\ row.valid

(* The contract accepts no other list.                                     *)
OnChainIsCanonical == Canonical(list)

IInv ==
    /\ TypeOK /\ NothingBefore /\ StoredIsClaimed /\ ValidOnceDone
    /\ OnChainIsCanonical

LEMMA InitInv == Init => IInv
<1> SUFFICES ASSUME Init PROVE IInv
  OBVIOUS
<1>1. TypeOK
  <2>1. << >> \in Seq(Recipient) /\ << >> \in Seq(DbRow) /\ Len(recipients) = 0
    BY EmptySeq DEF Init
  <2>2. 0 <= MaxLen /\ 0 \in 0..Retries
    BY SubListAssumption
  <2>. QED
    BY <2>1, <2>2 DEF Init, TypeOK, Absent
<1>2. "SplitsSet" \in Jobs
  BY DEF Jobs
<1>3. OnChainIsCanonical
  BY EmptySeq DEF Init, OnChainIsCanonical, Canonical
<1>. QED
  BY <1>1, <1>2, <1>3 DEF Init, IInv, NothingBefore, StoredIsClaimed, ValidOnceDone, Absent

LEMMA AddRecipientInv ==
    ASSUME IInv, NEW r \in Recipient, AddRecipient(r) PROVE IInv'
<1>. USE DEF IInv
<1>1. /\ recipients' = Append(recipients, r)
      /\ UNCHANGED <<sound, list, run, tries, ecosystems, row, table>>
      /\ list = << >> /\ ~row.there /\ "SplitsSet" \in Jobs
      /\ \A j \in Jobs : run[j] = "none"
  BY DEF AddRecipient, NothingBefore, Absent, Jobs
<1>2. recipients' \in Seq(Recipient) /\ Len(recipients') <= MaxLen
  BY <1>1, AppendProperties, LenProperties, SubListAssumption DEF TypeOK, AddRecipient
<1>3. TypeOK'
  BY <1>1, <1>2 DEF TypeOK
<1>4. NothingBefore' /\ StoredIsClaimed' /\ ValidOnceDone' /\ OnChainIsCanonical'
  BY <1>1 DEF NothingBefore, StoredIsClaimed, ValidOnceDone, Deployed, OnChainIsCanonical
<1>. QED
  BY <1>3, <1>4

LEMMA DeployInv ==
    ASSUME IInv, NEW splits \in Others \union {Claimed(recipients)}, Deploy(splits)
    PROVE  IInv'
<1>. USE DEF IInv
<1>1. /\ list' = splits /\ sound' \in BOOLEAN /\ run' = [j \in Jobs |-> "todo"]
      /\ UNCHANGED <<recipients, tries, ecosystems, row, table>>
      /\ ~row.there /\ "SplitsSet" \in Jobs
  BY DEF Deploy, NothingBefore, Absent, Jobs
<1>2. TypeOK'
  BY <1>1 DEF TypeOK
<1>3. NothingBefore' /\ StoredIsClaimed' /\ ValidOnceDone'
  BY <1>1 DEF NothingBefore, StoredIsClaimed, ValidOnceDone, Deployed
<1>4. OnChainIsCanonical'
  BY <1>1 DEF Deploy, OnChainIsCanonical
<1>. QED
  BY <1>2, <1>3, <1>4

(* A failed attempt leaves everything but its job as it is.                *)
LEMMA RetryInv ==
    ASSUME IInv, NEW j \in Jobs, run[j] = "todo", Retry(j) PROVE IInv'
<1>. USE DEF IInv
<1>1. UNCHANGED <<recipients, sound, list, ecosystems, row, table>>
  BY DEF Retry, document
<1>2. run' = run \/ run' = [run EXCEPT ![j] = "failed"]
  BY DEF Retry
<1>3. tries' \in [Jobs -> 0..Retries]
  BY SubListAssumption DEF Retry, TypeOK
<1>4. TypeOK'
  BY <1>1, <1>2, <1>3 DEF TypeOK
<1>5. Deployed /\ "SplitsSet" \in Jobs
  BY DEF NothingBefore, Jobs
<1>6. Deployed' /\ (run'["SplitsSet"] = "done" => run["SplitsSet"] = "done")
  BY <1>2, <1>5 DEF Deployed, TypeOK
<1>7. NothingBefore' /\ StoredIsClaimed' /\ ValidOnceDone' /\ OnChainIsCanonical'
  BY <1>1, <1>6 DEF NothingBefore, StoredIsClaimed, ValidOnceDone, OnChainIsCanonical
<1>. QED
  BY <1>4, <1>7

(* A run that ends stores the document, sets the flag or does neither.     *)
LEMMA FinishInv ==
    ASSUME IInv, NEW j \in Jobs, run[j] = "todo", Finish(j),
           row' \in [there : BOOLEAN, valid : BOOLEAN], table' \in Seq(DbRow),
           row.valid => row'.valid, row.there => row'.there,
           StoredIsClaimed', j = "SplitsSet" => row'.there /\ row'.valid
    PROVE  IInv'
<1>. USE DEF IInv
<1>1. /\ run' = [run EXCEPT ![j] = "done"]
      /\ UNCHANGED <<recipients, sound, list, tries, ecosystems>>
  BY DEF Finish, document
<1>2. TypeOK'
  BY <1>1 DEF TypeOK
<1>3. Deployed /\ "SplitsSet" \in Jobs
  BY DEF NothingBefore, Jobs
<1>4. NothingBefore'
  BY <1>1, <1>3 DEF NothingBefore, Deployed, TypeOK
<1>5. ValidOnceDone' /\ OnChainIsCanonical'
  BY <1>1, <1>3 DEF ValidOnceDone, TypeOK, OnChainIsCanonical
<1>. QED
  BY <1>2, <1>4, <1>5

LEMMA UpsertSubListInv ==
    ASSUME IInv, NEW d \in Documents, UpsertSubList(d) PROVE IInv'
<1>. USE DEF IInv
<1>1. /\ d \in Jobs /\ d # "SplitsSet" /\ run[d] = "todo" /\ Finish(d)
      /\ row' = [row EXCEPT !.there = TRUE] /\ table' = Map(ToRow, recipients)
      /\ Claimed(recipients) = list
      /\ \A i \in 1..Len(recipients) : Fits(recipients[i])
  BY SubListAssumption DEF UpsertSubList, Jobs, Verified, Complete
<1>2. recipients \in Seq(Recipient) /\ recipients' = recipients /\ list' = list
  BY <1>1 DEF TypeOK, Finish, document
<1>3. table' \in Seq(DbRow)
  BY <1>1, <1>2, RowsOf
<1>4. /\ row' \in [there : BOOLEAN, valid : BOOLEAN]
      /\ row'.there /\ (row.valid => row'.valid)
  BY <1>1 DEF TypeOK
<1>5. StoredIsClaimed'
  BY <1>1, <1>2 DEF StoredIsClaimed
<1>. QED
  BY <1>1, <1>3, <1>4, <1>5, FinishInv

LEMMA SetIsValidFlagInv == ASSUME IInv, SetIsValidFlag PROVE IInv'
<1>. USE DEF IInv
<1>1. /\ "SplitsSet" \in Jobs /\ run["SplitsSet"] = "todo" /\ Finish("SplitsSet")
      /\ row' = [row EXCEPT !.valid = TRUE] /\ table' = table /\ row.there
  BY DEF SetIsValidFlag, Jobs, Matches
<1>2. /\ row' \in [there : BOOLEAN, valid : BOOLEAN] /\ table' \in Seq(DbRow)
      /\ row'.there /\ row'.valid
  BY <1>1 DEF TypeOK
<1>3. recipients' = recipients /\ list' = list
  BY <1>1 DEF Finish, document
<1>4. StoredIsClaimed'
  BY <1>1, <1>3 DEF StoredIsClaimed
<1>. QED
  BY <1>1, <1>2, <1>4, FinishInv

LEMMA Invariance == Spec => []IInv
<1>1. IInv /\ [Next]_vars => IInv'
  <2> SUFFICES ASSUME IInv, [Next]_vars PROVE IInv'
    OBVIOUS
  <2>1. ASSUME NEW e \in {"root", "parent"}, AddEcosystem(e) PROVE IInv'
    <3>1. UNCHANGED <<recipients, sound, list, run, tries, row, table>> /\ Deployed'
      BY <2>1 DEF AddEcosystem, document, Deployed
    <3>2. ecosystems' \subseteq {"root", "parent"}
      BY <2>1 DEF AddEcosystem, IInv, TypeOK
    <3>. QED
      BY <3>1, <3>2 DEF IInv, TypeOK, NothingBefore, StoredIsClaimed, ValidOnceDone,
         OnChainIsCanonical
  <2>2. ASSUME NEW d \in Documents, SkipDocument(d) PROVE IInv'
    <3>1. d \in Jobs /\ d # "SplitsSet" /\ run[d] = "todo" /\ Finish(d)
          /\ UNCHANGED <<row, table, recipients, list>>
      BY <2>2, SubListAssumption DEF SkipDocument, Jobs, Finish, document
    <3>2. StoredIsClaimed'
      BY <3>1 DEF IInv, StoredIsClaimed
    <3>. QED
      BY <3>1, <3>2, FinishInv DEF IInv, TypeOK
  <2>3. ASSUME NEW d \in Documents, RetryDocument(d) PROVE IInv'
    BY <2>3, RetryInv DEF RetryDocument, Jobs
  <2>4. CASE RetrySplits
    BY <2>4, RetryInv DEF RetrySplits, Jobs
  <2>5. CASE UNCHANGED vars
    BY <2>5 DEF vars, IInv, TypeOK, NothingBefore, Deployed, StoredIsClaimed,
       ValidOnceDone, OnChainIsCanonical
  <2>. QED
    BY <2>1, <2>2, <2>3, <2>4, <2>5, AddRecipientInv, DeployInv, UpsertSubListInv,
       SetIsValidFlagInv DEF Next
<1>. QED
  BY <1>1, InitInv, PTL DEF Spec

----------------------------------------------------------------------------
(* What the invariant gives.                                               *)

(* Type correctness: in particular no stored row has an id that could not  *)
(* be converted, since every recipient is checked before the first row.    *)
THEOREM TypeCorrect == Spec => []TypeOK
BY Invariance, PTL DEF IInv

(* A sub-list at rest is valid unless its SplitsSet event was given up, in *)
(* whatever order its events are handled and however often they fail.      *)
THEOREM ValidUnlessSplitsFailed == Spec => []ValidUnlessGivenUp
<1>1. IInv => ValidUnlessGivenUp
  BY DEF IInv, ValidOnceDone, ValidUnlessGivenUp, AtRest, Jobs
<1>. QED
  BY <1>1, Invariance, PTL

(* However the rows of a sub-list are returned, they hash to the splits on *)
(* chain: no receiver is lost, doubled or changed on the way to the table  *)
(* and back, so that SplitsSet is retried only while the row is not there. *)
THEOREM StoredHashesToChain == Spec => []StoredIsOnChain
<1>1. ASSUME IInv, row.there, NEW rows \in Orders(table) PROVE HashDbSplits(rows) = list
  <2>1. /\ recipients \in Seq(Recipient) /\ \A i \in 1..Len(recipients) : Fits(recipients[i])
        /\ table = Map(ToRow, recipients) /\ Claimed(recipients) = list /\ Canonical(list)
    BY <1>1 DEF IInv, TypeOK, StoredIsClaimed, OnChainIsCanonical
  <2>2. Canonical(Claimed(recipients)) /\ rows \in Orders(Map(ToRow, recipients))
    BY <1>1, <2>1
  <2>. QED
    BY <2>1, <2>2, AnyOrder
<1>2. IInv => StoredIsOnChain
  BY <1>1 DEF StoredIsOnChain
<1>. QED
  BY <1>2, Invariance, PTL

(* SplitsSet of a sub-list is retried only while its document has not been *)
(* stored: never because what is stored hashes to something else.          *)
THEOREM RetriedOnlyBefore == Spec => [][RetrySplits => ~row.there]_vars
<1>1. StoredIsOnChain => (RetrySplits => ~row.there)
  BY DEF StoredIsOnChain, RetrySplits, Differs
<1>. QED
  BY <1>1, StoredHashesToChain, PTL

(* A document in which nothing is wrong passes the comparison, in whatever *)
(* order it names its recipients.                                          *)
THEOREM AnyOrderIsClaimed == Spec => []OrderDoesNotMatter
<1>1. TypeOK => OrderDoesNotMatter
  BY ClaimedIsCanonical DEF TypeOK, OrderDoesNotMatter
<1>. QED
  BY <1>1, TypeCorrect, PTL
=============================================================================
