------------------------------ MODULE Versions ------------------------------
(***************************************************************************)
(* Versions of src/utils/lastProcessedVersion.ts: block number and log     *)
(* index in one integer.  Project and NftAccount take the position of an   *)
(* event in the log for its version; the theorems below are why they may.  *)
(* The log index has the low word of the version, where word is 2^32.      *)
(***************************************************************************)
EXTENDS Integers, WellFoundedInduction, TLAPS

(* With an index below word the bitwise OR is an addition.                 *)
MakeVersion(word, block, index) == block * word + index

DecodeVersion(word, version) ==
    [blockNumber |-> version \div word, logIndex |-> version % word]

(* Versions are compared as events are ordered on the chain: by block, and *)
(* within a block by log index.                                            *)
THEOREM VersionsOrderEvents ==
    ASSUME NEW word \in Nat \ {0}, NEW b1 \in Nat, NEW b2 \in Nat,
           NEW i1 \in 0..(word - 1), NEW i2 \in 0..(word - 1)
    PROVE  MakeVersion(word, b1, i1) < MakeVersion(word, b2, i2)
               <=> (b1 < b2 \/ (b1 = b2 /\ i1 < i2))
<1>1. ASSUME NEW b \in Nat, NEW c \in Nat, b < c, NEW i \in 0..(word - 1), NEW k \in Nat
      PROVE  b * word + i < c * word + k
  <2>1. (b + 1) * word <= c * word
    BY <1>1
  <2>2. (b + 1) * word = b * word + word
    OBVIOUS
  <2>3. b * word \in Nat /\ c * word \in Nat
    OBVIOUS
  <2> QED
    BY <2>1, <2>2, <2>3
<1>2. b1 * word \in Nat /\ b2 * word \in Nat
  OBVIOUS
<1>3. CASE b1 < b2
  BY <1>1, <1>3 DEF MakeVersion
<1>4. CASE b1 = b2
  BY <1>2, <1>4 DEF MakeVersion
<1>5. CASE b2 < b1
  <2>1. MakeVersion(word, b2, i2) < MakeVersion(word, b1, i1)
    BY <1>1, <1>5 DEF MakeVersion
  <2> QED
    BY <1>2, <1>5, <2>1 DEF MakeVersion
<1> QED
  BY <1>3, <1>4, <1>5

(* decodeVersion gives back what makeVersion packed, so no two events have *)
(* the same version.                                                       *)
THEOREM VersionsDecode ==
    ASSUME NEW word \in Nat \ {0}, NEW b \in Nat, NEW i \in 0..(word - 1)
    PROVE  DecodeVersion(word, MakeVersion(word, b, i))
               = [blockNumber |-> b, logIndex |-> i]
<1>1. (b * word + i) \div word = b /\ (b * word + i) % word = i
  OBVIOUS
<1> QED
  BY <1>1 DEF MakeVersion, DecodeVersion

(* Among some of the first n events, there is a newest.                    *)
LEMMA NewestExists ==
    ASSUME NEW n \in Nat, NEW S, S \subseteq 1..n, S # {}
    PROVE  \E i \in S : \A k \in S : k <= i
<1>. DEFINE R == OpToRel(<, Nat)
            T == {n - i : i \in S}
<1>. HIDE DEF R
<1>1. T \subseteq Nat /\ T # {}
  <2>1. \A i \in S : n - i \in Nat
    OBVIOUS
  <2>. QED
    BY <2>1
<1>2. PICK x \in T : \A y \in T : <<y, x>> \notin R
  <2>. HIDE DEF T
  <2>1. IsWellFoundedOn(R, Nat)
    BY NatLessThanWellFounded DEF R
  <2>. QED
    BY <1>1, <2>1, WFMin
<1>3. PICK i \in S : x = n - i
  OBVIOUS
<1>4. ASSUME NEW k \in S PROVE k <= i
  <2>1. n - k \in T /\ n - k \in Nat /\ x \in Nat
    BY <1>1
  <2>2. <<n - k, x>> \notin R
    BY <1>2, <2>1
  <2>3. ~(n - k < x)
    BY <2>1, <2>2 DEF R, OpToRel
  <2>. QED
    BY <1>3, <2>3
<1>. QED
  BY <1>4
=============================================================================
