--------------------------- MODULE SplitReceivers ---------------------------
(***************************************************************************)
(* How the splits of an account travel from a document to the database and *)
(* back: verifySplitsReceivers compares the document's recipients with the *)
(* list on chain, createNewSplitReceivers stores them as rows, and         *)
(* hashDbSplits rebuilds the list from the rows to set isValid.            *)
(*                                                                         *)
(* The Drips contract only accepts lists in canonical form: receivers in   *)
(* strictly ascending order, each with a positive weight.  A hash stands   *)
(* for the list it is of.                                                  *)
(***************************************************************************)
EXTENDS AccountIds, SequencesExt

CONSTANTS Receivers,   \* whom a document may name: account ids and their types
          MaxWeight    \* bound: the largest weight

ReceiverTypes == {"repoSubAccountDriver", "subList", "dripList", "address"}

ASSUME ReceiversAssumption ==
    /\ Receivers \subseteq [accountId : Ids, type : ReceiverTypes]
    /\ MaxWeight \in Nat

Recipient == [to : Receivers, weight : 0..MaxWeight]
DbRow     == [receiver : Ids, weight : 0..MaxWeight, toSub : BOOLEAN]

Map(Op(_), seq) == [i \in 1..Len(seq) |-> Op(seq[i])]

----------------------------------------------------------------------------
(* A receiver is dropped if it is there already with the same weight.      *)
Unique(receivers) ==
    LET unique[k \in 0..Len(receivers)] ==
            IF k = 0 THEN << >>
            ELSE LET before == unique[k - 1]
                     o      == receivers[k]
                 IN  IF o \in ToSet(before) THEN before ELSE Append(before, o)
    IN  unique[Len(receivers)]

(* Faulty variant: the receivers stay in the order of the document.        *)
SortByNothing(receivers) == receivers

(* A stable sort: each goes behind those that are not above it.            *)
Insert(sorted, o) ==
    InsertAt(sorted,
             CHOOSE p \in 1..(Len(sorted) + 1) :
                 \A i \in 1..Len(sorted) : i < p <=> sorted[i].accountId <= o.accountId,
             o)

SortById(receivers) ==
    LET sorted[k \in 0..Len(receivers)] ==
            IF k = 0 THEN << >> ELSE Insert(sorted[k - 1], receivers[k])
    IN  sorted[Len(receivers)]

FormatSplitReceivers(receivers) == SortById(Unique(receivers))

(* The list that a document claims.                                        *)
ToReceiver(r) == [accountId |-> r.to.accountId, weight |-> r.weight]
Claimed(recipients) == FormatSplitReceivers(Map(ToReceiver, recipients))

(* What the contract accepts.                                              *)
Canonical(list) ==
    /\ \A i \in 1..Len(list) : list[i].weight > 0
    /\ \A i, k \in 1..Len(list) : i < k => list[i].accountId < list[k].accountId

----------------------------------------------------------------------------
(* The id of a recipient must be one of the driver that its type calls     *)
(* for; any other is an error.                                             *)
Fits(r) ==
    LET id == r.to.accountId
    IN  CASE r.to.type = "repoSubAccountDriver" -> CalcParentRepoDriverId(id) # NoId
          [] r.to.type = "subList"  -> IsImmutableSplitsDriverId(id)
          [] r.to.type = "dripList" -> IsNftDriverId(id)
          [] r.to.type = "address"  -> IsAddressDriverId(id)

(* Faulty variants: the mark is forgotten; every id is taken for that of a *)
(* sub-account.                                                            *)
ToRowUnmarked(r) ==
    [receiver |-> IF r.to.type = "repoSubAccountDriver"
                  THEN CalcParentRepoDriverId(r.to.accountId) ELSE r.to.accountId,
     weight |-> r.weight, toSub |-> FALSE]
ToRowOfSub(r) ==
    [receiver |-> CalcParentRepoDriverId(r.to.accountId), weight |-> r.weight, toSub |-> TRUE]

(* A sub-account of a repository is stored as the repository, and marked.  *)
ToRow(r) ==
    LET isSub == r.to.type = "repoSubAccountDriver"
    IN  [receiver |-> IF isSub THEN CalcParentRepoDriverId(r.to.accountId)
                               ELSE r.to.accountId,
         weight |-> r.weight, toSub |-> isSub]

FromRow(row) ==
    [accountId |-> IF row.toSub THEN CalcSubRepoDriverId(row.receiver) ELSE row.receiver,
     weight |-> row.weight]

HashDbSplits(rows) == FormatSplitReceivers(Map(FromRow, rows))
=============================================================================
