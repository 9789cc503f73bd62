------------------------------- MODULE SubList -------------------------------
(***************************************************************************)
(* One sub-list of an Ecosystem, from the chain to its row in sub_lists    *)
(* and its rows in splits_receivers: the Sub-List branch of the            *)
(* AccountMetadataEmitted handler and SplitsSet's setIsValidFlag.          *)
(*                                                                         *)
(* The contract that holds a sub-list sets its splits once, in the         *)
(* transaction that also emits its documents, so what the handlers read    *)
(* from the chain does not change and each transaction of theirs is one    *)
(* step.  A job that fails runs again, at most Retries times.  A transient *)
(* fault has the effect of RetryDocument and RetrySplits and has no action *)
(* of its own.                                                             *)
(***************************************************************************)
EXTENDS SplitReceivers

CONSTANTS Documents,  \* the metadata events of the sub-list, all with one document
          Others,     \* lists on chain that are not the document's
          MaxLen,     \* bound: recipients of the document
          Retries     \* attempts after the first

ASSUME SubListAssumption ==
    /\ MaxLen \in Nat /\ Retries \in Nat
    /\ \A list \in Others : Canonical(list)
    /\ "SplitsSet" \notin Documents

Jobs == Documents \union {"SplitsSet"}

VARIABLES
    recipients,  \* the document's recipients
    sound,       \* parent and root are of type ecosystem, the sources are right
    list,        \* the splits on chain
    run,         \* run[j]: where the job of event j is
    tries,       \* tries[j]: its failed attempts
    ecosystems,  \* which of root and parent are in ecosystem_main_accounts
    row,         \* the row in sub_lists
    table        \* the rows in splits_receivers

document == <<recipients, sound>>
vars == <<recipients, sound, list, run, tries, ecosystems, row, table>>

Absent == [there |-> FALSE, valid |-> FALSE]

Deployed == \A j \in Jobs : run[j] # "none"
AtRest   == \A j \in Jobs : run[j] \in {"done", "failed"}

(* findAll has no order.                                                   *)
Orders(rows) ==
    {[i \in 1..Len(rows) |-> rows[p[i]]] : p \in Bijection(1..Len(rows), 1..Len(rows))}

----------------------------------------------------------------------------
Init ==
    /\ recipients = << >> /\ sound = TRUE /\ list = << >>
    /\ run = [j \in Jobs |-> "none"]
    /\ tries = [j \in Jobs |-> 0]
    /\ ecosystems = {}
    /\ row = Absent /\ table = << >>

AddRecipient(r) ==
    /\ ~Deployed
    /\ Len(recipients) < MaxLen
    /\ recipients' = Append(recipients, r)
    /\ UNCHANGED <<sound, list, run, tries, ecosystems, row, table>>

Deploy(splits) ==
    /\ ~Deployed
    /\ Canonical(splits)
    /\ list' = splits
    /\ sound' \in BOOLEAN
    /\ run' = [j \in Jobs |-> "todo"]
    /\ UNCHANGED <<recipients, tries, ecosystems, row, table>>

(* Documents of the Ecosystems that are root and parent are handled.       *)
AddEcosystem(e) ==
    /\ Deployed
    /\ ecosystems' = ecosystems \union {e}
    /\ UNCHANGED <<document, list, run, tries, row, table>>

----------------------------------------------------------------------------
Finish(j) ==
    /\ run' = [run EXCEPT ![j] = "done"]
    /\ UNCHANGED <<document, list, tries, ecosystems>>

Retry(j) ==
    /\ IF tries[j] < Retries
       THEN /\ tries' = [tries EXCEPT ![j] = @ + 1]
            /\ UNCHANGED run
       ELSE /\ run' = [run EXCEPT ![j] = "failed"]
            /\ UNCHANGED tries
    /\ UNCHANGED <<document, list, ecosystems, row, table>>

Verified == sound /\ Claimed(recipients) = list

(* Root and parent are there, and every recipient is what its type says.   *)
Complete ==
    /\ ecosystems = {"root", "parent"}
    /\ \A i \in 1..Len(recipients) : Fits(recipients[i])

SkipDocument(d) ==
    /\ run[d] = "todo" /\ ~Verified
    /\ Finish(d)
    /\ UNCHANGED <<row, table>>

RetryDocument(d) ==
    /\ run[d] = "todo" /\ Verified /\ ~Complete
    /\ Retry(d)

(* Faulty variant: the list is not valid until its splits are handled, the *)
(* splits that were handled before included.                               *)
UpsertSubListResets(d) ==
    /\ run[d] = "todo" /\ Verified /\ Complete
    /\ row' = [there |-> TRUE, valid |-> FALSE]
    /\ table' = Map(ToRow, recipients)
    /\ Finish(d)

(* A new row is not valid until its splits are handled.                    *)
UpsertSubList(d) ==
    /\ run[d] = "todo" /\ Verified /\ Complete
    /\ row' = [row EXCEPT !.there = TRUE]
    /\ table' = Map(ToRow, recipients)
    /\ Finish(d)

----------------------------------------------------------------------------
(* SplitsSet.  There is no owner to compare.                               *)
Matches == row.there /\ \E rows \in Orders(table) : HashDbSplits(rows) = list
Differs == ~row.there \/ \E rows \in Orders(table) : HashDbSplits(rows) # list

SetIsValidFlag ==
    /\ run["SplitsSet"] = "todo" /\ Matches
    /\ row' = [row EXCEPT !.valid = TRUE]
    /\ Finish("SplitsSet")
    /\ UNCHANGED table

RetrySplits ==
    /\ run["SplitsSet"] = "todo" /\ Differs
    /\ Retry("SplitsSet")

----------------------------------------------------------------------------
Next ==
    \/ \E r \in Recipient : AddRecipient(r)
    \/ \E splits \in Others \union {Claimed(recipients)} : Deploy(splits)
    \/ \E e \in {"root", "parent"} : AddEcosystem(e)
    \/ \E d \in Documents : SkipDocument(d) \/ RetryDocument(d) \/ UpsertSubList(d)
    \/ SetIsValidFlag \/ RetrySplits

Spec == Init /\ [][Next]_vars

----------------------------------------------------------------------------
TypeOK ==
    /\ recipients \in Seq(Recipient) /\ Len(recipients) <= MaxLen
    /\ sound \in BOOLEAN
    /\ list \in Others \union {<< >>, Claimed(recipients)}
    /\ run \in [Jobs -> {"none", "todo", "done", "failed"}]
    /\ tries \in [Jobs -> 0..Retries]
    /\ ecosystems \subseteq {"root", "parent"}
    /\ row \in [there : BOOLEAN, valid : BOOLEAN]
    /\ table \in Seq(DbRow)

(* What is stored for a sub-list is what the chain has, in whatever order  *)
(* the rows are returned, through the change of sub-account ids to those   *)
(* of repositories and back, and although a document may name a recipient  *)
(* twice: SplitsSet is never retried in vain because of the translation.   *)
StoredIsOnChain ==
    row.there => \A rows \in Orders(table) : HashDbSplits(rows) = list

(* A document that lists what is on chain, in any order, passes the check: *)
(* the list is brought into the one form the contract accepts.             *)
OrderDoesNotMatter ==
    (/\ \A i \in 1..Len(recipients) : recipients[i].weight > 0
     /\ \A i, k \in 1..Len(recipients) :
            recipients[i].to.accountId = recipients[k].to.accountId => i = k) =>
        /\ Canonical(Claimed(recipients))
        /\ Len(Claimed(recipients)) = Len(recipients)

(* A sub-list that is stored ends up valid, whichever of its events is     *)
(* handled first and however often: unless SplitsSet was given up while    *)
(* the document still waited for its Ecosystem.                            *)
ValidUnlessGivenUp ==
    AtRest /\ row.there /\ ~row.valid => run["SplitsSet"] = "failed"
=============================================================================
