--------------------------- MODULE LinkedIdentity ---------------------------
(***************************************************************************)
(* One ORCID account, from the chain to its row in linked_identities and   *)
(* its rows in splits_receivers: the OwnerUpdated handler's ORCID branch,  *)
(* processLinkedIdentitySplits of the SplitsSet handler, and the unclaimed *)
(* row that other accounts' metadata creates (ensureLinkedIdentityExists). *)
(*                                                                         *)
(* The queue runs the events' jobs in any order, several at a time, and    *)
(* again after a failure (JobQueue).  A handler reads the chain as it is   *)
(* when the read is made, not as it was at its event, so mining is a step  *)
(* between any two reads.  A transaction takes the row lock of the         *)
(* identity and keeps it to its end.                                       *)
(***************************************************************************)
EXTENDS Integers, Sequences

CONSTANTS Owners,      \* addresses that may own the account
          Nobody,      \* model value: the account is not owned
          Foreign,     \* model value: splits other than 100% to one owner
          Unset,       \* model value: no splits set on chain
          MaxLog,      \* bound: events of the account
          MaxFaults,   \* bound: RPC errors while validating
          MaxAborts    \* bound: runs cut short and rolled back

ASSUME IdentityAssumption ==
    /\ MaxLog \in Nat /\ MaxFaults \in Nat /\ MaxAborts \in Nat
    /\ Nobody \notin Owners /\ Foreign \notin Owners /\ Unset \notin Owners
    /\ Foreign # Unset

VARIABLES
    log,      \* the account's events on the chain, oldest first
    run,      \* run[i]: where the handler of event i is
    pre,      \* pre[i]: the validation made before the row was looked up
    row,      \* the identity's row, or Absent
    lock,     \* the run that holds the row lock, 0 for none
    receivers,\* identity_owner rows, by the run that wrote them and the owner
    faults, aborts

tables == <<row, receivers>>
counts == <<faults, aborts>>
vars   == <<log, run, pre, row, lock, receivers, faults, aborts>>

----------------------------------------------------------------------------
(* The hash of "100% to o" is written o; on chain, hashes are the same     *)
(* exactly when the splits are.                                            *)
Splits == Owners \union {Foreign}

Event == [kind : {"OwnerUpdated"}, value : Owners]
         \union [kind : {"SplitsSet"}, value : Splits]

LastOf(kind, none) ==
    LET at == {i \in 1..Len(log) : log[i].kind = kind}
    IN  IF at = {} THEN none ELSE log[CHOOSE i \in at : \A k \in at : k <= i].value

OwnerOf    == LastOf("OwnerUpdated", Nobody)
SplitsHash == LastOf("SplitsSet", Unset)

(* A row as far as it is ever read: lastProcessedVersion only is written.  *)
Row    == [there : BOOLEAN, owner : Owners \union {Nobody}, valid : BOOLEAN]
Absent == [there |-> FALSE, owner |-> Nobody, valid |-> FALSE]

(* Faulty variant: the flag is not saved.                                  *)
IdentityRowPartly(owner, valid) == [there |-> TRUE, owner |-> owner]

IdentityRow(owner, valid) == [there |-> TRUE, owner |-> owner, valid |-> valid]

(* validateLinkedIdentity: the on-chain hash against the hash of 100% to   *)
(* the owner; an RPC error is caught and counts as "not linked".           *)
Validate(owner, result) ==
    \/ result = (SplitsHash = owner) /\ UNCHANGED faults
    \/ result = FALSE /\ faults < MaxFaults /\ faults' = faults + 1

Goto(i, label) == run' = [run EXCEPT ![i] = label]

Labels == {"todo", "owned", "validated", "update", "current", "splits", "done"}

----------------------------------------------------------------------------
Init ==
    /\ log = << >>
    /\ run = << >>
    /\ pre = << >>
    /\ row = Absent
    /\ lock = 0
    /\ receivers = {}
    /\ faults = 0 /\ aborts = 0

(* The contracts: an owner is set, and may then set the splits.            *)
Mine(ev) ==
    /\ Len(log) < MaxLog
    /\ ev.kind = "SplitsSet" => OwnerOf # Nobody
    /\ log' = Append(log, ev)
    /\ run' = Append(run, "todo")
    /\ pre' = Append(pre, FALSE)
    /\ UNCHANGED <<tables, lock, counts>>

(* Another account's metadata names the identity: an unclaimed row is      *)
(* created unless there is one.                                            *)
EnsureExists ==
    /\ ~row.there
    /\ row' = IdentityRow(Nobody, FALSE)
    /\ UNCHANGED <<log, run, pre, lock, receivers, counts>>

----------------------------------------------------------------------------
(* OwnerUpdated.  The owner is read before the transaction.                *)
ReadOwner(i) ==
    /\ log[i].kind = "OwnerUpdated" /\ run[i] = "todo"
    /\ Goto(i, IF log[i].value = OwnerOf THEN "owned" ELSE "done")
    /\ UNCHANGED <<log, pre, tables, lock, counts>>

(* The defaults of findOrCreate are evaluated before it runs.              *)
ValidateDefaults(i) ==
    /\ run[i] = "owned"
    /\ \E result \in BOOLEAN :
          /\ Validate(log[i].value, result)
          /\ pre' = [pre EXCEPT ![i] = result]
    /\ Goto(i, "validated")
    /\ UNCHANGED <<log, tables, lock, aborts>>

CreateIdentity(i) ==
    /\ run[i] = "validated"
    /\ ~row.there
    /\ row' = IdentityRow(log[i].value, pre[i])
    /\ Goto(i, "done")
    /\ UNCHANGED <<log, pre, lock, receivers, counts>>

(* Faulty variant: a row that was found is left as it is.                  *)
FindIdentityOnly(i) ==
    /\ run[i] = "validated"
    /\ row.there /\ lock = 0
    /\ Goto(i, "done")
    /\ UNCHANGED <<log, pre, tables, lock, counts>>

FindIdentity(i) ==
    /\ run[i] = "validated"
    /\ row.there /\ lock = 0
    /\ lock' = i
    /\ Goto(i, "update")
    /\ UNCHANGED <<log, pre, tables, counts>>

(* Faulty variant: the validation made for the defaults is used again.     *)
UpdateIdentityStale(i) ==
    /\ run[i] = "update"
    /\ row' = IdentityRow(log[i].value, pre[i])
    /\ lock' = 0
    /\ Goto(i, "done")
    /\ UNCHANGED <<log, pre, receivers, counts>>

UpdateIdentity(i) ==
    /\ run[i] = "update"
    /\ \E result \in BOOLEAN :
          /\ Validate(log[i].value, result)
          /\ row' = IdentityRow(log[i].value, result)
    /\ lock' = 0
    /\ Goto(i, "done")
    /\ UNCHANGED <<log, pre, receivers, aborts>>

----------------------------------------------------------------------------
(* SplitsSet.  An event whose splits are not the ones on chain is skipped. *)
CheckSplits(i) ==
    /\ log[i].kind = "SplitsSet" /\ run[i] = "todo"
    /\ Goto(i, IF log[i].value = SplitsHash THEN "current" ELSE "done")
    /\ UNCHANGED <<log, pre, tables, lock, counts>>

(* Faulty variant: the transaction is left open when there is no row.      *)
LockForSplitsLeaks(i) ==
    /\ run[i] = "current"
    /\ lock = 0
    /\ lock' = i
    /\ Goto(i, IF row.there THEN "splits" ELSE "todo")
    /\ UNCHANGED <<log, pre, tables, counts>>

(* The job fails and is retried while there is no row.                     *)
LockForSplits(i) ==
    /\ run[i] = "current"
    /\ lock = 0
    /\ lock' = IF row.there THEN i ELSE 0
    /\ Goto(i, IF row.there THEN "splits" ELSE "todo")
    /\ UNCHANGED <<log, pre, tables, counts>>

UnclaimedSplits(i) ==
    /\ run[i] = "splits"
    /\ row.owner = Nobody
    /\ row' = IdentityRow(Nobody, FALSE)
    /\ lock' = 0
    /\ Goto(i, "done")
    /\ UNCHANGED <<log, pre, receivers, counts>>

(* Faulty variant: the receiver rows are not destroyed.                    *)
ProcessSplitsAdds(i) ==
    /\ run[i] = "splits"
    /\ row.owner # Nobody
    /\ \E result \in BOOLEAN :
          /\ Validate(row.owner, result)
          /\ row' = IdentityRow(row.owner, result)
          /\ receivers' = receivers \union
                (IF result THEN {[by |-> i, owner |-> row.owner]} ELSE {})
    /\ lock' = 0
    /\ Goto(i, "done")
    /\ UNCHANGED <<log, pre, aborts>>

(* The receiver rows are destroyed, and one is created if the identity is  *)
(* linked.                                                                 *)
ProcessSplits(i) ==
    /\ run[i] = "splits"
    /\ row.owner # Nobody
    /\ \E result \in BOOLEAN :
          /\ Validate(row.owner, result)
          /\ row' = IdentityRow(row.owner, result)
          /\ receivers' = IF result THEN {[by |-> i, owner |-> row.owner]} ELSE {}
    /\ lock' = 0
    /\ Goto(i, "done")
    /\ UNCHANGED <<log, pre, aborts>>

(* An error, an exit of the process: the transaction is rolled back and    *)
(* the job runs again later.                                               *)
Abort(i) ==
    /\ run[i] \notin {"todo", "done"}
    /\ aborts < MaxAborts
    /\ aborts' = aborts + 1
    /\ Goto(i, "todo")
    /\ lock' = IF lock = i THEN 0 ELSE lock
    /\ UNCHANGED <<log, pre, tables, faults>>

----------------------------------------------------------------------------
Handle(i) ==
    \/ ReadOwner(i) \/ ValidateDefaults(i)
    \/ CreateIdentity(i) \/ FindIdentity(i) \/ UpdateIdentity(i)
    \/ CheckSplits(i) \/ LockForSplits(i)
    \/ UnclaimedSplits(i) \/ ProcessSplits(i)

Next ==
    \/ \E ev \in Event : Mine(ev)
    \/ EnsureExists
    \/ \E i \in 1..Len(log) : Handle(i) \/ Abort(i)

Spec == Init /\ [][Next]_vars

(* Every job is run, and run again until it succeeds, by the queue.        *)
Fairness ==
    \A i \in 1..MaxLog : WF_vars(i \in 1..Len(log) /\ Handle(i))

FairSpec == Spec /\ Fairness

----------------------------------------------------------------------------
TypeOK ==
    /\ log \in Seq(Event) /\ Len(log) <= MaxLog
    /\ run \in Seq(Labels) /\ Len(run) = Len(log)
    /\ pre \in Seq(BOOLEAN) /\ Len(pre) = Len(log)
    /\ row \in Row
    /\ lock \in 0..Len(log)
    /\ receivers \subseteq [by : 1..Len(log), owner : Owners]
    /\ faults \in Nat /\ aborts \in Nat

AllHandled == \A i \in 1..Len(log) : run[i] = "done"

(* At rest, areSplitsValid says whether the splits on chain are 100% to    *)
(* the owner the row names, in whatever order and however concurrently     *)
(* the events were handled (unless a validation was cut off by an error).  *)
ValidAtRest ==
    AllHandled /\ faults = 0 =>
        row.valid = (row.owner # Nobody /\ SplitsHash = row.owner)

(* The identity never has two owner receivers, concurrent SplitsSet runs   *)
(* included, and none while it is unclaimed; at rest, none says that it    *)
(* pays an account that its splits on chain do not pay.                    *)
ReceiversMatchChain ==
    /\ \A r1, r2 \in receivers : r1 = r2
    /\ receivers # {} => row.owner # Nobody
    /\ AllHandled => \A r \in receivers : r.owner = SplitsHash

(* At rest, an account that is owned on chain is claimed: the events that  *)
(* were skipped as outdated never leave it unclaimed.                      *)
ClaimedAtRest == AllHandled /\ OwnerOf # Nobody => row.owner # Nobody

(* Every event of the account is eventually handled for good: waiting for  *)
(* the identity's row always ends.                                         *)
EveryEventHandled ==
    \A i \in 1..MaxLog : i \in 1..Len(log) ~> (i \in 1..Len(log) /\ run[i] = "done")

----------------------------------------------------------------------------
(* A statement of the repository that the code does not keep.              *)

(* setLinkedIdentityFlag.test.ts:66: areSplitsValid is set together with   *)
(* the creation of the receiver row.  So a validly linked identity has the *)
(* row that says so.                                                       *)
LinkedHasReceiver == AllHandled /\ row.valid => receivers # {}
============================================================================
