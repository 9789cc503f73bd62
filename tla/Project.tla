------------------------------- MODULE Project -------------------------------
(***************************************************************************)
(* One GitHub project, from the chain to its row in projects and its rows  *)
(* in splits_receivers: OwnerUpdated (project branch), its own             *)
(* AccountMetadataEmitted, SplitsSet (setIsValidFlag), and the metadata of *)
(* other accounts that name it as a receiver.                              *)
(*                                                                         *)
(* The queue runs the jobs in any order and again after a failure.  What a *)
(* handler reads from the chain before it locks the row may be outdated    *)
(* when it writes: those reads are steps of their own.  What it does under *)
(* the row lock, with at most one read of the chain, is one step.  The     *)
(* position of an event in the log is its version (makeVersion).           *)
(***************************************************************************)
EXTENDS Integers, Sequences

CONSTANTS Owners,     \* addresses that may own the project
          Nobody,     \* model value: no owner
          Splits,     \* receiver lists, up to their hash
          NoSplits,   \* the empty list, also the splits of a new account
          Documents,  \* IPFS documents the owner may publish
          MaxLog      \* bound: events of the project

(* A document lists receivers and a visibility.  It describes this project *)
(* or not, and its sources match their account ids or not.                 *)
Document == [splits : Splits \union {NoSplits}, visible : BOOLEAN,
             describes : BOOLEAN, sources : BOOLEAN]

ASSUME ProjectAssumption ==
    /\ MaxLog \in Nat
    /\ Documents \subseteq Document
    /\ Nobody \notin Owners /\ NoSplits \notin Splits

VARIABLES
    log,        \* the events about the project on the chain, oldest first
    run,        \* run[i]: where the handler of event i is
    row,        \* the project's row
    receivers,  \* its receiver rows, up to their hash
    raced       \* history: some write used an outdated read of the chain

vars == <<log, run, row, receivers, raced>>

----------------------------------------------------------------------------
Event == [kind : {"OwnerUpdated"}, value : Owners]
         \union [kind : {"SplitsSet"}, value : Splits \union {NoSplits}]
         \union [kind : {"Metadata"}, value : Documents]
         \union [kind : {"Named"}, value : {"dependency"}]

Positions == 1..Len(log)

LastOf(kind, none) ==
    LET at == {i \in Positions : log[i].kind = kind}
    IN  IF at = {} THEN none ELSE log[CHOOSE i \in at : \A k \in at : k <= i].value

OwnerOf    == LastOf("OwnerUpdated", Nobody)
SplitsHash == LastOf("SplitsSet", NoSplits)

Statuses == {"claimed", "unclaimed", "pending_metadata"}

Row == [there : BOOLEAN, owner : Owners \union {Nobody}, meta : 0..MaxLog,
        status : Statuses, visible : BOOLEAN, valid : BOOLEAN, version : 0..MaxLog]

Absent == [there |-> FALSE, owner |-> Nobody, meta |-> 0, status |-> "unclaimed",
           visible |-> TRUE, valid |-> TRUE, version |-> 0]

(* calculateProjectStatus; a document without an owner is an error.        *)
HasStatus(owner, meta) == owner # Nobody \/ meta = 0
CalculateProjectStatus(owner, meta) ==
    CASE owner # Nobody /\ meta # 0 -> "claimed"
      [] owner = Nobody /\ meta = 0 -> "unclaimed"
      [] owner # Nobody /\ meta = 0 -> "pending_metadata"

Is(i, kind, label) == log[i].kind = kind /\ run[i] = label
Goto(i, label)     == run' = [run EXCEPT ![i] = label]

----------------------------------------------------------------------------
Init ==
    /\ log = << >>
    /\ run = << >>
    /\ row = Absent
    /\ receivers = NoSplits
    /\ raced = FALSE

(* The contracts: only an owner sets splits or emits metadata; anyone may  *)
(* name the project.                                                       *)
Mine(ev) ==
    /\ Len(log) < MaxLog
    /\ ev.kind \in {"SplitsSet", "Metadata"} => OwnerOf # Nobody
    /\ log' = Append(log, ev)
    /\ run' = Append(run, "todo")
    /\ UNCHANGED <<row, receivers, raced>>

----------------------------------------------------------------------------
(* OwnerUpdated: the owner on chain is compared before the transaction.    *)
ReadOwner(i) ==
    /\ Is(i, "OwnerUpdated", "todo")
    /\ Goto(i, IF log[i].value = OwnerOf THEN "owned" ELSE "done")
    /\ UNCHANGED <<log, row, receivers, raced>>

CreateProject(i) ==
    /\ Is(i, "OwnerUpdated", "owned")
    /\ ~row.there
    /\ row' = [Absent EXCEPT !.there = TRUE, !.owner = log[i].value,
                             !.status = "pending_metadata", !.version = i]
    /\ raced' = (raced \/ log[i].value # OwnerOf)
    /\ Goto(i, "done")
    /\ UNCHANGED <<log, receivers>>

(* Faulty variant: a version that is one too high.                         *)
UpdateOwnerAhead(i) ==
    /\ Is(i, "OwnerUpdated", "owned")
    /\ row.there
    /\ row' = [row EXCEPT
                 !.owner = log[i].value,
                 !.status = CalculateProjectStatus(log[i].value, row.meta),
                 !.version = i + 1]
    /\ raced' = (raced \/ log[i].value # OwnerOf)
    /\ Goto(i, "done")
    /\ UNCHANGED <<log, receivers>>

(* Owner and version are overwritten by any event, the status only by one  *)
(* newer than the last.                                                    *)
UpdateOwner(i) ==
    /\ Is(i, "OwnerUpdated", "owned")
    /\ row.there
    /\ row' = [row EXCEPT
                 !.owner = log[i].value,
                 !.status = IF i > row.version
                            THEN CalculateProjectStatus(log[i].value, row.meta) ELSE @,
                 !.version = i]
    /\ raced' = (raced \/ log[i].value # OwnerOf)
    /\ Goto(i, "done")
    /\ UNCHANGED <<log, receivers>>

----------------------------------------------------------------------------
(* Faulty variant: the document is trusted.                                *)
CheckDocumentOnly(i) ==
    /\ Is(i, "Metadata", "todo")
    /\ Goto(i, IF log[i].value.describes THEN "verified" ELSE "done")
    /\ UNCHANGED <<log, row, receivers, raced>>

(* AccountMetadataEmitted.  The check for a newer event compares the event *)
(* with its own row only, so it always passes and is no step here.  The    *)
(* document's receivers must hash to the splits on chain.                  *)
CheckDocument(i) ==
    /\ Is(i, "Metadata", "todo")
    /\ Goto(i, IF log[i].value.describes /\ log[i].value.splits = SplitsHash
               THEN "verified" ELSE "done")
    /\ UNCHANGED <<log, row, receivers, raced>>

(* Faulty variants: the status is not calculated again; the receivers are  *)
(* not replaced.                                                           *)
UpdateProjectKeepsStatus(i) ==
    /\ Is(i, "Metadata", "verified")
    /\ row.there /\ log[i].value.sources /\ HasStatus(row.owner, i)
    /\ row' = [row EXCEPT !.meta = i, !.version = i, !.visible = log[i].value.visible]
    /\ receivers' = log[i].value.splits
    /\ raced' = (raced \/ log[i].value.splits # SplitsHash)
    /\ Goto(i, "done")
    /\ UNCHANGED log
UpdateProjectKeepsReceivers(i) ==
    /\ Is(i, "Metadata", "verified")
    /\ row.there /\ log[i].value.sources /\ HasStatus(row.owner, i)
    /\ row' = [row EXCEPT !.meta = i, !.version = i, !.visible = log[i].value.visible,
                       !.status = CalculateProjectStatus(row.owner, i)]
    /\ UNCHANGED receivers
    /\ raced' = (raced \/ log[i].value.splits # SplitsHash)
    /\ Goto(i, "done")
    /\ UNCHANGED log

UpdateProject(i) ==
    /\ Is(i, "Metadata", "verified")
    /\ row.there /\ log[i].value.sources /\ HasStatus(row.owner, i)
    /\ row' = [row EXCEPT
                 !.meta = i, !.version = i, !.visible = log[i].value.visible,
                 !.status = CalculateProjectStatus(row.owner, i)]
    /\ receivers' = log[i].value.splits
    /\ raced' = (raced \/ log[i].value.splits # SplitsHash)
    /\ Goto(i, "done")
    /\ UNCHANGED log

(* The sources are verified under the row lock.                            *)
RejectSources(i) ==
    /\ Is(i, "Metadata", "verified")
    /\ row.there /\ ~log[i].value.sources
    /\ Goto(i, "done")
    /\ UNCHANGED <<log, row, receivers, raced>>

(* No row yet (RecoverableError), or one without an owner, for which there *)
(* is no status: rolled back, and retried.                                 *)
RetryDocument(i) ==
    /\ Is(i, "Metadata", "verified")
    /\ row.there => log[i].value.sources /\ ~HasStatus(row.owner, i)
    /\ Goto(i, "todo")
    /\ UNCHANGED <<log, row, receivers, raced>>

----------------------------------------------------------------------------
(* SplitsSet: an event whose splits are not on chain any more is skipped.  *)
CheckSplits(i) ==
    /\ Is(i, "SplitsSet", "todo")
    /\ Goto(i, IF log[i].value = SplitsHash THEN "current" ELSE "done")
    /\ UNCHANGED <<log, row, receivers, raced>>

(* Faulty variant: other receivers are no reason to retry.                 *)
SetIsValidFlagGivesUp(i) ==
    /\ Is(i, "SplitsSet", "current")
    /\ row.there /\ row.owner = OwnerOf
    /\ row' = [row EXCEPT !.valid = (receivers = log[i].value)]
    /\ raced' = (raced \/ log[i].value # SplitsHash)
    /\ Goto(i, "done")
    /\ UNCHANGED <<log, receivers>>

SetIsValidFlag(i) ==
    /\ Is(i, "SplitsSet", "current")
    /\ row.there /\ row.owner = OwnerOf
    /\ receivers = log[i].value
    /\ row' = [row EXCEPT !.valid = TRUE]
    /\ raced' = (raced \/ log[i].value # SplitsHash)
    /\ Goto(i, "done")
    /\ UNCHANGED <<log, receivers>>

(* A flag that is FALSE is saved too, and then rolled back with the whole  *)
(* transaction by the error that asks for a retry.                         *)
RetrySplits(i) ==
    /\ Is(i, "SplitsSet", "current")
    /\ ~(row.there /\ row.owner = OwnerOf /\ receivers = log[i].value)
    /\ Goto(i, "todo")
    /\ UNCHANGED <<log, row, receivers, raced>>

----------------------------------------------------------------------------
(* Faulty variant: the project is expected to exist.                       *)
NamedFinds(i) ==
    /\ Is(i, "Named", "todo")
    /\ row.there
    /\ Goto(i, "done")
    /\ UNCHANGED <<log, row, receivers, raced>>

(* Another account's metadata names the project as a receiver.             *)
Named(i) ==
    /\ Is(i, "Named", "todo")
    /\ row' = IF row.there THEN row
              ELSE [Absent EXCEPT !.there = TRUE, !.version = i]
    /\ Goto(i, "done")
    /\ UNCHANGED <<log, receivers, raced>>

(* An exit or an error between two steps of a run: it starts again.        *)
Abort(i) ==
    /\ run[i] \notin {"todo", "done"}
    /\ Goto(i, "todo")
    /\ UNCHANGED <<log, row, receivers, raced>>

----------------------------------------------------------------------------
Finish(i) ==
    \/ CreateProject(i) \/ UpdateOwner(i)
    \/ UpdateProject(i) \/ RejectSources(i)
    \/ SetIsValidFlag(i)

Handle(i) ==
    \/ ReadOwner(i) \/ CheckDocument(i) \/ CheckSplits(i) \/ Named(i)
    \/ Finish(i) \/ RetryDocument(i) \/ RetrySplits(i)

Next ==
    \/ \E ev \in Event : Mine(ev)
    \/ \E i \in Positions : Handle(i) \/ Abort(i)

Spec == Init /\ [][Next]_vars

(* The queue retries every job.  Exits are rare enough for a run to be     *)
(* completed whenever it could be completed again and again.               *)
Fairness ==
    \A i \in 1..MaxLog :
        /\ WF_vars(i \in Positions /\ Handle(i))
        /\ SF_vars(i \in Positions /\ Finish(i))

FairSpec == Spec /\ Fairness

----------------------------------------------------------------------------
TypeOK ==
    /\ log \in Seq(Event) /\ Len(log) <= MaxLog
    /\ run \in Seq({"todo", "owned", "verified", "current", "done"})
    /\ Len(run) = Len(log)
    /\ row \in Row
    /\ receivers \in Splits \union {NoSplits}
    /\ raced \in BOOLEAN

AllHandled == \A i \in Positions : run[i] = "done"

(* The status tells claimed projects from others for every order of owner  *)
(* and metadata events: exactly those with a document and an owner are     *)
(* claimed, and only an owned project waits for its document.              *)
StatusSound ==
    /\ row.status = "claimed" <=> row.meta # 0
    /\ row.meta # 0 => row.owner # Nobody
    /\ row.status = "pending_metadata" => row.owner # Nobody

(* The row never shows receivers without the document that listed them,    *)
(* although the two are replaced by separate statements.                   *)
ReceiversFromDocument ==
    IF row.meta = 0 THEN receivers = NoSplits
                    ELSE receivers = log[row.meta].value.splits

(* Once everything is handled, owner and receivers are those on chain,     *)
(* whatever the order of handling, unless some handler wrote what it had   *)
(* read from the chain before the chain moved on.                          *)
ConvergesWithoutRaces ==
    AllHandled /\ ~raced =>
        /\ row.owner = OwnerOf
        /\ receivers = SplitsHash

(* Owner and receivers implement Mirror: they only ever become what a run  *)
(* has seen on the chain, whatever an event or a document says, and        *)
(* however runs overlap and start again.                                   *)
HeldOwner ==
    [i \in 1..MaxLog |->
        IF i \in Positions /\ run[i] = "owned" THEN {log[i].value} ELSE {}]
HeldSplits ==
    [i \in 1..MaxLog |->
        IF i \in Positions /\ run[i] = "verified" THEN {log[i].value.splits} ELSE {}]

OwnerCopy == INSTANCE Mirror WITH
                 Runs   <- 1..MaxLog,
                 Values <- Owners \union {Nobody},
                 chain  <- OwnerOf,
                 copy   <- row.owner,
                 held   <- HeldOwner
SplitsCopy == INSTANCE Mirror WITH
                 Runs   <- 1..MaxLog,
                 Values <- Splits \union {NoSplits},
                 chain  <- SplitsHash,
                 copy   <- receivers,
                 held   <- HeldSplits
Mirrored == OwnerCopy!Spec /\ SplitsCopy!Spec

(* A document that was checked is not lost: every event of an owner or a   *)
(* document is eventually handled, retries included.                       *)
OwnersAndDocumentsHandled ==
    \A i \in 1..MaxLog :
        (i \in Positions /\ log[i].kind # "SplitsSet") ~>
            (i \in Positions /\ run[i] = "done")

----------------------------------------------------------------------------
(* Statements of the repository that the code does not keep.               *)

(* README.md:7: every instance reaches the same state once all events are  *)
(* ingested.  So, as calculateProjectStatus has it (projectUtils.ts:41),   *)
(* an owned project without metadata is pending_metadata, in whatever      *)
(* order the events were handled.                                          *)
OwnedIsNotUnclaimed == AllHandled /\ row.owner # Nobody => row.status # "unclaimed"

(* AccountMetadataEmittedEventHandler.test.ts:174: metadata is handled     *)
(* when the event is the latest, so newer metadata is never overwritten by *)
(* older.                                                                  *)
MetadataNeverRegresses == [][row'.meta >= row.meta]_vars
============================================================================
