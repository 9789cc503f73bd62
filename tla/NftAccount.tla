----------------------------- MODULE NftAccount -----------------------------
(***************************************************************************)
(* One NftDriver account (token), from the chain to its row in drip_lists  *)
(* or ecosystem_main_accounts and its rows in splits_receivers: the        *)
(* Transfer handler, the Drip List and Ecosystem branches of the           *)
(* AccountMetadataEmitted handler, and SplitsSet's setIsValidFlag.         *)
(*                                                                         *)
(* The queue runs the jobs in any order and again after a failure.  What a *)
(* handler reads from the chain before it locks a row may be outdated when *)
(* it writes: those reads are steps of their own.  What it does under the  *)
(* row lock is one step, but for the receivers of a document: the lock of  *)
(* a Drip List and that of an Ecosystem are two, and a document deletes    *)
(* what it finds before it adds its own.  The position of an event in the  *)
(* log is its version (makeVersion).                                       *)
(***************************************************************************)
EXTENDS Integers, Sequences

CONSTANTS Owners,     \* addresses that may hold the token
          Nobody,     \* model value: the zero address
          Splits,     \* receiver lists, up to their hash
          NoSplits,   \* the empty list, also the splits of a new account
          Documents,  \* IPFS documents the holder may publish
          Threshold,  \* visibilityThresholdBlockNumber, as a position
          MaxLog      \* bound: events of the account

Kinds == {"dripList", "ecosystem"}

(* A document describes this account or not, and its sources match their   *)
(* account ids or not.                                                     *)
Document == [type : Kinds, splits : Splits \union {NoSplits}, visible : BOOLEAN,
             describes : BOOLEAN, sources : BOOLEAN]

ASSUME NftAssumption ==
    /\ MaxLog \in Nat /\ Threshold \in Nat
    /\ Documents \subseteq Document
    /\ Nobody \notin Owners /\ NoSplits \notin Splits

VARIABLES
    log,        \* the account's events on the chain, oldest first
    run,        \* run[i]: where the handler of event i is
    seen,       \* seen[i]: the owner event i's handler has read
    rows,       \* rows[k]: the row of kind k
    listed,     \* documents whose receivers are in splits_receivers
    gone,       \* gone[i]: documents whose receivers event i's run has deleted
    raced,      \* history: some write used an outdated read of the chain
    decided     \* history: decided[k]: the newest event to set visible in row k

history == <<raced, decided>>
vars == <<log, run, seen, rows, listed, gone, raced, decided>>

----------------------------------------------------------------------------
Event == [kind : {"Transfer"}, value : Owners \union {Nobody}]
         \union [kind : {"SplitsSet"}, value : Splits \union {NoSplits}]
         \union [kind : {"Metadata"}, value : Documents]

Positions == 1..Len(log)

Last(S) == CHOOSE i \in S : \A k \in S : k <= i
Before(i, kind) == {k \in Positions : k < i /\ log[k].kind = kind}
LastOf(i, kind, none) ==
    IF Before(i, kind) = {} THEN none ELSE log[Last(Before(i, kind))].value

(* ownerOf reverts for Nobody: a token that was burnt.                     *)
OwnerOf    == LastOf(Len(log) + 1, "Transfer", Nobody)
SplitsHash == LastOf(Len(log) + 1, "SplitsSet", NoSplits)

(* A Transfer carries the holder before it; a mint has none.               *)
FromOf(i) == LastOf(i, "Transfer", Nobody)
IsMint(i) == FromOf(i) = Nobody

Row == [there : BOOLEAN, owner : Owners \union {Nobody}, prev : Owners \union {Nobody},
        creator : Owners \union {Nobody}, visible : BOOLEAN, valid : BOOLEAN,
        version : 0..MaxLog]

Absent == [there |-> FALSE, owner |-> Nobody, prev |-> Nobody, creator |-> Nobody,
           visible |-> TRUE, valid |-> FALSE, version |-> 0]

Both  == \A k \in Kinds : rows[k].there
Found == {k \in Kinds : rows[k].there}

Is(i, kind, label) == log[i].kind = kind /\ run[i] = label
Goto(i, label)     == run' = [run EXCEPT ![i] = label]
Decide(i, k)       == decided' = [decided EXCEPT ![k] = IF i > @ THEN i ELSE @]

(* The splits of the account's receiver rows are those of a list: the      *)
(* lists of two documents together are those of none.                      *)
NotEmpty == {i \in listed : log[i].value.splits # NoSplits}
Receivers(splits) ==
    IF splits = NoSplits THEN NotEmpty = {}
    ELSE \E i \in NotEmpty : NotEmpty = {i} /\ log[i].value.splits = splits

(* The run of a document of that kind holds the row (findOrCreate with a   *)
(* lock) from its write to the commit.                                     *)
Locked(k) == \E i \in Positions : Is(i, "Metadata", "replacing") /\ log[i].value.type = k

----------------------------------------------------------------------------
Init ==
    /\ log = << >> /\ run = << >> /\ seen = << >>
    /\ rows = [k \in Kinds |-> Absent]
    /\ listed = {} /\ gone = << >>
    /\ raced = FALSE
    /\ decided = [k \in Kinds |-> 0]

(* The contracts: the mint comes first, a burnt token is never minted      *)
(* again, and only the holder sets splits and emits metadata.              *)
Mine(ev) ==
    /\ Len(log) < MaxLog
    /\ OwnerOf = Nobody => log = << >> /\ ev.kind = "Transfer" /\ ev.value # Nobody
    /\ log' = Append(log, ev)
    /\ run' = Append(run, "todo")
    /\ seen' = Append(seen, Nobody)
    /\ gone' = Append(gone, {})
    /\ UNCHANGED <<rows, listed, history>>

----------------------------------------------------------------------------
(* Transfer.  The creator of a mint is saved even if the event is outdated *)
(* by now; owner, previous owner and version only if its receiver is the   *)
(* owner on chain, the visibility only if it is also newer than the last   *)
(* event that was processed.                                               *)
TransferVisible(i) == i > Threshold => IsMint(i)

(* Faulty variants: a version that is one too high; the creator of an      *)
(* outdated mint is not saved; the previous owner is written only if the   *)
(* event is newer.                                                         *)
TransferredAhead(i, r) ==
    [r EXCEPT !.creator = IF IsMint(i) THEN log[i].value ELSE @,
              !.version = IF log[i].value = OwnerOf THEN i + 1 ELSE @]
TransferredLate(i, r) ==
    IF log[i].value = OwnerOf
    THEN [r EXCEPT !.creator = IF IsMint(i) THEN log[i].value ELSE @,
                   !.owner = log[i].value, !.prev = FromOf(i), !.version = i]
    ELSE r
TransferredNewer(i, r) ==
    LET current == log[i].value = OwnerOf
        newer   == current /\ i > r.version
    IN  [r EXCEPT !.creator = IF IsMint(i) THEN log[i].value ELSE @,
                  !.owner   = IF current THEN log[i].value ELSE @,
                  !.prev    = IF newer THEN FromOf(i) ELSE @,
                  !.visible = IF newer THEN TransferVisible(i) ELSE @,
                  !.version = IF current THEN i ELSE @]

Transferred(i, r) ==
    LET current == log[i].value = OwnerOf
        newer   == current /\ i > r.version
    IN  [r EXCEPT !.creator = IF IsMint(i) THEN log[i].value ELSE @,
                  !.owner   = IF current THEN log[i].value ELSE @,
                  !.prev    = IF current THEN FromOf(i) ELSE @,
                  !.visible = IF newer THEN TransferVisible(i) ELSE @,
                  !.version = IF current THEN i ELSE @]

(* Faulty variant: an outdated transfer is retried until it is the latest. *)
TransferWaits(i, k) ==
    /\ Is(i, "Transfer", "todo")
    /\ Found = {k} /\ ~Locked(k)
    /\ OwnerOf = log[i].value
    /\ rows' = [rows EXCEPT ![k] = Transferred(i, @)]
    /\ Goto(i, "done")
    /\ UNCHANGED <<log, seen, listed, gone, history>>

Transfer(i, k) ==
    /\ Is(i, "Transfer", "todo")
    /\ Found = {k} /\ ~Locked(k)
    /\ OwnerOf # Nobody
    /\ rows' = [rows EXCEPT ![k] = Transferred(i, @)]
    /\ IF log[i].value = OwnerOf /\ i > rows[k].version
       THEN Decide(i, k) ELSE UNCHANGED decided
    /\ Goto(i, "done")
    /\ UNCHANGED <<log, seen, listed, gone, raced>>

----------------------------------------------------------------------------
(* AccountMetadataEmitted: the document's receivers must hash to the       *)
(* splits on chain.  Wrong sources end the run for a Drip List, but are    *)
(* only reported for an Ecosystem.                                         *)
CheckDocument(i) ==
    LET doc == log[i].value
    IN  /\ Is(i, "Metadata", "todo")
        /\ Goto(i, IF /\ doc.describes
                      /\ doc.splits = SplitsHash
                      /\ doc.sources \/ doc.type = "ecosystem"
                   THEN "verified" ELSE "done")
        /\ UNCHANGED <<log, seen, rows, listed, gone, history>>

ReadOwner(i) ==
    /\ Is(i, "Metadata", "verified")
    /\ OwnerOf # Nobody
    /\ seen' = [seen EXCEPT ![i] = OwnerOf]
    /\ Goto(i, "owned")
    /\ UNCHANGED <<log, rows, listed, gone, history>>

DocumentVisible(i) == i > Threshold => log[i].value.visible

(* Faulty variant: the receivers are replaced without the lock of the row. *)
DeleteReceiversUnlocked(i) ==
    /\ Is(i, "Metadata", "owned")
    /\ gone' = [gone EXCEPT ![i] = listed]
    /\ Goto(i, "replacing")
    /\ UNCHANGED <<log, seen, rows, listed, history>>

(* The row is written first, also by the Ecosystem's event that leaves it  *)
(* as it is: its lock keeps out other documents of the kind, and transfers *)
(* and splits, until the commit.  The DELETE takes the receivers it finds; *)
(* when a run of the other kind has deleted them too, it waits for that    *)
(* run, and still takes none of those the run adds.                        *)
DeleteReceivers(i) ==
    /\ Is(i, "Metadata", "owned")
    /\ ~Locked(log[i].value.type)
    /\ gone' = [gone EXCEPT ![i] = listed]
    /\ Goto(i, "replacing")
    /\ UNCHANGED <<log, seen, rows, listed, history>>

(* The commit: the row, the receivers deleted and those of the document.   *)
FinishDocument(i) ==
    /\ listed' = (listed \ gone[i]) \union {i}
    /\ gone' = [gone EXCEPT ![i] = {}]
    /\ raced' = (raced \/ seen[i] # OwnerOf \/ log[i].value.splits # SplitsHash)
    /\ Goto(i, "done")
    /\ UNCHANGED <<log, seen>>

CreateAccount(i, k) ==
    /\ Is(i, "Metadata", "replacing") /\ log[i].value.type = k
    /\ ~rows[k].there
    /\ rows' = [rows EXCEPT ![k] =
                  [Absent EXCEPT !.there = TRUE, !.owner = seen[i], !.version = i,
                                 !.visible = DocumentVisible(i)]]
    /\ Decide(i, k)
    /\ FinishDocument(i)

(* Owner and version of a Drip List are overwritten by any event, the      *)
(* visibility only by one newer than the last.                             *)
UpdateDripList(i) ==
    LET row   == rows["dripList"]
        newer == i > row.version
    IN  /\ Is(i, "Metadata", "replacing") /\ log[i].value.type = "dripList"
        /\ row.there
        /\ rows' = [rows EXCEPT !["dripList"] =
                      [row EXCEPT
                         !.owner = seen[i], !.version = i,
                         !.visible = IF newer THEN DocumentVisible(i) ELSE row.visible]]
        /\ IF newer THEN Decide(i, "dripList") ELSE UNCHANGED decided
        /\ FinishDocument(i)

(* The row of an Ecosystem is left alone by an event older than the last.  *)
UpdateEcosystem(i) ==
    LET newer == i > rows["ecosystem"].version
    IN  /\ Is(i, "Metadata", "replacing") /\ log[i].value.type = "ecosystem"
        /\ rows["ecosystem"].there
        /\ IF newer
           THEN /\ rows' = [rows EXCEPT !["ecosystem"] =
                              [@ EXCEPT !.owner = seen[i], !.version = i,
                                        !.visible = DocumentVisible(i)]]
                /\ Decide(i, "ecosystem")
           ELSE UNCHANGED <<rows, decided>>
        /\ FinishDocument(i)

----------------------------------------------------------------------------
(* SplitsSet: an event whose splits are not on chain any more is skipped.  *)
CheckSplits(i) ==
    /\ Is(i, "SplitsSet", "todo")
    /\ Goto(i, IF log[i].value = SplitsHash THEN "current" ELSE "done")
    /\ UNCHANGED <<log, seen, rows, listed, gone, history>>

(* Faulty variant: other receivers are no reason to retry.                 *)
SetIsValidFlagGivesUp(i, k) ==
    /\ Is(i, "SplitsSet", "current")
    /\ Found = {k} /\ ~Locked(k)
    /\ OwnerOf # Nobody /\ rows[k].owner = OwnerOf
    /\ rows' = [rows EXCEPT ![k].valid = Receivers(log[i].value)]
    /\ raced' = (raced \/ log[i].value # SplitsHash)
    /\ Goto(i, "done")
    /\ UNCHANGED <<log, seen, listed, gone, decided>>

SetIsValidFlag(i, k) ==
    /\ Is(i, "SplitsSet", "current")
    /\ Found = {k} /\ ~Locked(k)
    /\ OwnerOf # Nobody /\ rows[k].owner = OwnerOf
    /\ Receivers(log[i].value)
    /\ rows' = [rows EXCEPT ![k].valid = TRUE]
    /\ raced' = (raced \/ log[i].value # SplitsHash)
    /\ Goto(i, "done")
    /\ UNCHANGED <<log, seen, listed, gone, decided>>

(* No row, two rows, another owner, other receivers, or an exit: the       *)
(* transaction is rolled back and the job runs again later.                *)
Abort(i) ==
    /\ run[i] \notin {"todo", "done"}
    /\ Goto(i, "todo")
    /\ seen' = [seen EXCEPT ![i] = Nobody]
    /\ gone' = [gone EXCEPT ![i] = {}]
    /\ UNCHANGED <<log, rows, listed, history>>

----------------------------------------------------------------------------
Write(i) ==
    \/ \E k \in Kinds : Transfer(i, k) \/ CreateAccount(i, k) \/ SetIsValidFlag(i, k)
    \/ UpdateDripList(i) \/ UpdateEcosystem(i)

Handle(i) ==
    CheckDocument(i) \/ ReadOwner(i) \/ DeleteReceivers(i) \/ CheckSplits(i) \/ Write(i)

Next ==
    \/ \E ev \in Event : Mine(ev)
    \/ \E i \in Positions : Handle(i) \/ Abort(i)

Spec == Init /\ [][Next]_vars

(* The queue retries every job.  Exits are rare enough for a run that      *)
(* could be completed again and again to be completed.                     *)
Fairness ==
    \A i \in 1..MaxLog :
        /\ WF_vars(i \in Positions /\ Handle(i))
        /\ SF_vars(i \in Positions /\ Write(i))

FairSpec == Spec /\ Fairness

----------------------------------------------------------------------------
TypeOK ==
    /\ log \in Seq(Event) /\ Len(log) <= MaxLog
    /\ run \in Seq({"todo", "verified", "owned", "replacing", "current", "done"})
    /\ Len(run) = Len(log)
    /\ seen \in Seq(Owners \union {Nobody}) /\ Len(seen) = Len(log)
    /\ rows \in [Kinds -> Row]
    /\ listed \subseteq {i \in Positions : log[i].kind = "Metadata"}
    /\ gone \in Seq(SUBSET (1..MaxLog)) /\ Len(gone) = Len(log)
    /\ raced \in BOOLEAN
    /\ decided \in [Kinds -> 0..MaxLog]

AllHandled == \A i \in Positions : run[i] = "done"

(* Once everything is handled, the one row of the account has the owner    *)
(* and the receivers that are on chain, and is valid if splits were set,   *)
(* whatever the order of handling, unless some handler wrote what it had   *)
(* read from the chain before the chain moved on.                          *)
ConvergesWithoutRaces ==
    AllHandled /\ ~raced =>
        \A k \in Kinds : Found = {k} =>
            /\ rows[k].owner = OwnerOf
            /\ Receivers(SplitsHash)
            /\ SplitsHash # NoSplits => rows[k].valid

(* The creator is the receiver of the mint, even if the token was passed   *)
(* on before the mint was handled, and no later transfer replaces it.      *)
CreatorIsMinter ==
    /\ \A k \in Kinds : rows[k].creator # Nobody => rows[k].creator = log[1].value
    /\ AllHandled /\ Found # {} => \E k \in Found : rows[k].creator = log[1].value

(* The previous owner, which only transfers write, is one from whom the    *)
(* owner on chain received the token, however late the transfer found its  *)
(* row and whatever metadata was written in between.  It need not be the   *)
(* last of them: a token that came back may show how it came the first     *)
(* time.                                                                   *)
PreviousOwner ==
    AllHandled => \A k \in Kinds : Found = {k} =>
        \E i \in Positions :
            /\ log[i].kind = "Transfer" /\ log[i].value = OwnerOf
            /\ rows[k].prev = FromOf(i)

(* The owner of each row implements Mirror: it only ever becomes what a    *)
(* run has seen on the chain, whatever an event or a document says, and    *)
(* however runs overlap and start again.  The receivers implement          *)
(* MirrorTable: each list in the table is one that the run that wrote it   *)
(* has seen on the chain, whole, and no two are of one kind.  Those of a   *)
(* Drip List and of an Ecosystem may both be there.                        *)
HeldOwner ==
    [i \in 1..MaxLog |->
        IF i \in Positions /\ run[i] \in {"owned", "replacing"} THEN {seen[i]} ELSE {}]
HeldSplits ==
    [i \in 1..MaxLog |->
        IF i \in Positions /\ run[i] \in {"verified", "owned", "replacing"}
        THEN {[kind |-> log[i].value.type, value |-> log[i].value.splits]} ELSE {}]
Listed ==
    {[run |-> i, kind |-> log[i].value.type, value |-> log[i].value.splits] : i \in listed}

DripListOwner == INSTANCE Mirror WITH
                    Runs   <- 1..MaxLog,
                    Values <- Owners \union {Nobody},
                    chain  <- OwnerOf,
                    copy   <- rows["dripList"].owner,
                    held   <- HeldOwner
EcosystemOwner == INSTANCE Mirror WITH
                    Runs   <- 1..MaxLog,
                    Values <- Owners \union {Nobody},
                    chain  <- OwnerOf,
                    copy   <- rows["ecosystem"].owner,
                    held   <- HeldOwner
SplitsTable == INSTANCE MirrorTable WITH
                    Runs   <- 1..MaxLog,
                    Values <- Splits \union {NoSplits},
                    chain  <- SplitsHash,
                    table  <- Listed,
                    held   <- HeldSplits
Mirrored == DripListOwner!Spec /\ EcosystemOwner!Spec /\ SplitsTable!Spec

(* An account that is neither burnt nor listed twice has all its transfers *)
(* handled once its row was created, however early they were tried.        *)
TransfersHandled ==
    \A i \in 1..MaxLog :
        (i \in Positions /\ log[i].kind = "Transfer" /\ Found # {}) ~>
            (Both \/ OwnerOf = Nobody \/ (i \in Positions /\ run[i] = "done"))

----------------------------------------------------------------------------
(* A statement of the repository that the code does not keep.              *)

(* handleDripListMetadata.ts:187, TransferEventHandler.ts:141: fields that *)
(* another handler could also modify are updated safely.  The visibility   *)
(* that a newer event set is never replaced by that of an older one.       *)
StaleNeverFlips ==
    [][\A k \in Found : rows'[k].visible # rows[k].visible =>
           decided'[k] > decided[k]]_vars
=============================================================================
