-------------------------------- MODULE Poll --------------------------------
(***************************************************************************)
(* Ingestion of chain logs: the poll loop of src/events/poll.ts over the   *)
(* failover provider, from the tip of the chain to the jobs in Redis.      *)
(*                                                                         *)
(* Every request of a poll (block number, logs) is served by the first     *)
(* endpoint that answers it, so two requests of one poll may see different *)
(* views of the chain.  An endpoint's view is a snapshot of the chain, at  *)
(* most MaxLag blocks behind the tip.  The cursor (last_indexed_block) and *)
(* the jobs are durable; everything else is lost when the process exits,   *)
(* which any rejected promise of a poll brings about (src/index.ts).       *)
(*                                                                         *)
(* While the chain is younger than the confirmations a poll asks for a     *)
(* negative block, which ethers counts from the latest block: such a poll  *)
(* makes jobs of logs that are not confirmed.  The history variable early  *)
(* keeps them apart.                                                       *)
(***************************************************************************)
EXTENDS Integers

CONSTANTS MaxBlock,        \* bound: the highest block a behaviour mines
          Contents,        \* what a block may hold, up to its logs
          Registered,      \* the contents that carry a registered event
          NumEndpoints,    \* the primary RPC endpoint and its fallbacks
          ChunkSize,       \* appSettings.chunkSize
          Confirmations,   \* appSettings.confirmations
          StartFromBlock,  \* the first block to index (chain configuration)
          MaxReorg,        \* how many blocks a reorganisation may rewrite
          MaxLag,          \* how far an endpoint may be behind the tip
          MaxCrashes       \* bound: exits of the process in a behaviour

ASSUME PollAssumption ==
    /\ MaxBlock \in Nat
    /\ Registered \subseteq Contents
    /\ NumEndpoints \in Nat \ {0}
    /\ ChunkSize \in Nat \ {0}
    /\ Confirmations \in Nat
    /\ StartFromBlock \in Nat
    /\ MaxReorg \in Nat
    /\ MaxLag \in Nat
    /\ MaxCrashes \in Nat

(* What "confirmations" must cover: a view as far behind as an endpoint    *)
(* may be, and in it the blocks a reorganisation may still have rewritten. *)
ASSUME CoverAssumption == MaxReorg + MaxLag <= Confirmations

VARIABLES
    head, chain,  \* the canonical chain, as in Ingestion
    view,         \* view[e]: the snapshot of the chain endpoint e serves
    cursor,       \* last_indexed_block in Postgres
    jobs,         \* the jobs in Redis, by the event each was created for
    pc,           \* where the poll loop is
    start,        \* the startFromBlock argument of the current poll
    from, to,     \* fromBlock and toBlock of the current poll
    base,         \* what ethers adds to them: the latest block, if negative
    pending,      \* fetched logs whose createJob has not settled
    crashes,      \* exits so far
    early         \* history: jobs that only a poll of a negative range made

chainVars == <<head, chain>>
pollVars  == <<cursor, jobs, pc, start, from, to, base, pending, early>>
vars      == <<head, chain, view, cursor, jobs, pc, start, from, to, base,
               pending, crashes, early>>

----------------------------------------------------------------------------
Endpoints == 1..NumEndpoints
Blocks    == 1..MaxBlock
Unmined   == "unmined"
Event     == Blocks \X Contents

Snapshot == [head : 0..MaxBlock, chain : [Blocks -> Contents \union {Unmined}]]

Larger(a, b)  == IF a >= b THEN a ELSE b
Smaller(a, b) == IF a <= b THEN a ELSE b

(* FailoverJsonRpcProvider._send: the endpoints are tried in order, and    *)
(* those of "down" fail this one request.                                  *)
Answers(e, down) ==
    /\ e \notin down
    /\ \A f \in Endpoints : f < e => f \in down

(* The range a poll asks for, lines 42 to 48.                              *)
FirstBlock(s)   == Larger(s, cursor + 1)
(* Faulty variant: the confirmations are not waited for.                   *)
ToBlockAtTip(s, tip) == Smaller(FirstBlock(s) + ChunkSize - 1, tip)
ToBlock(s, tip) == Smaller(FirstBlock(s) + ChunkSize - 1, tip - Confirmations)
FromBlock(s, tip) == Smaller(FirstBlock(s), ToBlock(s, tip))

(* Faulty variant: events that are not registered are kept.               *)
LogsInAll(v, lo, hi) ==
    {ev \in Event : /\ lo <= ev[1] /\ ev[1] <= hi /\ ev[1] <= v.head
                    /\ ev[2] = v.chain[ev[1]]}

(* eth_getLogs on a node: what its own chain holds in the range; a range   *)
(* that reaches beyond its tip is not an error.  Unregistered events are   *)
(* dropped before a job is made of them.                                   *)
LogsIn(v, lo, hi) ==
    {ev \in Event : /\ lo <= ev[1] /\ ev[1] <= hi /\ ev[1] <= v.head
                    /\ ev[2] = v.chain[ev[1]]
                    /\ ev[2] \in Registered}

----------------------------------------------------------------------------
Init ==
    /\ head = 0
    /\ chain = [b \in Blocks |-> Unmined]
    /\ view = [e \in Endpoints |-> [head |-> head, chain |-> chain]]
    /\ cursor = 0
    /\ jobs = {}
    /\ pc = "poll"
    /\ start = StartFromBlock
    /\ from = 0 /\ to = 0 /\ base = 0
    /\ pending = {}
    /\ crashes = 0
    /\ early = {}

(* The environment: the chain and the endpoints that follow it.            *)
Mine(c) ==
    /\ head < MaxBlock
    /\ \A e \in Endpoints : head + 1 - view[e].head <= MaxLag
    /\ head' = head + 1
    /\ chain' = [chain EXCEPT ![head + 1] = c]
    /\ UNCHANGED <<view, pollVars, crashes>>

Reorg(b, c) ==
    /\ head - MaxReorg < b
    /\ b <= head
    /\ chain' = [chain EXCEPT ![b] = c]
    /\ UNCHANGED <<head, view, pollVars, crashes>>

Sync(e) ==
    /\ view' = [view EXCEPT ![e] = [head |-> head, chain |-> chain]]
    /\ UNCHANGED <<chainVars, pollVars, crashes>>

----------------------------------------------------------------------------
(* getBlockNumber, the cursor read and the range.                          *)
PlanRange(tip) ==
    LET hi == ToBlock(start, tip)
    IN  /\ to' = hi
        /\ from' = FromBlock(start, tip)
        /\ base' = 0
        /\ pc' = IF hi = cursor THEN "timer" ELSE IF hi < 0 THEN "resolve" ELSE "fetch"
        /\ UNCHANGED <<chainVars, view, cursor, jobs, start, pending, crashes, early>>

PollHead(down) ==
    /\ pc = "poll"
    /\ \E e \in Endpoints : Answers(e, down) /\ PlanRange(view[e].head)

(* Faulty variant: a bound that is still negative is asked for.            *)
ResolveUnchecked(down) ==
    /\ pc = "resolve"
    /\ \E e \in Endpoints :
          /\ Answers(e, down)
          /\ base' \in {to + Confirmations, view[e].head}
    /\ pc' = "fetch"
    /\ UNCHANGED <<chainVars, view, cursor, jobs, start, from, to, pending, crashes,
                   early>>

(* ethers' getLogs turns a negative bound into an offset from the latest   *)
(* block, one request for both bounds, which its cache may answer with the *)
(* poll's own block number.  A bound that is still negative cannot be      *)
(* encoded: getLogs throws and the process exits.                          *)
Resolve(down) ==
    /\ pc = "resolve"
    /\ \E e \in Endpoints :
          /\ Answers(e, down)
          /\ base' \in {to + Confirmations, view[e].head}
    /\ pc' = IF to + base' < 0 THEN "down" ELSE "fetch"
    /\ UNCHANGED <<chainVars, view, cursor, jobs, start, from, to, pending, crashes,
                   early>>

GetLogs(down) ==
    /\ pc = "fetch"
    /\ \E e \in Endpoints :
          /\ Answers(e, down)
          /\ pending' = LogsIn(view[e], from + base, to + base)
    /\ pc' = "save"
    /\ UNCHANGED <<chainVars, view, cursor, jobs, start, from, to, base, crashes,
                   early>>

(* One createJob of the Promise.all.  The job's id is made of the block,   *)
(* the transaction and the log index, and saving an id that exists is a    *)
(* no-op of bee-queue.  A job is early until a poll by number makes it too.*)
SaveJob(ev) ==
    /\ pc = "save"
    /\ ev \in pending
    /\ jobs' = jobs \union {ev}
    /\ early' = IF to < 0 THEN early \union ({ev} \ jobs) ELSE early \ {ev}
    /\ pending' = pending \ {ev}
    /\ UNCHANGED <<chainVars, view, cursor, pc, start, from, to, base, crashes>>

(* Faulty variant: the jobs are not awaited.                               *)
SetCursorEarly ==
    /\ pc = "save"
    /\ cursor' = to
    /\ pc' = "timer"
    /\ UNCHANGED <<chainVars, view, jobs, start, from, to, base, pending, crashes,
                   early>>

(* A negative toBlock is stored as it is.                                  *)
SetCursor ==
    /\ pc = "save"
    /\ pending = {}
    /\ cursor' = to
    /\ pc' = "timer"
    /\ UNCHANGED <<chainVars, view, jobs, start, from, to, base, pending, crashes,
                   early>>

(* setTimeout: the next poll is called without startFromBlock.             *)
Timer ==
    /\ pc = "timer"
    /\ pc' = "poll"
    /\ start' = 0
    /\ UNCHANGED <<chainVars, view, cursor, jobs, from, to, base, pending, crashes,
                   early>>

(* Any failure of a poll is an unhandled rejection: every endpoint failing *)
(* a request, Redis or Postgres refusing a write, a killed process.        *)
Crash ==
    /\ pc # "down"
    /\ crashes < MaxCrashes
    /\ crashes' = crashes + 1
    /\ pc' = "down"
    /\ UNCHANGED <<chainVars, view, cursor, jobs, start, from, to, base, pending, early>>

Restart ==
    /\ pc = "down"
    /\ pc' = "poll"
    /\ start' = StartFromBlock
    /\ from' = 0 /\ to' = 0 /\ base' = 0
    /\ pending' = {}
    /\ UNCHANGED <<chainVars, view, cursor, jobs, crashes, early>>

----------------------------------------------------------------------------
Environment ==
    \/ \E c \in Contents : Mine(c)
    \/ \E b \in Blocks, c \in Contents : Reorg(b, c)
    \/ \E e \in Endpoints : Sync(e)

Poller ==
    \/ \E down \in SUBSET Endpoints : PollHead(down) \/ Resolve(down) \/ GetLogs(down)
    \/ \E ev \in Event : SaveJob(ev)
    \/ SetCursor
    \/ Timer
    \/ Restart

Next == Environment \/ Poller \/ Crash

Spec == Init /\ [][Next]_vars

(* Node runs the poll's continuations and timers and the supervisor        *)
(* restarts the process; endpoints catch up; the chain is mined.           *)
Fairness ==
    /\ WF_vars(Poller)
    /\ \A e \in Endpoints : WF_vars(Sync(e))
    /\ WF_vars(\E c \in Contents : Mine(c))

FairSpec == Spec /\ Fairness

----------------------------------------------------------------------------
(* The state holds values of the kinds the code stores: an event is a      *)
(* (block, content) pair, the cursor may be a negative number, and a range *)
(* is counted from the latest block only when its bounds are negative.     *)
TypeOK ==
    /\ head \in 0..MaxBlock
    /\ chain \in [Blocks -> Contents \union {Unmined}]
    /\ view \in [Endpoints -> Snapshot]
    /\ cursor \in Int
    /\ jobs \subseteq Event
    /\ pc \in {"poll", "resolve", "fetch", "save", "timer", "down"}
    /\ start \in {0, StartFromBlock}
    /\ from \in Int /\ to \in Int /\ base \in Int
    /\ pc = "resolve" => to < 0
    /\ pc \in {"fetch", "save"} => to + base >= 0 /\ (to >= 0 => base = 0)
    /\ pending \subseteq Event
    /\ crashes \in Nat
    /\ early \subseteq jobs

(* No event is lost: once the cursor has passed a block that should be     *)
(* indexed, the registered event that the canonical chain holds there has  *)
(* a job, whatever endpoint answered, however often the process exited     *)
(* half way through the jobs of a chunk and wherever the cursor moved back.*)
NoEventLost ==
    \A ev \in Event :
        /\ StartFromBlock <= ev[1] /\ ev[1] <= cursor
        /\ ev[2] = chain[ev[1]] /\ ev[2] \in Registered
        => ev \in jobs

(* No job is made of an orphaned log: the event of a job that any poll by  *)
(* block number made is on the canonical chain now and for ever,           *)
(* reorganisations, lagging endpoints and exits included.  Jobs that only  *)
(* the polls of a chain younger than the confirmations made are excepted.  *)
NoOrphanJob == \A ev \in jobs \ early : chain[ev[1]] = ev[2]

(* A poll by block number never asks for blocks beyond the confirmed part  *)
(* of the chain, a poll of a negative range asks for a single block, and   *)
(* neither leaves a hole between what was indexed and what it indexes.     *)
RangeIsSound ==
    pc \in {"resolve", "fetch", "save"} =>
        /\ to <= head - Confirmations
        /\ from <= to
        /\ to < 0 => from = to
        /\ from <= Larger(StartFromBlock, cursor + 1)

(* The inductive invariant behind the safety properties.  A view agrees    *)
(* with the chain up to the blocks a reorganisation could have touched     *)
(* since; what a poll by number made a job of, or is about to, is          *)
(* confirmed; and while the jobs of such a range are being created, every  *)
(* event of it is in one of the sets.                                      *)
ViewsAgree ==
    \A e \in Endpoints :
        /\ head - MaxLag <= view[e].head /\ view[e].head <= head
        /\ \A b \in Blocks :
              b <= view[e].head - MaxReorg => view[e].chain[b] = chain[b]

Confirmed(ev) == /\ chain[ev[1]] = ev[2]
                 /\ ev[1] <= head - Confirmations
                 /\ ev[2] \in Registered

AllConfirmed ==
    /\ \A ev \in jobs \ early : Confirmed(ev)
    /\ pc = "save" /\ to >= 0 => \A ev \in pending : Confirmed(ev)
    /\ cursor = 0 \/ cursor <= head - Confirmations

RangeCovered ==
    pc = "save" /\ to >= 0 =>
        /\ \A ev \in pending : from <= ev[1] /\ ev[1] <= to
        /\ \A ev \in Event :
              /\ from <= ev[1] /\ ev[1] <= to
              /\ ev[2] = chain[ev[1]] /\ ev[2] \in Registered
              => ev \in jobs \union pending

IInv == TypeOK /\ ViewsAgree /\ AllConfirmed /\ RangeIsSound /\ RangeCovered
        /\ NoEventLost

(* Re-reading a range after the cursor moved back (a lagging endpoint, or  *)
(* a restart) may recreate only jobs that exist: a poll whose range ends   *)
(* at or below the cursor adds no job.                                     *)
RereadAddsNothing ==
    [][pc = "save" /\ to <= cursor /\ StartFromBlock <= from => jobs' = jobs]_vars

(* Every registered event that ends up on the chain under enough           *)
(* confirmations eventually has a job.                                     *)
EveryEventIngested ==
    \A b \in Blocks :
        StartFromBlock <= b /\ b <= MaxBlock - Confirmations =>
            <>[](chain[b] \in Registered => <<b, chain[b]>> \in jobs)

(* Poll implements Ingestion: endpoints, cursor, chunks and restarts are   *)
(* details that the handlers cannot tell from the chain and the jobs.  An  *)
(* early job is none of Ingestion's until a poll by number makes it again. *)
Abstract == INSTANCE Ingestion WITH head <- head, chain <- chain, jobs <- jobs \ early
AbstractSpec == Abstract!Spec
============================================================================
