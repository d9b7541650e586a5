------------------------------- MODULE Writer -------------------------------
(***************************************************************************)
(* The storage writer: RunWriter and persist in storage/writer.go.         *)
(*                                                                         *)
(* One goroutine reads two buffered channels (timeline events and instance *)
(* records), gathers what it reads into one batch per channel and hands    *)
(* each batch to the storage, retrying a few times.  When its context is   *)
(* cancelled it drains the channels and flushes once more under a context  *)
(* with a deadline of its own.                                             *)
(*                                                                         *)
(* The payload of an item is irrelevant here: the i-th item ever put on a  *)
(* channel is the number i.  A Go channel is first in, first out, so a     *)
(* channel of which r items were taken buffers the items r+1, r+2, ... up  *)
(* to the number sent; and a batch is appended to and replaced by an empty *)
(* one, never reordered, so a batch of n items holds the last n taken.     *)
(***************************************************************************)
EXTENDS Integers, FiniteSets

CONSTANTS
    BatchSize,    \* cfg.BatchSize
    Capacity,     \* the size of both channels
    MaxAttempts,  \* tries before a batch is dropped: the 3 of persist
    Chunk,        \* rows per transaction of the storage behind the Writer
    MaxSent       \* bound: items ever sent on each channel

ASSUME BatchSizeAssumption == BatchSize \in Nat \ {0}
ASSUME CapacityAssumption == Capacity \in Nat
ASSUME MaxAttemptsAssumption == MaxAttempts \in Nat \ {0}
ASSUME ChunkAssumption == Chunk \in Nat \ {0}
ASSUME MaxSentAssumption == MaxSent \in Nat

\* The two channels, in the order in which flush persists their batches.
Kinds == {"events", "instances"}

Item == 1..MaxSent

VARIABLES
    sent,        \* sent[k]: items put on channel k so far
    recv,        \* recv[k]: items the writer has taken from channel k
    batch,       \* batch[k]: the length of evBatch or instBatch
    pc,          \* where the writer is
    cur,         \* the batch being persisted
    attempt,     \* the attempt number in persist
    ctxDone,     \* the context given to RunWriter is cancelled
    last,        \* the flush in progress is the last one, under its own context
    lastDone,    \* the deadline of that context has passed
    written,     \* written[k][i]: rows the storage committed for item i
    dropped,     \* dropped[k]: the dropped-rows counter
    faulted,     \* a write failed although its context was alive (ghost)
    lastFailed,  \* a write of the last flush failed (ghost)
    lastFrom,    \* the items settled before the drain started (ghost)
    lastUpto     \* the items sent before the drain started (ghost)

vars == <<sent, recv, batch, pc, cur, attempt, ctxDone, last, lastDone,
          written, dropped, faulted, lastFailed, lastFrom, lastUpto>>

ctxVars == <<ctxDone, lastDone>>
storeVars == <<written, dropped, faulted, lastFailed>>
lastVars == <<lastFrom, lastUpto>>

TypeOK ==
    /\ sent \in [Kinds -> Nat]
    /\ recv \in [Kinds -> Nat]
    /\ batch \in [Kinds -> Nat]
    /\ pc \in {"select", "drain", "persist", "backoff", "done"}
    /\ cur \in Kinds
    /\ attempt \in 1..MaxAttempts
    /\ ctxDone \in BOOLEAN
    /\ last \in BOOLEAN
    /\ lastDone \in BOOLEAN
    /\ written \in [Kinds -> [Item -> Nat]]
    /\ dropped \in [Kinds -> Nat]
    /\ faulted \in BOOLEAN
    /\ lastFailed \in BOOLEAN
    /\ lastFrom \in [Kinds -> Nat]
    /\ lastUpto \in [Kinds -> Nat]

\* The items in the batch of channel k.
Held(k) == (recv[k] - batch[k] + 1)..recv[k]

Init ==
    /\ sent = [k \in Kinds |-> 0]
    /\ recv = [k \in Kinds |-> 0]
    /\ batch = [k \in Kinds |-> 0]
    /\ pc = "select"
    /\ cur = "events"
    /\ attempt = 1
    /\ ctxDone = FALSE
    /\ last = FALSE
    /\ lastDone = FALSE
    /\ written = [k \in Kinds |-> [i \in Item |-> 0]]
    /\ dropped = [k \in Kinds |-> 0]
    /\ faulted = FALSE
    /\ lastFailed = FALSE
    /\ lastFrom = [k \in Kinds |-> 0]
    /\ lastUpto = [k \in Kinds |-> 0]

-----------------------------------------------------------------------------
(* The environment: producers, cancellation and the shutdown deadline.     *)

\* A producer puts its next item on channel k, if there is room.
Send(k) ==
    /\ sent[k] < MaxSent
    /\ sent[k] - recv[k] < Capacity
    /\ sent' = [sent EXCEPT ![k] = @ + 1]
    /\ UNCHANGED <<recv, batch, pc, cur, attempt, ctxVars, last, storeVars,
                   lastVars>>

\* The context of RunWriter is cancelled.
Cancel ==
    /\ ~ctxDone
    /\ ctxDone' = TRUE
    /\ UNCHANGED <<sent, recv, batch, pc, cur, attempt, last, lastDone,
                   storeVars, lastVars>>

\* shutdownFlushTimeout passes during the last flush.
Deadline ==
    /\ last
    /\ pc \in {"persist", "backoff"}
    /\ ~lastDone
    /\ lastDone' = TRUE
    /\ UNCHANGED <<sent, recv, batch, pc, cur, attempt, ctxDone, last,
                   storeVars, lastVars>>

-----------------------------------------------------------------------------
(* flush: the events, then the instances, each only if there are any.      *)

\* The batch a flush persists next: persist leaves no batch behind, so the
\* events are tried first and never again in the same flush.
FlushTarget(b) == IF b["events"] > 0 THEN "events" ELSE "instances"

\* Mutant: the flush of a shutdown goes back to the select.
FlushNeverLast(b, isLast) ==
    IF \E k \in Kinds : b[k] > 0
    THEN /\ pc' = "persist"
         /\ cur' = FlushTarget(b)
         /\ attempt' = 1
    ELSE /\ pc' = "select"
         /\ UNCHANGED <<cur, attempt>>

\* flush(ctx) goes on with the batches b, and returns when there are none:
\* to the select, or out of RunWriter when this was the last flush.
Flush(b, isLast) ==
    IF \E k \in Kinds : b[k] > 0
    THEN /\ pc' = "persist"
         /\ cur' = FlushTarget(b)
         /\ attempt' = 1
    ELSE /\ pc' = IF isLast THEN "done" ELSE "select"
         /\ UNCHANGED <<cur, attempt>>

\* The select takes an item from channel k; a full batch is flushed.
Receive(k) ==
    /\ pc = "select"
    /\ recv[k] < sent[k]
    /\ recv' = [recv EXCEPT ![k] = @ + 1]
    /\ batch' = [batch EXCEPT ![k] = @ + 1]
    /\ IF batch'[k] >= BatchSize
       THEN Flush(batch', FALSE)
       ELSE UNCHANGED <<pc, cur, attempt>>
    /\ UNCHANGED <<sent, ctxVars, last, storeVars, lastVars>>

\* Mutant: the ticker looks at the events only.
TickEventsOnly ==
    /\ pc = "select"
    /\ batch["events"] > 0
    /\ Flush(batch, FALSE)
    /\ UNCHANGED <<sent, recv, batch, ctxVars, last, storeVars, lastVars>>

\* The ticker fires: whatever has been gathered is flushed.
Tick ==
    /\ pc = "select"
    /\ \E k \in Kinds : batch[k] > 0
    /\ Flush(batch, FALSE)
    /\ UNCHANGED <<sent, recv, batch, ctxVars, last, storeVars, lastVars>>

\* The select sees the cancellation, which it may do late: a Go select with
\* several ready cases picks any of them.
Stop ==
    /\ pc = "select"
    /\ ctxDone
    /\ pc' = "drain"
    /\ last' = TRUE
    /\ lastFrom' = [k \in Kinds |-> recv[k] - batch[k]]
    /\ lastUpto' = sent
    /\ UNCHANGED <<sent, recv, batch, cur, attempt, ctxVars, storeVars>>

\* drain takes one more queued item; the batch may grow past BatchSize.
Drain(k) ==
    /\ pc = "drain"
    /\ recv[k] < sent[k]
    /\ recv' = [recv EXCEPT ![k] = @ + 1]
    /\ batch' = [batch EXCEPT ![k] = @ + 1]
    /\ UNCHANGED <<sent, pc, cur, attempt, ctxVars, last, storeVars, lastVars>>

\* Mutant: drain returns as soon as the events channel is empty.
DrainedEarly ==
    /\ pc = "drain"
    /\ recv["events"] = sent["events"]
    /\ Flush(batch, TRUE)
    /\ UNCHANGED <<sent, recv, batch, ctxVars, last, storeVars, lastVars>>

\* drain finds both channels empty: the last flush starts.
Drained ==
    /\ pc = "drain"
    /\ recv = sent
    /\ Flush(batch, TRUE)
    /\ UNCHANGED <<sent, recv, batch, ctxVars, last, storeVars, lastVars>>

-----------------------------------------------------------------------------
(* persist                                                                 *)

\* ctx.Err() of the context the flush in progress was given.
Cancelled == IF last THEN lastDone ELSE ctxDone

\* persist returns and flush goes on: the batch is replaced by an empty one.
Persisted ==
    /\ batch' = [batch EXCEPT ![cur] = 0]
    /\ Flush(batch', last)

\* Mutant: the chunks are written from the end of the batch.
CommitFromEnd(n) ==
    written' = [written EXCEPT ![cur] =
        [i \in Item |->
            IF i \in Held(cur) /\ i > recv[cur] - n
            THEN @[i] + 1 ELSE @[i]]]

\* The first n items of the batch get one more committed row each.
Commit(n) ==
    written' = [written EXCEPT ![cur] =
        [i \in Item |->
            IF i \in Held(cur) /\ i <= recv[cur] - batch[cur] + n
            THEN @[i] + 1 ELSE @[i]]]

\* The storage commits the batch chunk by chunk; a call that fails has
\* committed some whole chunks, all of them if only the answer was lost.
Committable ==
    {batch[cur]} \cup {n \in 0..batch[cur] : n % Chunk = 0}

\* fn succeeds.
WriteOK ==
    /\ pc = "persist"
    /\ Commit(batch[cur])
    /\ Persisted
    /\ UNCHANGED <<sent, recv, ctxVars, last, dropped, faulted,
                   lastFailed, lastVars>>

\* What a failed call leaves behind in the storage, and in the ghosts.
Failed ==
    /\ pc = "persist"
    /\ \E n \in Committable : Commit(n)
    /\ faulted' = (faulted \/ ~Cancelled)
    /\ lastFailed' = (lastFailed \/ last)

\* Mutant: the dropped batch is not counted.
WriteDropUncounted ==
    /\ Failed
    /\ attempt >= MaxAttempts \/ Cancelled
    /\ Persisted
    /\ UNCHANGED <<sent, recv, ctxVars, last, dropped, lastVars>>

\* fn fails for the last time, or its context is over: the batch is dropped
\* and counted.
WriteDrop ==
    /\ Failed
    /\ attempt >= MaxAttempts \/ Cancelled
    /\ dropped' = [dropped EXCEPT ![cur] = @ + batch[cur]]
    /\ Persisted
    /\ UNCHANGED <<sent, recv, ctxVars, last, lastVars>>

\* fn fails and will be tried again.
WriteRetry ==
    /\ Failed
    /\ attempt < MaxAttempts
    /\ ~Cancelled
    /\ pc' = "backoff"
    /\ UNCHANGED <<sent, recv, batch, cur, attempt, ctxVars, last,
                   dropped, lastVars>>

\* Mutant: the attempt counter is not advanced.
RetrySameAttempt ==
    /\ pc = "backoff"
    /\ pc' = "persist"
    /\ UNCHANGED <<sent, recv, batch, cur, attempt, ctxVars, last,
                   storeVars, lastVars>>

\* The backoff is over, whether or not the context is too.
Retry ==
    /\ pc = "backoff"
    /\ pc' = "persist"
    /\ attempt' = attempt + 1
    /\ UNCHANGED <<sent, recv, batch, cur, ctxVars, last, storeVars,
                   lastVars>>

\* The context ends during the backoff: persist returns.
Abandon ==
    /\ pc = "backoff"
    /\ Cancelled
    /\ Persisted
    /\ UNCHANGED <<sent, recv, ctxVars, last, storeVars, lastVars>>

-----------------------------------------------------------------------------
Terminated ==
    /\ pc = "done"
    /\ UNCHANGED vars

WriterStep ==
    \/ \E k \in Kinds : Receive(k) \/ Drain(k)
    \/ Tick \/ Stop \/ Drained
    \/ WriteOK \/ WriteDrop \/ WriteRetry \/ Retry \/ Abandon

Next ==
    \/ \E k \in Kinds : Send(k)
    \/ Cancel \/ Deadline
    \/ WriterStep
    \/ Terminated

Spec == Init /\ [][Next]_vars

\* Timers fire and every call of the storage returns (callCtx bounds it), so
\* the writer always takes its next step; and a select whose ticker keeps
\* being ready takes it some day, as does one whose context is over, because
\* Go picks among the ready cases at random.
Fairness ==
    /\ WF_vars(WriterStep)
    /\ WF_vars(Tick)
    /\ WF_vars(Stop)

FairSpec == Spec /\ Fairness

-----------------------------------------------------------------------------
(* Properties                                                              *)

\* Items received that are neither stored nor waiting in a batch.
Unaccounted(k) ==
    {i \in 1..recv[k] : written[k][i] = 0 /\ i \notin Held(k)}

\* "A batch that still fails after a few retries is dropped and counted"
\* (storage/writer.go): as long as the context of RunWriter is alive, and even
\* beyond it if no write failed while its context was alive, the items that
\* were received and are neither stored nor waiting are no more than the
\* dropped-rows counter admits.
Accounted ==
    (~ctxDone \/ ~faulted) =>
        \A k \in Kinds : Cardinality(Unaccounted(k)) <= dropped[k]

\* Retries and partly committed batches never let a later item overtake an
\* earlier one of the same channel: an item still held in the batch has at
\* least as many rows in the storage as every item received after it.
WrittenInOrder ==
    \A k \in Kinds : \A i, j \in 1..recv[k] :
        i < j /\ i \in Held(k) => written[k][i] >= written[k][j]

\* persist may store an item more than once when a failed call had committed
\* something, but never more often than it has attempts, and only once if no
\* write failed while its context was alive.
WritesBounded ==
    \A k \in Kinds : \A i \in Item :
        written[k][i] <= IF faulted THEN MaxAttempts ELSE 1

\* "When ctx is cancelled, whatever is queued gets one last flush": every item
\* that was in a batch or in a channel when the writer turned to the drain,
\* or that the drain still took, is stored once when RunWriter returns,
\* unless a write of the last flush failed.
LastFlushComplete ==
    pc = "done" /\ ~lastFailed =>
        \A k \in Kinds : \A i \in Item :
            lastFrom[k] < i /\ (i <= lastUpto[k] \/ i <= recv[k])
                => written[k][i] = 1

\* RunWriter returns once its context is cancelled, however the storage
\* behaves: the retries and the last flush are bounded.
StopsAfterCancel == ctxDone ~> pc = "done"

\* What has been gathered does not wait for a full batch: the ticker flushes
\* each of the two batches.
EveryBatchFlushed ==
    \A k \in Kinds : batch[k] > 0 ~> batch[k] = 0

(* What a comment of RunWriter says without the conditions above.          *)

\* "so a shutdown does not lose the events already received": if the storage
\* never failed by itself and the last flush met its deadline, everything
\* received is stored when RunWriter returns.
ShutdownKeepsReceived ==
    pc = "done" /\ ~faulted /\ ~lastDone =>
        \A k \in Kinds : \A i \in 1..recv[k] : written[k][i] > 0
=============================================================================
