--------------------------- MODULE MemoryStorage ----------------------------
(***************************************************************************)
(* The memory storage (storage/memory/storage.go): a ring of events and a  *)
(* map of instance records behind one mutex.                               *)
(*                                                                         *)
(* A write holds the mutex for the whole batch and works through it one    *)
(* element at a time; a read takes the mutex shared, so it happens only    *)
(* while no write holds it.  The reads themselves are in module Reads.     *)
(***************************************************************************)
EXTENDS Integers, Sequences

CONSTANTS
    MaxSize,     \* cfg.MaxSize, the length of the ring
    Event,       \* the events that may be stored
    Instance,    \* the instance records that may be stored: first, last, tags, val
    MaxBatch,    \* bound: elements of one write
    MaxStored,   \* bound: events ever stored
    MaxUpserts   \* bound: calls of UpsertInstances

ASSUME MaxSizeAssumption == MaxSize \in Nat \ {0}

\* An empty slot of the ring; an instance that is not in the map.
NoEvent == [id |-> 0]
NoInstance == [first |-> 0]

Slots == 0..(MaxSize - 1)

\* instanceKey.
KeyFields == {"dc", "node", "id"}
Key(in) == [f \in KeyFields |-> in.val[f]]
Keys == {Key(in) : in \in Instance}

VARIABLES
    mu,         \* the call that holds the mutex for writing, or "free"
    todo,       \* what that call has still to store
    events,     \* the ring
    next,       \* the slot of the next event
    size,       \* slots in use
    nextID,     \* the number of the last event stored
    instances,  \* the instance map
    upserts     \* calls of UpsertInstances so far (bound)

memVars == <<mu, todo, events, next, size, nextID, instances, upserts>>

MemInit ==
    /\ mu = "free"
    /\ todo = <<>>
    /\ events = [i \in Slots |-> NoEvent]
    /\ next = 0
    /\ size = 0
    /\ nextID = 0
    /\ instances = [k \in Keys |-> NoInstance]
    /\ upserts = 0

\* The j-th newest event of the ring.
At(j) == events[(next - 1 - j + MaxSize) % MaxSize]

\* The events a reader can see: the loop of matching.
Kept == {At(j) : j \in 0..(size - 1)}

-----------------------------------------------------------------------------
StoreEvents(batch) ==
    /\ mu = "free"
    /\ nextID + Len(batch) <= MaxStored
    /\ mu' = "events"
    /\ todo' = batch
    /\ UNCHANGED <<events, next, size, nextID, instances, upserts>>

\* Mutant: the slot after the last one is never used again.
StoreNextNoWrap ==
    /\ mu = "events" /\ todo # <<>>
    /\ nextID' = nextID + 1
    /\ events' = [events EXCEPT ![next] = [id |-> nextID + 1, ev |-> Head(todo)]]
    /\ next' = IF next + 1 < MaxSize THEN next + 1 ELSE next
    /\ size' = IF size < MaxSize THEN size + 1 ELSE size
    /\ todo' = Tail(todo)
    /\ UNCHANGED <<mu, instances, upserts>>

StoreNext ==
    /\ mu = "events" /\ todo # <<>>
    /\ nextID' = nextID + 1
    /\ events' = [events EXCEPT ![next] = [id |-> nextID + 1, ev |-> Head(todo)]]
    /\ next' = (next + 1) % MaxSize
    /\ size' = IF size < MaxSize THEN size + 1 ELSE size
    /\ todo' = Tail(todo)
    /\ UNCHANGED <<mu, instances, upserts>>

UpsertInstances(batch) ==
    /\ mu = "free"
    /\ upserts < MaxUpserts
    /\ upserts' = upserts + 1
    /\ mu' = "instances"
    /\ todo' = batch
    /\ UNCHANGED <<events, next, size, nextID, instances>>

\* What the map that holds old has after the record in is put into it.
Merged(old, in) == [in EXCEPT !.first = IF old = NoInstance THEN @ ELSE old.first]

UpsertNext ==
    /\ mu = "instances" /\ todo # <<>>
    /\ LET in == Head(todo)
       IN  instances' = [instances EXCEPT ![Key(in)] = Merged(@, in)]
    /\ todo' = Tail(todo)
    /\ UNCHANGED <<mu, events, next, size, nextID, upserts>>

\* The deferred Unlock of both calls.
Unlock ==
    /\ mu # "free" /\ todo = <<>>
    /\ mu' = "free"
    /\ UNCHANGED <<todo, events, next, size, nextID, instances, upserts>>

Batches(S) == UNION {[1..n -> S] : n \in 1..MaxBatch}

MemNext ==
    \/ \E b \in Batches(Event) : StoreEvents(b)
    \/ StoreNext
    \/ \E b \in Batches(Instance) : UpsertInstances(b)
    \/ UpsertNext
    \/ Unlock

MemSpec == MemInit /\ [][MemNext]_memVars

\* The ring keeps exactly the newest events, also while it wraps: it implements
\* the log "of the most recent events".
Log == INSTANCE EventLog WITH count <- nextID, kept <- Kept
RingIsLog == Log!Spec
=============================================================================
