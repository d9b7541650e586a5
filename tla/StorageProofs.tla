---------------------------- MODULE StorageProofs ----------------------------
(***************************************************************************)
(* Proofs about the two storages, for every size of the ring, every limit  *)
(* and any sequence of batches and pages.                                  *)
(***************************************************************************)
EXTENDS Storage, FiniteSetTheorems, TLAPS

-----------------------------------------------------------------------------
(* The ring implements the log of the newest events.                       *)

\* Where the remainder of the code falls, written without it.
LEMMA Remainder ==
    ASSUME NEW M \in Nat \ {0}, NEW x \in 0..(2 * M - 1)
    PROVE  x % M = IF x < M THEN x ELSE x - M
  <1>1. CASE x < M
    BY <1>1
  <1>2. CASE x >= M
    <2>1. x = M + (x - M) /\ x - M \in 0..(M - 1)
      BY <1>2
    <2>2. \A y \in 0..(M - 1) : (M + y) % M = y
      OBVIOUS
    <2>3. QED
      BY <1>2, <2>1, <2>2
  <1>3. QED
    BY <1>1, <1>2

\* The slot of the j-th newest event.
LEMMA SlotOf ==
    ASSUME NEW n \in Slots, NEW j \in Slots
    PROVE  (n - 1 - j + MaxSize) % MaxSize = IF j < n THEN n - 1 - j ELSE n - 1 - j + MaxSize
  <1> DEFINE x == n - 1 - j + MaxSize
  <1>1. x \in 0..(2 * MaxSize - 1)
    BY MaxSizeAssumption DEF Slots
  <1>2. x < MaxSize <=> j >= n
    BY MaxSizeAssumption DEF Slots
  <1> HIDE DEF x
  <1>3. x % MaxSize = IF x < MaxSize THEN x ELSE x - MaxSize
    BY <1>1, Remainder, MaxSizeAssumption
  <1>4. x % MaxSize = IF j < n THEN x - MaxSize ELSE x
    BY <1>2, <1>3 DEF Slots
  <1> USE DEF x
  <1>5. x - MaxSize = n - 1 - j
    BY MaxSizeAssumption DEF Slots
  <1>6. QED
    BY <1>4, <1>5

LEMMA NextSlot ==
    ASSUME NEW n \in Slots
    PROVE  (n + 1) % MaxSize = IF n + 1 < MaxSize THEN n + 1 ELSE 0
  <1>1. n + 1 \in 0..(2 * MaxSize - 1)
    BY MaxSizeAssumption DEF Slots
  <1>2. QED
    BY <1>1, Remainder, MaxSizeAssumption DEF Slots

-----------------------------------------------------------------------------
(* The invariant: the j-th newest event of the ring has the j-th number    *)
(* below the last one given, and the ring is as full as it can be.         *)

RingInv ==
    /\ next \in Slots
    /\ size \in 0..MaxSize
    /\ nextID \in Nat
    /\ size = IF nextID < MaxSize THEN nextID ELSE MaxSize
    /\ DOMAIN events = Slots
    /\ mu = "events" => todo \in Seq(Event)
    /\ \A j \in 0..(size - 1) : At(j).id = nextID - j /\ At(j).ev \in Event

\* A write puts the new event first and moves the others down by one; the
\* oldest of a full ring is overwritten.
LEMMA Shifted ==
    ASSUME RingInv, StoreNext
    PROVE  /\ next' \in Slots
           /\ At(0)' = [id |-> nextID + 1, ev |-> Head(todo)]
           /\ \A j \in 1..(MaxSize - 1) : At(j)' = At(j - 1)
  <1> USE MaxSizeAssumption
  <1>1. next \in Slots /\ DOMAIN events = Slots
    BY DEF RingInv
  <1>2. next' = IF next + 1 < MaxSize THEN next + 1 ELSE 0
    BY <1>1, NextSlot DEF StoreNext
  <1>3. next' \in Slots
    BY <1>1, <1>2 DEF Slots
  <1>4. \A j \in Slots : At(j)' = events'[IF j < next' THEN next' - 1 - j
                                          ELSE next' - 1 - j + MaxSize]
    BY <1>3, SlotOf DEF At
  <1>5. \A j \in Slots : At(j) = events[IF j < next THEN next - 1 - j
                                        ELSE next - 1 - j + MaxSize]
    BY <1>1, SlotOf DEF At
  <1>6. events' = [events EXCEPT ![next] = [id |-> nextID + 1, ev |-> Head(todo)]]
    BY DEF StoreNext
  <1>7. At(0)' = [id |-> nextID + 1, ev |-> Head(todo)]
    <2>1. 0 \in Slots
      BY DEF Slots
    <2>2. (IF 0 < next' THEN next' - 1 - 0 ELSE next' - 1 - 0 + MaxSize) = next
      BY <1>1, <1>2 DEF Slots
    <2>3. At(0)' = events'[next]
      BY <1>4, <2>1, <2>2
    <2>4. QED
      BY <1>1, <1>6, <2>3
  <1>8. ASSUME NEW j \in 1..(MaxSize - 1)
        PROVE  At(j)' = At(j - 1)
    <2>1. j \in Slots /\ j - 1 \in Slots
      BY DEF Slots
    <2> DEFINE i == IF j < next' THEN next' - 1 - j ELSE next' - 1 - j + MaxSize
               k == IF j - 1 < next THEN next - 1 - (j - 1) ELSE next - 1 - (j - 1) + MaxSize
    <2>2. i = k /\ i \in Slots /\ i # next
      BY <1>1, <1>2 DEF Slots
    <2>3. At(j)' = events'[i] /\ At(j - 1) = events[k]
      BY <1>4, <1>5, <2>1
    <2>4. events'[i] = events[i]
      BY <1>1, <1>6, <2>2
    <2>5. QED
      BY <2>2, <2>3, <2>4
  <1>9. QED
    BY <1>3, <1>7, <1>8

LEMMA RingInvInit == MemInit => RingInv
  BY MaxSizeAssumption DEF MemInit, RingInv, Slots

LEMMA RingInvStep == RingInv /\ [MemNext]_memVars => RingInv'
  <1> SUFFICES ASSUME RingInv, [MemNext]_memVars
               PROVE  RingInv'
    OBVIOUS
  <1> USE MaxSizeAssumption
  <1>1. ASSUME NEW b \in Batches(Event), StoreEvents(b)
        PROVE  RingInv'
    <2>1. b \in Seq(Event)
      BY DEF Batches
    <2>2. QED
      BY <1>1, <2>1 DEF RingInv, StoreEvents, At
  <1>2. CASE StoreNext
    <2>1. size' = IF size < MaxSize THEN size + 1 ELSE size
      BY <1>2 DEF StoreNext
    <2>2. /\ size' \in 0..MaxSize
          /\ nextID' \in Nat
          /\ size' = IF nextID' < MaxSize THEN nextID' ELSE MaxSize
          /\ DOMAIN events' = Slots
      BY <1>2, <2>1 DEF RingInv, StoreNext
    <2>3. mu' = "events" => todo' \in Seq(Event)
      BY <1>2 DEF RingInv, StoreNext
    <2>4. ASSUME NEW j \in 0..(size' - 1)
          PROVE  At(j)'.id = nextID' - j /\ At(j)'.ev \in Event
      <3>0. Head(todo) \in Event
        BY <1>2 DEF StoreNext, RingInv
      <3>1. CASE j = 0
        BY <1>2, <3>0, <3>1, Shifted DEF StoreNext, RingInv
      <3>2. CASE j # 0
        <4>1. j \in 1..(MaxSize - 1) /\ j - 1 \in 0..(size - 1)
          BY <2>1, <2>2, <2>4, <3>2 DEF RingInv
        <4>2. /\ At(j)' = At(j - 1) /\ At(j - 1).id = nextID - (j - 1)
              /\ At(j - 1).ev \in Event
          BY <1>2, <4>1, Shifted DEF RingInv
        <4>3. QED
          BY <1>2, <4>1, <4>2 DEF StoreNext, RingInv
      <3>3. QED
        BY <3>1, <3>2
    <2>5. QED
      BY <1>2, <2>2, <2>3, <2>4, Shifted DEF RingInv
  <1>3. ASSUME NEW b \in Batches(Instance), UpsertInstances(b)
        PROVE  RingInv'
    BY <1>3 DEF RingInv, UpsertInstances, At
  <1>4. CASE UpsertNext
    BY <1>4 DEF RingInv, UpsertNext, At
  <1>5. CASE Unlock
    BY <1>5 DEF RingInv, Unlock, At
  <1>6. CASE UNCHANGED memVars
    BY <1>6 DEF RingInv, memVars, At
  <1>7. QED
    BY <1>1, <1>2, <1>3, <1>4, <1>5, <1>6 DEF MemNext

-----------------------------------------------------------------------------
\* A write of one event is one step of the log.
LEMMA StoreRefines ==
    ASSUME RingInv, StoreNext
    PROVE  Log!Next
  <1> USE MaxSizeAssumption
  <1> DEFINE new == [id |-> nextID + 1, ev |-> Head(todo)]
             old == {r \in Kept : r.id > nextID + 1 - MaxSize}
  <1>1. Head(todo) \in Event
    BY DEF RingInv, StoreNext
  <1>2. size' = IF size < MaxSize THEN size + 1 ELSE size
    BY DEF StoreNext
  <1>3. size \in 0..MaxSize /\ nextID \in Nat
        /\ size = (IF nextID < MaxSize THEN nextID ELSE MaxSize)
    BY DEF RingInv
  <1>4. Kept' = {At(j)' : j \in 0..(size' - 1)}
    BY DEF Kept
  <1>5. ASSUME NEW r \in Kept'
        PROVE  r \in old \cup {new}
    <2>1. PICK j \in 0..(size' - 1) : r = At(j)'
      BY <1>4, <1>5
    <2>2. CASE j = 0
      BY <2>1, <2>2, Shifted
    <2>3. CASE j # 0
      <3>1. j \in 1..(MaxSize - 1) /\ j - 1 \in 0..(size - 1)
        BY <1>2, <1>3, <2>1, <2>3
      <3>2. r = At(j - 1) /\ r.id = nextID - (j - 1)
        BY <2>1, <3>1, Shifted DEF RingInv
      <3>3. r \in Kept
        BY <3>1, <3>2 DEF Kept
      <3>4. nextID - (j - 1) > nextID + 1 - MaxSize
        BY <1>3, <3>1
      <3>5. QED
        BY <3>2, <3>3, <3>4
    <2>4. QED
      BY <2>2, <2>3
  <1>6. ASSUME NEW r \in old
        PROVE  r \in Kept'
    <2>1. PICK j \in 0..(size - 1) : r = At(j)
      BY <1>6 DEF Kept
    <2>2. nextID - j > nextID + 1 - MaxSize
      BY <1>6, <2>1 DEF RingInv
    <2>3. j + 1 \in 1..(MaxSize - 1) /\ j + 1 \in 0..(size' - 1)
      BY <1>2, <1>3, <2>1, <2>2
    <2>4. At(j + 1)' = At((j + 1) - 1)
      BY <2>3, Shifted
    <2>5. (j + 1) - 1 = j
      BY <2>1
    <2>6. QED
      BY <1>4, <2>1, <2>3, <2>4, <2>5
  <1>7. new \in Kept'
    <2>1. 0 \in 0..(size' - 1)
      BY <1>2, <1>3
    <2>2. QED
      BY <1>4, <2>1, Shifted
  <1>8. Kept' = old \cup {new}
    BY <1>5, <1>6, <1>7
  <1>9. nextID' = nextID + 1
    BY DEF StoreNext
  <1>10. Log!Store(Head(todo))
    BY <1>8, <1>9 DEF Log!Store
  <1>11. QED
    BY <1>1, <1>10 DEF Log!Next

\* Every other step leaves the log as it is.
LEMMA OthersStutter ==
    ASSUME UNCHANGED <<events, next, size, nextID>>
    PROVE  UNCHANGED <<nextID, Kept>>
  BY DEF Kept, At

LEMMA StepRefines == RingInv /\ [MemNext]_memVars => [Log!Next]_<<nextID, Kept>>
  <1> SUFFICES ASSUME RingInv, [MemNext]_memVars
               PROVE  [Log!Next]_<<nextID, Kept>>
    OBVIOUS
  <1>1. CASE StoreNext
    BY <1>1, StoreRefines
  <1>2. CASE \E b \in Batches(Event) : StoreEvents(b)
    BY <1>2, OthersStutter DEF StoreEvents
  <1>3. CASE \E b \in Batches(Instance) : UpsertInstances(b)
    BY <1>3, OthersStutter DEF UpsertInstances
  <1>4. CASE UpsertNext
    BY <1>4, OthersStutter DEF UpsertNext
  <1>5. CASE Unlock
    BY <1>5, OthersStutter DEF Unlock
  <1>6. CASE UNCHANGED memVars
    BY <1>6, OthersStutter DEF memVars
  <1>7. QED
    BY <1>1, <1>2, <1>3, <1>4, <1>5, <1>6 DEF MemNext

LEMMA InitRefines == MemInit => Log!Init
  BY MaxSizeAssumption DEF MemInit, Log!Init, Kept

\* The memory storage "keeps the most recent events": whatever batches are
\* stored, what a reader finds in the ring is the last MaxSize events, with
\* their numbers.
THEOREM RingImplementsLog == MemSpec => RingIsLog
  <1>1. MemSpec => []RingInv
    BY RingInvInit, RingInvStep, PTL DEF MemSpec
  <1>2. QED
    BY <1>1, InitRefines, StepRefines, PTL DEF MemSpec, RingIsLog, Log!Spec

\* The newest-first loop of matching meets the numbers in descending order
\* without a hole, and never an empty slot.
THEOREM NewestFirst == MemSpec => [](\A j \in 0..(size - 1) : At(j).id = nextID - j)
  <1>1. RingInv => \A j \in 0..(size - 1) : At(j).id = nextID - j
    BY DEF RingInv
  <1>2. QED
    BY <1>1, RingInvInit, RingInvStep, PTL DEF MemSpec
-----------------------------------------------------------------------------
(* Times as they are stored.                                               *)

LEMMA StoredTimeType ==
    ASSUME NEW b \in Backends, NEW t \in Nat
    PROVE  /\ StoredTime(b, t) \in Nat
           /\ b # "memory" => OfMs(Ms(StoredTime(b, t))) = StoredTime(b, t)
  <1>1. b = "memory" \/ b = "mysql" \/ b = "mariadb"
    BY DEF Backends, Databases
  <1>2. (t + 1) \div 2 \in Nat /\ t \div 2 \in Nat
    OBVIOUS
  <1>3. \A n \in Nat : (n * 2) \div 2 = n
    OBVIOUS
  <1> QED BY <1>1, <1>2, <1>3 DEF StoredTime, OfMs, Ms, Milli

-----------------------------------------------------------------------------
(* Filters.                                                                *)

\* The filters parseQuery makes of a request, one per field and sign.
LEMMA FilterOf ==
    ASSUME NEW raws
    PROVE  /\ \A r \in raws : \E f \in Filters(raws) :
                /\ f.field = r.field /\ f.not = r.not
                /\ f.values = {s.value : s \in {x \in raws : x.field = r.field /\ x.not = r.not}}
           /\ \A f \in Filters(raws) : \E r \in raws :
                /\ f.field = r.field /\ f.not = r.not
                /\ f.values = {s.value : s \in {x \in raws : x.field = r.field /\ x.not = r.not}}
  <1> DEFINE vals(r) == {s.value : s \in {x \in raws : x.field = r.field /\ x.not = r.not}}
             filter(r) == [field |-> r.field, not |-> r.not, values |-> vals(r)]
  <1>1. Filters(raws) = {filter(r) : r \in raws}
    BY DEF Filters
  <1>2. \A r \in raws : /\ filter(r).field = r.field /\ filter(r).not = r.not
                        /\ filter(r).values = vals(r)
    OBVIOUS
  <1> HIDE DEF vals, filter
  <1>3. \A r \in raws : \E f \in Filters(raws) :
           f.field = r.field /\ f.not = r.not /\ f.values = vals(r)
    BY <1>1, <1>2
  <1>4. \A f \in Filters(raws) : \E r \in raws :
           f.field = r.field /\ f.not = r.not /\ f.values = vals(r)
    BY <1>1, <1>2
  <1> QED BY <1>3, <1>4 DEF vals

\* A request selects what the comment of parseQuery says.
LEMMA RequestMeans ==
    ASSUME NEW s, NEW req, \A r \in req.raws : r.not \in BOOLEAN
    PROVE  FilterMeans(s, req)
  <1> DEFINE raws(field, not) == {r \in req.raws : r.field = field /\ r.not = not}
             hits(R) == {r \in R : MatchOne(r.field, s.ev, r.value)}
             q == [ParseQuery(req) EXCEPT !.from = None, !.to = None, !.text = None, !.dc = None]
             any(f) == \E v \in f.values : MatchOne(f.field, s.ev, v)
  <1>1. /\ q.filters = Filters(req.raws) /\ q.from = None /\ q.to = None /\ q.text = None
        /\ q.dc = None
    BY DEF ParseQuery
  <1> HIDE DEF q
  <1>2. Match(s.ev, q) <=> \A f \in Filters(req.raws) : any(f) # f.not
    BY <1>1 DEF Match
  <1>3. \A r \in req.raws : \E f \in Filters(req.raws) :
           /\ f.field = r.field /\ f.not = r.not
           /\ any(f) <=> hits(raws(r.field, r.not)) # {}
    <2> SUFFICES ASSUME NEW r \in req.raws
                 PROVE  \E f \in Filters(req.raws) :
                           /\ f.field = r.field /\ f.not = r.not
                           /\ any(f) <=> hits(raws(r.field, r.not)) # {}
      OBVIOUS
    <2>1. PICK f \in Filters(req.raws) :
             /\ f.field = r.field /\ f.not = r.not
             /\ f.values = {x.value : x \in raws(r.field, r.not)}
      BY FilterOf
    <2>2. any(f) <=> \E x \in raws(r.field, r.not) : MatchOne(r.field, s.ev, x.value)
      BY <2>1
    <2> QED BY <2>1, <2>2
  <1>4. \A f \in Filters(req.raws) : \E r \in req.raws :
           /\ f.field = r.field /\ f.not = r.not
           /\ any(f) <=> hits(raws(r.field, r.not)) # {}
    <2> SUFFICES ASSUME NEW f \in Filters(req.raws)
                 PROVE  \E r \in req.raws :
                           /\ f.field = r.field /\ f.not = r.not
                           /\ any(f) <=> hits(raws(r.field, r.not)) # {}
      OBVIOUS
    <2>1. PICK r \in req.raws :
             /\ f.field = r.field /\ f.not = r.not
             /\ f.values = {x.value : x \in raws(r.field, r.not)}
      BY FilterOf
    <2>2. any(f) <=> \E x \in raws(r.field, r.not) : MatchOne(r.field, s.ev, x.value)
      BY <2>1
    <2> QED BY <2>1, <2>2
  <1>b. \A f : any(f) \in BOOLEAN
    OBVIOUS
  <1> HIDE DEF any
  <1>5. ASSUME Validate(q)
        PROVE  Match(s.ev, q) <=>
                 \A field \in Fields : /\ raws(field, FALSE) # {} => hits(raws(field, FALSE)) # {}
                                       /\ hits(raws(field, TRUE)) = {}
    <2>0. \A r \in req.raws : r.field \in Fields
      BY <1>1, <1>3, <1>5 DEF Validate
    <2>1. ASSUME \A f \in Filters(req.raws) : any(f) # f.not, NEW field \in Fields
          PROVE  /\ raws(field, FALSE) # {} => hits(raws(field, FALSE)) # {}
                 /\ hits(raws(field, TRUE)) = {}
      <3>1. ASSUME NEW r \in raws(field, FALSE) PROVE hits(raws(field, FALSE)) # {}
        <4>1. r \in req.raws /\ r.field = field /\ r.not = FALSE
          BY <3>1
        <4>2. PICK f \in Filters(req.raws) : f.not = FALSE /\ (any(f) <=> hits(raws(field, FALSE)) # {})
          BY <1>3, <4>1
        <4> QED BY <1>b, <2>1, <4>2
      <3>2. ASSUME NEW r \in hits(raws(field, TRUE)) PROVE FALSE
        <4>1. r \in req.raws /\ r.field = field /\ r.not = TRUE
          BY <3>2
        <4>2. PICK f \in Filters(req.raws) : f.not = TRUE /\ (any(f) <=> hits(raws(field, TRUE)) # {})
          BY <1>3, <4>1
        <4> QED BY <1>b, <2>1, <3>2, <4>2
      <3> QED BY <3>1, <3>2
    <2>2. ASSUME \A field \in Fields : /\ raws(field, FALSE) # {} => hits(raws(field, FALSE)) # {}
                                       /\ hits(raws(field, TRUE)) = {},
                 NEW f \in Filters(req.raws)
          PROVE  any(f) # f.not
      <3>1. PICK r \in req.raws : /\ f.field = r.field /\ f.not = r.not
                                  /\ any(f) <=> hits(raws(r.field, r.not)) # {}
        BY <1>4
      <3>2. r.field \in Fields /\ r.not \in BOOLEAN /\ r \in raws(r.field, r.not)
        BY <2>0
      <3>3. any(f) \in BOOLEAN
        BY DEF any
      <3>4. CASE r.not = TRUE
        <4>1. hits(raws(r.field, TRUE)) = {}
          BY <2>2, <3>2
        <4>2. ~any(f)
          BY <3>1, <3>4, <4>1
        <4> QED BY <3>1, <3>4, <4>2
      <3>5. CASE r.not = FALSE
        <4>1. raws(r.field, FALSE) # {}
          BY <3>2, <3>5
        <4>2. hits(raws(r.field, FALSE)) # {}
          BY <2>2, <3>2, <4>1
        <4>3. any(f)
          BY <3>1, <3>5, <4>2
        <4> QED BY <3>1, <3>5, <4>3
      <3> QED BY <3>2, <3>4, <3>5
    <2> QED BY <1>2, <2>1, <2>2
  <1> QED BY <1>5 DEF FilterMeans, q

\* One value of a filter means the same in Go and in SQL, for a name without
\* capitals and no prefix of a check type.
LEMMA SameOne ==
    ASSUME NEW b \in Databases, NEW s, NEW field \in Fields, NEW v,
           field \in EnumFields => ~v.star,
           ~(field = "type" /\ v.star),
           ~(field \in NameFields \cup {"type"}
             /\ (Fold[v.name] # v.name \/ Fold[s.ev.val[field]] # s.ev.val[field]))
    PROVE  MatchOne(field, s.ev, v) <=> SQLOne(field, Row(b, s), v)
  <1>1. Row(b, s).val = s.ev.val /\ Row(b, s).tags = s.ev.tags
    BY DEF Row
  <1>2. CASE field \in EnumFields
    <2>1. field \notin NameFields /\ field # "tag"
      BY <1>2 DEF EnumFields, NameFields
    <2> QED BY <1>1, <1>2, <2>1 DEF MatchOne, SQLOne
  <1>3. CASE field = "tag"
    <2>1. field \notin NameFields /\ field \notin EnumFields
      BY <1>3 DEF EnumFields, NameFields
    <2> QED BY <1>1, <1>3, <2>1 DEF MatchOne, SQLOne
  <1>4. CASE field = "type"
    <2>1. field \notin NameFields /\ field \notin EnumFields /\ field # "tag"
      BY <1>4 DEF EnumFields, NameFields
    <2> QED BY <1>1, <1>4, <2>1 DEF MatchOne, SQLOne, Same
  <1>5. CASE field \in NameFields
    <2>1. field \notin EnumFields /\ field # "tag"
      BY <1>5 DEF EnumFields, NameFields
    <2> QED BY <1>1, <1>5, <2>1 DEF MatchOne, MatchName, SQLOne, Same, Like
  <1> QED BY <1>2, <1>3, <1>4, <1>5 DEF Fields

\* With the exceptions of Differ, the two kinds of backend select the same.
LEMMA FiltersAgree ==
    ASSUME NEW b \in Databases, NEW s, s.ev.time \in Nat, NEW q, NEW now \in Int,
           q.from = None \/ q.from \in Int,
           \A f \in q.filters : f.not \in BOOLEAN
    PROVE  SameFilter(b, s, q, now)
  <1> SUFFICES ASSUME Validate(q), ~Differ(b, s, q, now)
               PROVE  Match(s.ev, q) <=> Where(Row(b, s), q, now)
    BY DEF SameFilter
  <1> DEFINE r == Row(b, s)
             t == StoredTime(b, s.ev.time)
             cased(n) == Fold[n] # n
  <1>1. /\ r.time = t /\ r.val = s.ev.val /\ r.tags = s.ev.tags
        /\ r.words = s.ev.words \ s.ev.cut
    BY DEF Row, Databases
  <1>2. t \in Nat
    BY StoredTimeType DEF Backends
  <1>3. /\ ~(q.dc # None /\ (cased(q.dc) \/ cased(s.ev.val["dc"])))
        /\ \A f \in q.filters : \A v \in f.values :
              /\ ~(f.field = "type" /\ v.star)
              /\ ~(f.field \in NameFields \cup {"type"}
                   /\ (cased(v.name) \/ cased(s.ev.val[f.field])))
        /\ ~(q.from # None /\ ((t >= q.from) # (s.ev.time >= q.from)))
        /\ ~(q.to # None /\ ((t <= q.to) # (s.ev.time <= q.to)))
        /\ ~(q.to = None /\ t > now)
        /\ q.text \notin s.ev.cut
    BY DEF Differ
  <1> HIDE DEF r, t
  <1>4. r.time >= From(q) <=> (q.from = None \/ s.ev.time >= q.from)
    BY <1>1, <1>2, <1>3, MinTimeAssumption DEF From
  <1>5. (r.time <= IF q.to = None THEN now ELSE q.to) <=> (q.to = None \/ s.ev.time <= q.to)
    BY <1>1, <1>2, <1>3
  <1>6. (q.dc = None \/ Same(r.val["dc"], q.dc)) <=> q.dc \in {None, s.ev.val["dc"]}
    BY <1>1, <1>3 DEF Same
  <1>7. q.text \in r.words \cup {None} <=> q.text \in s.ev.words \cup {None}
    BY <1>1, <1>3
  <1>8. ASSUME NEW f \in q.filters
        PROVE  FilterSQL(f, r) <=> (\E v \in f.values : MatchOne(f.field, s.ev, v)) # f.not
    <2>1. f.field \in Fields /\ (f.field \in EnumFields => \A v \in f.values : ~v.star)
      BY <1>8 DEF Validate
    <2>2. \A v \in f.values : MatchOne(f.field, s.ev, v) <=> SQLOne(f.field, r, v)
      BY <1>3, <1>8, <2>1, SameOne DEF r
    <2> QED BY <2>2 DEF FilterSQL
  <1> QED BY <1>4, <1>5, <1>6, <1>7, <1>8 DEF Match, Where, Filtered, r

-----------------------------------------------------------------------------
(* The steps of the storages together.                                     *)

LEMMA MemSteps == [Next]_vars => [MemNext]_memVars
  <1> SUFFICES ASSUME [Next]_vars PROVE [MemNext]_memVars
    OBVIOUS
  <1>1. ASSUME NEW batch \in Batches(Event), Store(batch) PROVE MemNext
    BY <1>1 DEF Store, MemNext
  <1>2. ASSUME NEW batch \in Batches(Instance), Upsert(batch) PROVE MemNext
    BY <1>2 DEF Upsert, MemNext
  <1>3. CASE MemStep
    BY <1>3 DEF MemStep, MemNext
  <1>4. CASE (\E d \in Moves : NextPage(d)) \/ \E b \in Backends, q \in PageQueries : FirstPage(b, q)
    BY <1>4 DEF NextPage, FirstPage
  <1>5. CASE UNCHANGED vars
    BY <1>5 DEF vars
  <1> QED BY <1>1, <1>2, <1>3, <1>4, <1>5 DEF Next

LEMMA RingInvariant == Spec => []RingInv
  <1>1. Init => RingInv
    BY RingInvInit DEF Init
  <1>2. RingInv /\ [Next]_vars => RingInv'
    BY MemSteps, RingInvStep
  <1> QED BY <1>1, <1>2, PTL DEF Spec

-----------------------------------------------------------------------------
(* Instance records.                                                       *)

\* What is left of a set of naturals has a smallest element: induction.
LEMMA Smallest ==
    ASSUME NEW T \in SUBSET Nat, T # {}
    PROVE  \E n \in T : \A m \in T : n <= m
  <1>1. PICK n \in T : \A m \in T : ~(<<m, n>> \in OpToRel(<, Nat))
    BY NatLessThanWellFounded, WFMin
  <1>2. \A m \in T : ~(m < n)
    BY <1>1 DEF OpToRel
  <1> QED BY <1>2

\* rows is what the instances table of b holds after each row of batch, from base on.
Upserting(b, rows, base, batch) ==
    rows = [i \in 0..Len(batch) |-> IF i = 0 THEN base ELSE Put(b, rows[i - 1], batch[i])]

LEMMA UpsertingExists ==
    ASSUME NEW b, NEW base, NEW batch \in Seq(Instance)
    PROVE  \E rows : Upserting(b, rows, base, batch)
  <1> DEFINE upTo(n, rows) ==
               rows = [i \in 0..n |-> IF i = 0 THEN base ELSE Put(b, rows[i - 1], batch[i])]
             T == {n \in Nat : ~\E rows : upTo(n, rows)}
  <1>1. SUFFICES T = {}
    <2>1. Len(batch) \in Nat
      OBVIOUS
    <2> QED BY <1>1, <2>1 DEF Upserting
  <1>2. SUFFICES ASSUME T # {} PROVE FALSE
    OBVIOUS
  <1>t. T \in SUBSET Nat
    OBVIOUS
  <1>3. PICK n \in T : \A m \in T : n <= m
    <2> HIDE DEF T
    <2> QED BY <1>2, <1>t, Smallest
  <1>4. n # 0
    <2>1. upTo(0, [i \in 0..0 |-> base])
      OBVIOUS
    <2> QED BY <2>1
  <1>5. n \in Nat /\ n - 1 \in Nat /\ n - 1 \notin T
    <2> HIDE DEF T
    <2> QED BY <1>t, <1>3, <1>4
  <1>6. PICK f : upTo(n - 1, f)
    BY <1>5
  <1> DEFINE g == [i \in 0..n |-> IF i = n THEN Put(b, f[n - 1], batch[n]) ELSE f[i]]
  <1>7. upTo(n, g)
    <2>1. DOMAIN f = 0..(n - 1)
      BY <1>6
    <2>2. ASSUME NEW i \in 0..n
          PROVE  g[i] = IF i = 0 THEN base ELSE Put(b, g[i - 1], batch[i])
      <3>1. CASE i = n
        <4>1. g[n] = Put(b, f[n - 1], batch[n]) /\ g[n - 1] = f[n - 1]
          BY <1>4, <1>5
        <4> QED BY <1>4, <3>1, <4>1
      <3>2. CASE i # n
        <4>1. i \in 0..(n - 1) /\ g[i] = f[i] /\ (i # 0 => g[i - 1] = f[i - 1])
          BY <1>5, <3>2
        <4>2. f[i] = IF i = 0 THEN base ELSE Put(b, f[i - 1], batch[i])
          BY <1>6, <4>1
        <4> QED BY <4>1, <4>2
      <3> QED BY <3>1, <3>2
    <2> HIDE DEF g
    <2>3. DOMAIN g = 0..n /\ g = [i \in DOMAIN g |-> g[i]]
      BY DEF g
    <2> QED BY <2>2, <2>3
  <1> QED BY <1>3, <1>7

LEMMA UpsertedRows ==
    ASSUME NEW b, NEW batch \in Seq(Instance)
    PROVE  \E rows : /\ Upserting(b, rows, registry[b], batch)
                     /\ Upserted(b, batch) = rows[Len(batch)]
  <1> DEFINE rows == CHOOSE rows : Upserting(b, rows, registry[b], batch)
  <1>1. Upserting(b, rows, registry[b], batch)
    BY UpsertingExists
  <1>2. Upserted(b, batch) = rows[Len(batch)]
    BY DEF Upserted, Upserting
  <1> HIDE DEF rows
  <1> QED BY <1>1, <1>2

LEMMA UpsertingAt ==
    ASSUME NEW b, NEW rows, NEW base, NEW batch \in Seq(Instance), Upserting(b, rows, base, batch)
    PROVE  rows[0] = base /\ \A i \in 1..Len(batch) : rows[i] = Put(b, rows[i - 1], batch[i])
  <1> DEFINE after(i) == IF i = 0 THEN base ELSE Put(b, rows[i - 1], batch[i])
  <1>1. rows = [i \in 0..Len(batch) |-> after(i)]
    BY DEF Upserting
  <1>2. Len(batch) \in Nat
    OBVIOUS
  <1> HIDE DEF after
  <1>3. \A i \in 0..Len(batch) : rows[i] = after(i)
    BY <1>1
  <1> USE DEF after
  <1>4. after(0) = base /\ 0 \in 0..Len(batch)
    BY <1>2
  <1>5. ASSUME NEW i \in 1..Len(batch)
        PROVE  rows[i] = Put(b, rows[i - 1], batch[i])
    <2>1. i \in 0..Len(batch) /\ i # 0
      BY <1>2
    <2> QED BY <1>3, <2>1
  <1> QED BY <1>3, <1>4, <1>5

\* An instance record, as a call gives it or as the map holds it.
Record ==
    [first : Nat, last : Nat, tags : SUBSET Names, val : [InstanceFields -> Names]]

LEMMA RecordIs == \A x \in Record : x # NoInstance
  <1> SUFFICES ASSUME NEW x \in Record, x = NoInstance PROVE FALSE
    OBVIOUS
  <1>1. "last" \in DOMAIN x
    BY DEF Record
  <1>2. DOMAIN NoInstance = {"first"}
    BY DEF NoInstance
  <1> QED BY <1>1, <1>2

LEMMA KeysAre == KeyFields \subseteq InstanceFields /\ "service" \in InstanceFields \ KeyFields
  BY DEF KeyFields, InstanceFields, NameFields

\* The map has every record under its own key.
Filed(map) ==
    /\ DOMAIN map = Keys
    /\ \A k \in Keys : map[k] = NoInstance \/ (map[k] \in Record /\ Key(map[k]) = k)

\* What a merge changes and what it leaves.
LEMMA MergedRecord ==
    ASSUME NEW old, NEW in \in Record, old = NoInstance \/ old \in Record
    PROVE  /\ Merged(old, in) \in Record
           /\ Merged(old, in).first = IF old = NoInstance THEN in.first ELSE old.first
           /\ Merged(old, in).last = in.last /\ Merged(old, in).tags = in.tags
           /\ Merged(old, in).val = in.val
           /\ Key(Merged(old, in)) = Key(in)
  <1>1. /\ Merged(old, in) \in Record
        /\ Merged(old, in).first = IF old = NoInstance THEN in.first ELSE old.first
        /\ Merged(old, in).last = in.last /\ Merged(old, in).tags = in.tags
        /\ Merged(old, in).val = in.val
    BY DEF Merged, Record
  <1> QED BY <1>1 DEF Key

\* The same of a duplicate key in the table.
LEMMA DuplicateRow ==
    ASSUME NEW b \in Databases, NEW old, NEW in \in Record
    PROVE  LET row == Duplicate(old, InstanceRow(b, in))
           IN  /\ row # NoInstance
               /\ row.first = IF old = NoInstance THEN StoredTime(b, in.first) ELSE old.first
               /\ row.last = StoredTime(b, in.last) /\ row.tags = in.tags
               /\ \A f \in InstanceFields \ KeyFields : row.val[f] = in.val[f]
               /\ Key(row) = IF old = NoInstance THEN Key(in) ELSE Key(old)
  <1> DEFINE new == InstanceRow(b, in)
             row == Duplicate(old, new)
             val == [f \in InstanceFields |-> IF f \in KeyFields THEN old.val[f] ELSE new.val[f]]
  <1>1. /\ DOMAIN new = {"first", "last", "tags", "val"}
        /\ new.first = StoredTime(b, in.first) /\ new.last = StoredTime(b, in.last)
        /\ new.tags = in.tags /\ new.val = in.val
    BY DEF InstanceRow, Record
  <1>2. DOMAIN NoInstance = {"first"}
    BY DEF NoInstance
  <1> HIDE DEF new
  <1>3. CASE old = NoInstance
    <2>1. row = new
      BY <1>3 DEF Duplicate
    <2> HIDE DEF row
    <2>2. new # NoInstance
      BY <1>1, <1>2
    <2>3. Key(row) = Key(in)
      BY <1>1, <2>1 DEF Key
    <2> QED BY <1>1, <1>3, <2>1, <2>2, <2>3 DEF row, new
  <1>4. CASE old # NoInstance
    <2>1. row = [new EXCEPT !.first = old.first, !.val = val]
      BY <1>4 DEF Duplicate
    <2> HIDE DEF row, val
    <2>2. /\ DOMAIN row = {"first", "last", "tags", "val"} /\ row.first = old.first
          /\ row.last = new.last /\ row.tags = new.tags /\ row.val = val
      BY <1>1, <2>1
    <2>3. row # NoInstance
      BY <1>2, <2>2
    <2>4. \A f \in InstanceFields : val[f] = IF f \in KeyFields THEN old.val[f] ELSE new.val[f]
      BY DEF val
    <2>5. \A f \in KeyFields : row.val[f] = old.val[f]
      BY <2>2, <2>4, KeysAre
    <2>6. Key(row) = Key(old)
      BY <2>5 DEF Key
    <2>7. \A f \in InstanceFields \ KeyFields : row.val[f] = in.val[f]
      BY <1>1, <2>2, <2>4
    <2> QED BY <1>1, <1>4, <2>2, <2>3, <2>6, <2>7 DEF row, new
  <1> QED BY <1>3, <1>4

\* The same record put into both keeps them in agreement.
LEMMA PutAgrees ==
    ASSUME NEW b \in Databases, NEW map, NEW rows, NEW in \in Instance,
           Filed(map), DOMAIN rows = PrimaryKeys, Agree(b, map, rows)
    PROVE  LET new == [map EXCEPT ![Key(in)] = Merged(@, in)]
           IN  /\ Filed(new)
               /\ DOMAIN Put(b, rows, in) = PrimaryKeys
               /\ Agree(b, new, Put(b, rows, in))
  <1> DEFINE key == Key(in)
             pk == PrimaryKey(key)
             put == Merged(map[key], in)
             new == [map EXCEPT ![key] = put]
             row == Duplicate(rows[pk], InstanceRow(b, in))
             after == Put(b, rows, in)
             named(m, k) == {m[j] : j \in {x \in Keys : PrimaryKey(x) = k}} \ {NoInstance}
  <1>1. in \in Record /\ key \in Keys /\ pk \in PrimaryKeys
    BY InstanceAssumption DEF Record, Keys, PrimaryKeys
  <1>2. map[key] = NoInstance \/ (map[key] \in Record /\ Key(map[key]) = key)
    BY <1>1 DEF Filed
  <1>3. /\ put \in Record /\ put.last = in.last /\ put.tags = in.tags /\ put.val = in.val
        /\ put.first = IF map[key] = NoInstance THEN in.first ELSE map[key].first
        /\ Key(put) = key /\ put # NoInstance
    BY <1>1, <1>2, MergedRecord, RecordIs
  <1>4. /\ row # NoInstance
        /\ row.first = IF rows[pk] = NoInstance THEN StoredTime(b, in.first) ELSE rows[pk].first
        /\ row.last = StoredTime(b, in.last) /\ row.tags = in.tags
        /\ \A f \in InstanceFields \ KeyFields : row.val[f] = in.val[f]
        /\ Key(row) = IF rows[pk] = NoInstance THEN key ELSE Key(rows[pk])
    BY <1>1, DuplicateRow
  <1>5. /\ DOMAIN after = PrimaryKeys /\ after[pk] = row
        /\ \A k \in PrimaryKeys : k # pk => after[k] = rows[k]
    BY <1>1 DEF Put
  <1> HIDE DEF key, put, row, after
  <1>6. /\ DOMAIN new = Keys /\ new[key] = put
        /\ \A j \in Keys : j # key => new[j] = map[j]
    BY <1>1 DEF Filed
  <1>7. Filed(new)
    <2> HIDE DEF new
    <2> QED BY <1>3, <1>6 DEF Filed
  <1> HIDE DEF new
  <1>8. ASSUME NEW k \in PrimaryKeys, k # pk PROVE named(new, k) = named(map, k)
    BY <1>6, <1>8
  <1>9. put \in named(new, pk) /\ \A x \in named(map, pk) : x # map[key] => x \in named(new, pk)
    BY <1>1, <1>3, <1>6
  <1>10. \E x \in named(new, pk) : row.first = StoredTime(b, x.first) /\ Key(row) = Key(x)
    <2>1. CASE named(map, pk) = {}
      <3>1. rows[pk] = NoInstance
        BY <1>1, <2>1 DEF Agree
      <3>2. map[key] = NoInstance
        BY <1>1, <2>1
      <3> HIDE DEF named
      <3> QED BY <1>3, <1>4, <1>9, <3>1, <3>2
    <2>2. CASE named(map, pk) # {}
      <3>1. rows[pk] # NoInstance
        BY <1>1, <2>2 DEF Agree
      <3>2. PICK x \in named(map, pk) : /\ rows[pk].first = StoredTime(b, x.first)
                                        /\ Key(rows[pk]) = Key(x)
        BY <1>1, <2>2 DEF Agree
      <3>3. row.first = StoredTime(b, x.first) /\ Key(row) = Key(x)
        BY <1>4, <3>1, <3>2
      <3>4. CASE x = map[key]
        <4>1. map[key] # NoInstance
          BY <3>2, <3>4
        <4>2. put.first = x.first /\ Key(put) = Key(x)
          BY <1>2, <1>3, <3>4, <4>1
        <4> HIDE DEF named
        <4> QED BY <1>9, <3>3, <4>2
      <3>5. CASE x # map[key]
        <4> HIDE DEF named
        <4> QED BY <1>9, <3>2, <3>3, <3>5
      <3> QED BY <3>4, <3>5
    <2> QED BY <2>1, <2>2
  <1>11. \E x \in named(new, pk) : /\ row.last = StoredTime(b, x.last) /\ row.tags = x.tags
                                   /\ \A f \in InstanceFields \ KeyFields : row.val[f] = x.val[f]
    <2> HIDE DEF named
    <2> QED BY <1>3, <1>4, <1>9
  <1>12. ASSUME NEW k \in PrimaryKeys
         PROVE  IF named(new, k) = {} THEN after[k] = NoInstance
                ELSE /\ after[k] # NoInstance
                     /\ \E x \in named(new, k) : /\ after[k].first = StoredTime(b, x.first)
                                                 /\ Key(after[k]) = Key(x)
                     /\ \E x \in named(new, k) : /\ after[k].last = StoredTime(b, x.last)
                                                 /\ after[k].tags = x.tags
                                                 /\ \A f \in InstanceFields \ KeyFields :
                                                      after[k].val[f] = x.val[f]
    <2>1. CASE k = pk
      <3>1. named(new, pk) # {}
        BY <1>9
      <3> HIDE DEF named
      <3> QED BY <1>4, <1>5, <1>10, <1>11, <2>1, <3>1
    <2>2. CASE k # pk
      <3>1. after[k] = rows[k] /\ named(new, k) = named(map, k)
        BY <1>5, <1>8, <2>2
      <3>2. IF named(map, k) = {} THEN rows[k] = NoInstance
            ELSE /\ rows[k] # NoInstance
                 /\ \E x \in named(map, k) : /\ rows[k].first = StoredTime(b, x.first)
                                             /\ Key(rows[k]) = Key(x)
                 /\ \E x \in named(map, k) : /\ rows[k].last = StoredTime(b, x.last)
                                             /\ rows[k].tags = x.tags
                                             /\ \A f \in InstanceFields \ KeyFields :
                                                  rows[k].val[f] = x.val[f]
        BY DEF Agree
      <3> HIDE DEF named
      <3> QED BY <3>1, <3>2
    <2> QED BY <2>1, <2>2
  <1>13. Agree(b, new, after)
    BY <1>12 DEF Agree
  <1> QED BY <1>5, <1>7, <1>13 DEF new, after, key, put

\* The memory storage has done a part of the batch the table has in full.
RegistryInv ==
    /\ Filed(instances)
    /\ mu = "instances" => todo \in Seq(Instance)
    /\ \A b \in Databases : \E base :
         /\ DOMAIN base = PrimaryKeys
         /\ Agree(b, instances, base)
         /\ mu # "instances" => registry[b] = base
         /\ mu = "instances" =>
              \E rows : Upserting(b, rows, base, todo) /\ registry[b] = rows[Len(todo)]

LEMMA RegistryInvInit == Init => RegistryInv
  <1> SUFFICES ASSUME Init PROVE RegistryInv
    OBVIOUS
  <1>1. instances = [k \in Keys |-> NoInstance] /\ mu = "free"
    BY DEF Init, MemInit
  <1>2. Filed(instances)
    BY <1>1 DEF Filed
  <1>3. ASSUME NEW b \in Databases
        PROVE  /\ registry[b] = [k \in PrimaryKeys |-> NoInstance]
               /\ Agree(b, instances, registry[b])
    <2>1. registry[b] = [k \in PrimaryKeys |-> NoInstance]
      BY DEF Init
    <2>2. ASSUME NEW k \in PrimaryKeys
          PROVE  {instances[j] : j \in {x \in Keys : PrimaryKey(x) = k}} \ {NoInstance} = {}
      BY <1>1
    <2> QED BY <2>1, <2>2 DEF Agree
  <1> QED BY <1>1, <1>2, <1>3 DEF RegistryInv

LEMMA RegistryInvStep == RegistryInv /\ [Next]_vars => RegistryInv'
  <1> SUFFICES ASSUME RegistryInv, [Next]_vars PROVE RegistryInv'
    OBVIOUS
  <1>1. ASSUME NEW batch \in Batches(Event), Store(batch) PROVE RegistryInv'
    BY <1>1 DEF Store, StoreEvents, RegistryInv
  <1>2. ASSUME NEW batch \in Batches(Instance), Upsert(batch) PROVE RegistryInv'
    <2>1. batch \in Seq(Instance)
      BY DEF Batches
    <2>2. /\ mu = "free" /\ mu' = "instances" /\ todo' = batch /\ instances' = instances
          /\ \A b \in Databases : registry'[b] = Upserted(b, batch)
      BY <1>2 DEF Upsert, UpsertInstances
    <2>3. ASSUME NEW b \in Databases
          PROVE  \E base : /\ DOMAIN base = PrimaryKeys /\ Agree(b, instances, base)
                           /\ \E rows : /\ Upserting(b, rows, base, batch)
                                        /\ registry'[b] = rows[Len(batch)]
      <3>1. DOMAIN registry[b] = PrimaryKeys /\ Agree(b, instances, registry[b])
        BY <2>2 DEF RegistryInv
      <3>2. PICK rows : Upserting(b, rows, registry[b], batch) /\ Upserted(b, batch) = rows[Len(batch)]
        BY <2>1, UpsertedRows
      <3> QED BY <2>2, <3>1, <3>2
    <2> QED BY <2>1, <2>2, <2>3 DEF RegistryInv
  <1>3. CASE StoreNext /\ UNCHANGED registry
    BY <1>3 DEF StoreNext, RegistryInv
  <1>4. CASE UpsertNext /\ UNCHANGED registry
    <2>0. mu = "instances" /\ todo \in Seq(Instance) /\ todo # <<>> /\ Head(todo) = todo[1]
      BY <1>4 DEF UpsertNext, RegistryInv
    <2>1. /\ mu = "instances" /\ mu' = mu /\ todo \in Seq(Instance) /\ todo # <<>>
          /\ todo' = Tail(todo) /\ registry' = registry
          /\ instances' = [instances EXCEPT ![Key(todo[1])] = Merged(@, todo[1])]
      BY <1>4, <2>0, Zenon DEF UpsertNext
    <2>3. /\ Len(todo) \in Nat \ {0} /\ Len(Tail(todo)) = Len(todo) - 1
          /\ Tail(todo) \in Seq(Instance) /\ todo[1] \in Instance
          /\ \A i \in 1..(Len(todo) - 1) : Tail(todo)[i] = todo[i + 1]
      BY <2>1
    <2>4. Filed(instances)
      BY DEF RegistryInv
    <2>5. ASSUME NEW b \in Databases
          PROVE  /\ Filed(instances')
                 /\ \E base : /\ DOMAIN base = PrimaryKeys /\ Agree(b, instances', base)
                              /\ \E rows : /\ Upserting(b, rows, base, Tail(todo))
                                           /\ registry[b] = rows[Len(Tail(todo))]
      <3>1. PICK base : /\ DOMAIN base = PrimaryKeys /\ Agree(b, instances, base)
                        /\ \E rows : Upserting(b, rows, base, todo) /\ registry[b] = rows[Len(todo)]
        BY <2>1 DEF RegistryInv
      <3>2. PICK rows : Upserting(b, rows, base, todo) /\ registry[b] = rows[Len(todo)]
        BY <3>1
      <3> DEFINE rest == [i \in 0..(Len(todo) - 1) |-> rows[i + 1]]
      <3>3. rows[0] = base /\ \A i \in 1..Len(todo) : rows[i] = Put(b, rows[i - 1], todo[i])
        BY <2>1, <3>2, UpsertingAt
      <3>4. rest[0] = Put(b, base, todo[1])
        <4>1. rest[0] = rows[1] /\ 1 \in 1..Len(todo) /\ 1 - 1 = 0
          BY <2>3
        <4> QED BY <3>3, <4>1
      <3>5. ASSUME NEW i \in 1..(Len(todo) - 1)
            PROVE  rest[i] = Put(b, rest[i - 1], Tail(todo)[i])
        <4>1. rest[i] = rows[i + 1] /\ rest[i - 1] = rows[i] /\ i + 1 \in 1..Len(todo)
              /\ (i + 1) - 1 = i
          BY <2>3
        <4>2. rows[i + 1] = Put(b, rows[i], todo[i + 1])
          BY <3>3, <4>1
        <4>3. Tail(todo)[i] = todo[i + 1]
          BY <2>3
        <4> HIDE DEF rest
        <4> QED BY <4>1, <4>2, <4>3
      <3>6. rest[Len(todo) - 1] = rows[Len(todo)]
        BY <2>3
      <3> HIDE DEF rest
      <3>7. DOMAIN rest = 0..Len(Tail(todo)) /\ rest = [i \in DOMAIN rest |-> rest[i]]
        BY <2>3 DEF rest
      <3>8. Upserting(b, rest, rest[0], Tail(todo))
        BY <2>3, <3>5, <3>7 DEF Upserting
      <3>9. /\ Filed(instances') /\ DOMAIN rest[0] = PrimaryKeys
            /\ Agree(b, instances', rest[0])
        <4> DEFINE new == [instances EXCEPT ![Key(todo[1])] = Merged(@, todo[1])]
        <4>1. /\ Filed(new) /\ DOMAIN Put(b, base, todo[1]) = PrimaryKeys
              /\ Agree(b, new, Put(b, base, todo[1]))
          BY <2>3, <2>4, <3>1, PutAgrees
        <4>2. instances' = new
          BY <2>1
        <4> HIDE DEF new
        <4> QED BY <3>4, <4>1, <4>2
      <3> QED BY <2>3, <3>2, <3>6, <3>8, <3>9
    <2>6. "mysql" \in Databases
      BY DEF Databases
    <2>7. Filed(instances')
      BY <2>5, <2>6
    <2> QED BY <2>1, <2>3, <2>5, <2>7 DEF RegistryInv
  <1>5. CASE Unlock /\ UNCHANGED registry
    <2>1. todo = <<>> /\ Len(todo) = 0 /\ mu' = "free" /\ instances' = instances /\ registry' = registry
      BY <1>5 DEF Unlock
    <2>2. ASSUME NEW b \in Databases
          PROVE  DOMAIN registry[b] = PrimaryKeys /\ Agree(b, instances, registry[b])
      <3>1. CASE mu = "instances"
        <4>1. PICK base : /\ DOMAIN base = PrimaryKeys /\ Agree(b, instances, base)
                          /\ \E rows : Upserting(b, rows, base, todo) /\ registry[b] = rows[Len(todo)]
          BY <3>1 DEF RegistryInv
        <4>2. PICK rows : Upserting(b, rows, base, todo) /\ registry[b] = rows[0]
          BY <2>1, <4>1
        <4>3. rows[0] = base
          BY <2>1, <4>2 DEF Upserting
        <4> QED BY <4>1, <4>2, <4>3
      <3>2. CASE mu # "instances"
        BY <3>2 DEF RegistryInv
      <3> QED BY <3>1, <3>2
    <2>3. Filed(instances)
      BY DEF RegistryInv
    <2> QED BY <2>1, <2>2, <2>3 DEF RegistryInv
  <1>6. CASE UNCHANGED <<mu, todo, instances, registry>>
    BY <1>6 DEF RegistryInv
  <1>7. MemStep => (StoreNext \/ UpsertNext \/ Unlock) /\ UNCHANGED registry
    BY DEF MemStep
  <1>8. ((\E d \in Moves : NextPage(d)) \/ (\E b \in Backends, q \in PageQueries : FirstPage(b, q))
         \/ UNCHANGED vars) => UNCHANGED <<mu, todo, instances, registry>>
    BY DEF NextPage, FirstPage, vars, memVars
  <1> QED BY <1>1, <1>2, <1>3, <1>4, <1>5, <1>6, <1>7, <1>8 DEF Next

LEMMA RegistryInvariant == Spec => []RegistryInv
  BY RegistryInvInit, RegistryInvStep, PTL DEF Spec

\* After the same calls the instances table of each database holds the records of
\* the map, as its columns round times and its key ignores case, for batches of any
\* length with the same key, in whatever letters, as often as it may be.
THEOREM RegistriesHoldTheSame == Spec => []RegistriesAgree
  <1>1. RegistryInv => RegistriesAgree
    BY DEF RegistryInv, RegistriesAgree
  <1> QED BY <1>1, RegistryInvariant, PTL

\* A request selects what its filters say, in Go and in SQL, for every request and
\* every event, names and collation, with the exceptions of Differ only.
THEOREM FiltersMeanTheSame == Spec => []SameFilters
  <1>1. RingInv => SameFilters
    <2> SUFFICES ASSUME RingInv, size > 0, NEW req \in Requests
                 PROVE  /\ FilterMeans(At(0), req)
                        /\ \A b \in Databases : SameFilter(b, At(0), ParseQuery(req), Now)
      BY DEF SameFilters
    <2>1. 0 \in 0..(size - 1)
      BY DEF RingInv
    <2>2. At(0).ev.time \in Nat
      BY <2>1, EventAssumption DEF RingInv
    <2>3. \A f \in ParseQuery(req).filters : f.not \in BOOLEAN
      BY RequestsAssumption, FilterOf DEF ParseQuery
    <2>4. ParseQuery(req).from = None \/ ParseQuery(req).from \in Int
      BY RequestsAssumption DEF ParseQuery
    <2> QED BY <2>2, <2>3, <2>4, RequestsAssumption, RequestMeans, FiltersAgree, ReadsAssumption
  <1> QED BY <1>1, RingInvariant, PTL

\* The memory storage keeps the log also beside the other storage and its readers.
THEOREM StorageKeepsLog == Spec => RingIsLog
  <1>1. Init => Log!Init
    BY InitRefines DEF Init
  <1>2. RingInv /\ [Next]_vars => [Log!Next]_<<nextID, Kept>>
    BY MemSteps, StepRefines
  <1> QED BY <1>1, <1>2, RingInvariant, PTL DEF Spec, RingIsLog, Log!Spec

-----------------------------------------------------------------------------
(* Pages.                                                                  *)

\* What a storage may hold: finitely many events, each with a number of its own.
Proper(S) ==
    /\ IsFiniteSet(S)
    /\ \A s \in S : s.id \in Nat /\ s.ev \in Event
    /\ \A s, x \in S : s.id = x.id => s = x

\* The same of rows.
ProperRows(R) ==
    /\ IsFiniteSet(R)
    /\ \A r \in R : r.id \in Nat /\ r.time \in Nat
    /\ \A r, x \in R : r.id = x.id => r = x

LEMMA SelectedProper ==
    ASSUME NEW b \in Backends, NEW S, Proper(S), NEW q, NEW now
    PROVE  /\ ProperRows(Selected(b, S, q, now))
           /\ \A r \in Selected(b, S, q, now) : b # "memory" => OfMs(Ms(r.time)) = r.time
  <1> DEFINE All == {Row(b, s) : s \in S}
             f == [s \in S |-> Row(b, s)]
  <1>1. IsFiniteSet(All)
    <2>1. f \in Surjection(S, All)
      BY DEF Surjection
    <2> HIDE DEF f, All
    <2> QED BY <2>1, FS_Surjection DEF Proper
  <1>2. \A s \in S : Row(b, s).id = s.id /\ Row(b, s).time = StoredTime(b, s.ev.time)
    BY DEF Row
  <1>3. \A s \in S : /\ s.id \in Nat /\ StoredTime(b, s.ev.time) \in Nat
                     /\ b # "memory" => OfMs(Ms(StoredTime(b, s.ev.time)))
                                        = StoredTime(b, s.ev.time)
    BY EventAssumption, StoredTimeType DEF Proper
  <1>4. \A r \in All : /\ r.id \in Nat /\ r.time \in Nat
                       /\ b # "memory" => OfMs(Ms(r.time)) = r.time
    BY <1>2, <1>3
  <1>5. \A r, x \in All : r.id = x.id => r = x
    BY <1>2 DEF Proper
  <1>6. Selected(b, S, q, now) \subseteq All
    BY DEF Selected
  <1> HIDE DEF All
  <1> QED BY <1>1, <1>4, <1>5, <1>6, FS_Subset DEF ProperRows

LEMMA PastProper ==
    ASSUME NEW R, ProperRows(R), NEW c
    PROVE  ProperRows(Past(R, c)) /\ Past(R, c) \subseteq R
  BY FS_Subset DEF ProperRows, Past

\* Rows in newest-first order have a first and a last one.
LEMMA FirstOf ==
    ASSUME NEW R, ProperRows(R), R # {}
    PROVE  \E r \in R : \A x \in R : ~Newer(x, r)
  <1> DEFINE Above(r) == {x \in R : Newer(x, r)}
             Sizes == {Cardinality(Above(r)) : r \in R}
  <1>1. \A r \in R : IsFiniteSet(Above(r)) /\ Cardinality(Above(r)) \in Nat
    BY FS_Subset, FS_CardinalityType DEF ProperRows
  <1>2. Sizes \in SUBSET Nat /\ Sizes # {}
    BY <1>1
  <1>3. PICK m \in Sizes : \A k \in Sizes : m <= k
    BY <1>2, Smallest
  <1>4. PICK r \in R : m = Cardinality(Above(r))
    BY <1>3
  <1>5. SUFFICES ASSUME NEW x \in R, Newer(x, r) PROVE FALSE
    OBVIOUS
  <1>6. Above(x) \subseteq Above(r) /\ x \in Above(r) /\ x \notin Above(x)
    BY <1>5 DEF Newer, ProperRows
  <1>7. Cardinality(Above(x)) \in Sizes
    OBVIOUS
  <1> HIDE DEF Above, Sizes
  <1>8. Cardinality(Above(x)) <= Cardinality(Above(r)) /\ Cardinality(Above(x)) # Cardinality(Above(r))
    BY <1>1, <1>6, FS_Subset
  <1> QED BY <1>1, <1>3, <1>4, <1>7, <1>8

LEMMA LastOf ==
    ASSUME NEW R, ProperRows(R), R # {}
    PROVE  \E r \in R : \A x \in R : ~Newer(r, x)
  <1> DEFINE Below(r) == {x \in R : Newer(r, x)}
             Sizes == {Cardinality(Below(r)) : r \in R}
  <1>1. \A r \in R : IsFiniteSet(Below(r)) /\ Cardinality(Below(r)) \in Nat
    BY FS_Subset, FS_CardinalityType DEF ProperRows
  <1>2. Sizes \in SUBSET Nat /\ Sizes # {}
    BY <1>1
  <1>3. PICK m \in Sizes : \A k \in Sizes : m <= k
    BY <1>2, Smallest
  <1>4. PICK r \in R : m = Cardinality(Below(r))
    BY <1>3
  <1>5. SUFFICES ASSUME NEW x \in R, Newer(r, x) PROVE FALSE
    OBVIOUS
  <1>6. Below(x) \subseteq Below(r) /\ x \in Below(r) /\ x \notin Below(x)
    BY <1>5 DEF Newer, ProperRows
  <1>7. Cardinality(Below(x)) \in Sizes
    OBVIOUS
  <1> HIDE DEF Below, Sizes
  <1>8. Cardinality(Below(x)) <= Cardinality(Below(r)) /\ Cardinality(Below(x)) # Cardinality(Below(r))
    BY <1>1, <1>6, FS_Subset
  <1> QED BY <1>1, <1>3, <1>4, <1>7, <1>8

\* The n first rows: all of them if there are no more than n, and otherwise a
\* set that is not empty, whose last row is before every row left out.
LEMMA NewestRows ==
    ASSUME NEW R, ProperRows(R), NEW n \in Nat \ {0}
    PROVE  /\ Newest(R, n) \subseteq R /\ ProperRows(Newest(R, n))
           /\ Cardinality(R) <= n => Newest(R, n) = R
           /\ R # {} => Newest(R, n) # {}
           /\ \A l \in Newest(R, n), r \in R \ Newest(R, n) : Newer(l, r)
  <1> DEFINE Above(r) == {x \in R : Newer(x, r)}
  <1>0. Newest(R, n) = {r \in R : Cardinality(Above(r)) < n}
    BY DEF Newest
  <1>1. \A r \in R : IsFiniteSet(Above(r)) /\ Cardinality(Above(r)) \in Nat
    BY FS_Subset, FS_CardinalityType DEF ProperRows
  <1>2. Newest(R, n) \subseteq R /\ ProperRows(Newest(R, n))
    <2>1. Newest(R, n) \subseteq R
      BY DEF Newest
    <2> QED BY <2>1, FS_Subset DEF ProperRows
  <1>3. ASSUME Cardinality(R) <= n, NEW r \in R PROVE r \in Newest(R, n)
    <2>1. Above(r) \subseteq R /\ r \notin Above(r)
      BY DEF Newer, ProperRows
    <2>2. IsFiniteSet(R) /\ Cardinality(R) \in Nat
      BY FS_CardinalityType DEF ProperRows
    <2> HIDE DEF Above
    <2>3. Cardinality(Above(r)) <= Cardinality(R) /\ Cardinality(Above(r)) # Cardinality(R)
      BY <2>1, <2>2, FS_Subset
    <2> QED BY <1>0, <1>1, <1>3, <2>2, <2>3
  <1>4. ASSUME R # {} PROVE Newest(R, n) # {}
    <2>1. PICK r \in R : \A x \in R : ~Newer(x, r)
      BY <1>4, FirstOf
    <2>2. Above(r) = {}
      BY <2>1
    <2>3. Cardinality(Above(r)) = 0
      BY <2>2, FS_EmptySet
    <2> HIDE DEF Above
    <2> QED BY <1>0, <2>3
  <1>5. ASSUME NEW l \in Newest(R, n), NEW r \in R \ Newest(R, n) PROVE Newer(l, r)
    <2>1. SUFFICES ASSUME ~Newer(l, r) PROVE FALSE
      OBVIOUS
    <2>2. l \in R /\ r \in R /\ l # r
      BY <1>2
    <2>3. Newer(r, l)
      BY <2>1, <2>2 DEF Newer, ProperRows
    <2>4. Above(r) \subseteq Above(l)
      BY <2>2, <2>3 DEF Newer, ProperRows
    <2> HIDE DEF Above
    <2>5. Cardinality(Above(r)) <= Cardinality(Above(l))
      BY <1>1, <2>2, <2>4, FS_Subset
    <2>6. Cardinality(Above(l)) < n /\ ~(Cardinality(Above(r)) < n)
      BY <1>0, <2>2, <1>5
    <2> QED BY <1>1, <2>2, <2>5, <2>6
  <1>6. Cardinality(R) <= n => Newest(R, n) = R
    BY <1>2, <1>3
  <1> QED BY <1>2, <1>4, <1>5, <1>6

LEMMA LimitType ==
    ASSUME NEW b, NEW n \in Int
    PROVE  Limit(b, n) \in Nat \ {0}
  BY LimitsAssumption DEF Limit

\* A page is what comes first after the cursor, and if there is more its last
\* row is before everything that is left.
LEMMA PageRows ==
    ASSUME NEW b, NEW S, NEW q, NEW c, NEW n \in Int, NEW now,
           ProperRows(Selected(b, S, q, now))
    PROVE  LET rest == Past(Selected(b, S, q, now), c)
               page == EventsPage(b, S, q, c, n, now)
           IN  /\ page.events \subseteq rest
               /\ page.more \in BOOLEAN
               /\ ~page.more => page.events = rest
               /\ page.more => \E l \in page.events :
                     /\ page.next = [time |-> l.time, id |-> l.id]
                     /\ \A x \in page.events : ~Newer(l, x)
                     /\ \A r \in rest \ page.events : Newer(l, r)
  <1> DEFINE rest == Past(Selected(b, S, q, now), c)
             top == Newest(rest, Limit(b, n))
             more == Cardinality(rest) > Limit(b, n)
             l == CHOOSE r \in top : \A x \in top : ~Newer(r, x)
             page == EventsPage(b, S, q, c, n, now)
  <1>1. ProperRows(rest)
    BY PastProper
  <1>2. Limit(b, n) \in Nat \ {0}
    BY LimitType
  <1>3. IsFiniteSet(rest) /\ Cardinality(rest) \in Nat
    BY <1>1, FS_CardinalityType DEF ProperRows
  <1>4. /\ page.events = top /\ page.more = more
        /\ page.next = IF more THEN [time |-> l.time, id |-> l.id] ELSE None
    BY DEF EventsPage
  <1> HIDE DEF rest, page
  <1>5. /\ top \subseteq rest /\ ProperRows(top) /\ (Cardinality(rest) <= Limit(b, n) => top = rest)
        /\ (rest # {} => top # {}) /\ \A x \in top, r \in rest \ top : Newer(x, r)
    BY <1>1, <1>2, NewestRows
  <1>6. more \in BOOLEAN /\ (~more => top = rest)
    <2> HIDE DEF top
    <2> QED BY <1>2, <1>3, <1>5
  <1>7. ASSUME more PROVE l \in top /\ \A x \in top : ~Newer(l, x)
    <2>1. rest # {}
      BY <1>2, <1>3, <1>7, FS_EmptySet
    <2>2. \E r \in top : \A x \in top : ~Newer(r, x)
      BY <1>5, <2>1, LastOf
    <2> HIDE DEF top
    <2> QED BY <2>2
  <1> HIDE DEF top, l, more
  <1>8. page.more => \E x \in page.events :
                     /\ page.next = [time |-> x.time, id |-> x.id]
                     /\ \A y \in page.events : ~Newer(x, y)
                     /\ \A r \in rest \ page.events : Newer(x, r)
    BY <1>4, <1>5, <1>7
  <1> QED BY <1>4, <1>5, <1>6, <1>8 DEF rest, page

\* The events table: its rows are numbered without a hole.
TableInv ==
    /\ Proper(table)
    /\ \A s \in table : s.id <= Cardinality(table)

LEMMA InsertKeepsTable ==
    ASSUME TableInv, NEW batch \in Batches(Event), InsertEvents(batch)
    PROVE  TableInv' /\ table \subseteq table'
  <1> DEFINE C == Cardinality(table)
             N == Len(batch)
             new == {[id |-> C + i, ev |-> batch[i]] : i \in DOMAIN batch}
             f == [i \in 1..N |-> [id |-> C + i, ev |-> batch[i]]]
  <1>1. batch \in Seq(Event) /\ N \in Nat /\ DOMAIN batch = 1..N
    BY DEF Batches
  <1>2. IsFiniteSet(table) /\ C \in Nat
    BY FS_CardinalityType DEF TableInv, Proper
  <1>3. table' = table \cup new
    BY DEF InsertEvents, RowsOf
  <1>4. IsFiniteSet(1..N) /\ Cardinality(1..N) = N
    BY <1>1, FS_Interval
  <1>5. \A i \in 1..N : f[i].id = C + i /\ f[i].ev = batch[i] /\ batch[i] \in Event
    BY <1>1
  <1>6. \A s \in new : \E i \in 1..N : s = f[i]
    BY <1>1, Zenon
  <1>7. f \in Bijection(1..N, new)
    <2>1. f \in [1..N -> new]
      BY <1>1
    <2> HIDE DEF f, C, N, new
    <2>2. \A i, j \in 1..N : f[i] = f[j] => i = j
      BY <1>1, <1>2, <1>5
    <2>3. f \in Injection(1..N, new)
      BY <2>1, <2>2 DEF Injection, IsInjective
    <2>4. f \in Surjection(1..N, new)
      BY <1>6, <2>1 DEF Surjection
    <2> QED BY <2>3, <2>4 DEF Bijection
  <1> HIDE DEF f, new
  <1>8. IsFiniteSet(new) /\ Cardinality(new) = N
    BY <1>4, <1>7, FS_Bijection DEF ExistsBijection
  <1>9. \A s \in new : s.id \in Nat /\ s.id > C /\ s.id <= C + N /\ s.ev \in Event
    BY <1>1, <1>2, <1>5, <1>6
  <1>10. \A s, x \in new : s.id = x.id => s = x
    BY <1>1, <1>2, <1>5, <1>6
  <1>11. \A s \in table : s.id \in Nat /\ s.id <= C /\ s.ev \in Event
    BY DEF TableInv, Proper
  <1> HIDE DEF C, N
  <1>12. table \cap new = {}
    BY <1>2, <1>9, <1>11
  <1>13. IsFiniteSet(table') /\ Cardinality(table') = C + N
    <2>1. Cardinality(table \cap new) = 0
      BY <1>12, FS_EmptySet
    <2>2. Cardinality(table') = Cardinality(table) + Cardinality(new) - Cardinality(table \cap new)
          /\ IsFiniteSet(table')
      BY <1>2, <1>3, <1>8, FS_Union
    <2>3. Cardinality(table') = C + N - 0
      BY <1>8, <2>1, <2>2 DEF C
    <2> QED BY <1>1, <1>2, <2>2, <2>3
  <1>14. \A s \in table' : s.id \in Nat /\ s.id <= C + N /\ s.ev \in Event
    BY <1>1, <1>2, <1>3, <1>9, <1>11
  <1>15. \A s, x \in table' : s.id = x.id => s = x
    <2>1. \A s, x \in table : s.id = x.id => s = x
      BY DEF TableInv, Proper
    <2>2. \A s \in table, x \in new : s.id # x.id
      BY <1>2, <1>9, <1>11
    <2> QED BY <1>3, <1>10, <2>1, <2>2
  <1> QED BY <1>3, <1>13, <1>14, <1>15 DEF TableInv, Proper

LEMMA TableStep == TableInv /\ [Next]_vars => TableInv' /\ table \subseteq table'
  <1> SUFFICES ASSUME TableInv, [Next]_vars PROVE TableInv' /\ table \subseteq table'
    OBVIOUS
  <1>1. ASSUME NEW batch \in Batches(Event), Store(batch) PROVE TableInv' /\ table \subseteq table'
    BY <1>1, InsertKeepsTable DEF Store
  <1>2. CASE table' = table
    BY <1>2 DEF TableInv, Proper
  <1>3. ASSUME NEW batch \in Batches(Instance), Upsert(batch) PROVE table' = table
    BY <1>3 DEF Upsert
  <1>4. MemStep \/ (\E d \in Moves : NextPage(d)) \/ (\E b \in Backends, q \in PageQueries : FirstPage(b, q))
        \/ UNCHANGED vars => table' = table
    BY DEF MemStep, NextPage, FirstPage, vars
  <1> QED BY <1>1, <1>2, <1>3, <1>4 DEF Next

LEMMA KeptProper == RingInv => Proper(Kept) /\ \A s \in Kept : s.id <= nextID
  <1> SUFFICES ASSUME RingInv PROVE Proper(Kept) /\ \A s \in Kept : s.id <= nextID
    OBVIOUS
  <1> DEFINE f == [j \in 0..(size - 1) |-> At(j)]
  <1>1. size \in Nat /\ size <= nextID /\ nextID \in Nat
    BY MaxSizeAssumption DEF RingInv
  <1>2. IsFiniteSet(Kept)
    <2>1. f \in Surjection(0..(size - 1), Kept)
      BY DEF Surjection, Kept
    <2>2. IsFiniteSet(0..(size - 1))
      BY <1>1, FS_Interval
    <2> HIDE DEF f
    <2> QED BY <2>1, <2>2, FS_Surjection
  <1>3. \A j \in 0..(size - 1) : At(j).id = nextID - j /\ At(j).ev \in Event
    BY DEF RingInv
  <1>4. \A s \in Kept : \E j \in 0..(size - 1) : s = At(j)
    BY DEF Kept
  <1>5. \A s \in Kept : s.id \in Nat /\ s.ev \in Event /\ s.id <= nextID
    BY <1>1, <1>3, <1>4
  <1>6. \A s, x \in Kept : s.id = x.id => s = x
    <2>1. SUFFICES ASSUME NEW s \in Kept, NEW x \in Kept, s.id = x.id PROVE s = x
      OBVIOUS
    <2>2. PICK i \in 0..(size - 1) : s = At(i)
      BY <1>4
    <2>3. PICK j \in 0..(size - 1) : x = At(j)
      BY <1>4
    <2>4. nextID - i = nextID - j
      BY <1>3, <2>1, <2>2, <2>3
    <2>5. i = j
      BY <1>1, <2>4
    <2> QED BY <2>2, <2>3, <2>5
  <1> QED BY <1>2, <1>5, <1>6 DEF Proper

\* What the ring loses is gone with its number, and a number does not come back.
LEMMA KeptStep ==
    ASSUME RingInv, [Next]_vars
    PROVE  /\ nextID' \in Nat /\ nextID <= nextID'
           /\ \A s \in Kept : s \in Kept' \/ s.id \notin {x.id : x \in Kept'}
           /\ \A n \in Nat : n <= nextID /\ n \notin {x.id : x \in Kept}
                             => n \notin {x.id : x \in Kept'}
  <1>1. [Log!Next]_<<nextID, Kept>>
    BY MemSteps, StepRefines
  <1>2. nextID \in Nat /\ \A s \in Kept : s.id \in Nat /\ s.id <= nextID
    BY KeptProper DEF RingInv, Proper
  <1>3. CASE UNCHANGED <<nextID, Kept>>
    BY <1>2, <1>3
  <1>4. ASSUME NEW e \in Event, Log!Store(e)
        PROVE  /\ nextID' \in Nat /\ nextID <= nextID'
               /\ \A s \in Kept : s \in Kept' \/ s.id \notin {x.id : x \in Kept'}
               /\ \A n \in Nat : n <= nextID /\ n \notin {x.id : x \in Kept}
                                 => n \notin {x.id : x \in Kept'}
    <2>1. nextID' = nextID + 1
      BY <1>4 DEF Log!Store
    <2>2. Kept' = {r \in Kept : r.id > nextID + 1 - MaxSize} \cup {[id |-> nextID + 1, ev |-> e]}
      BY <1>4 DEF Log!Store
    <2>3. \A x \in Kept' : x.id > nextID + 1 - MaxSize /\ (x \in Kept \/ x.id = nextID + 1)
      BY <1>2, <2>2, MaxSizeAssumption
    <2>4. \A s \in Kept : s \in Kept' \/ ~(s.id > nextID + 1 - MaxSize)
      BY <2>2
    <2> HIDE <2>2
    <2>5. \A s \in Kept : s \in Kept' \/ s.id \notin {x.id : x \in Kept'}
      BY <2>3, <2>4
    <2>6. \A n \in Nat : n <= nextID /\ n \notin {x.id : x \in Kept}
                         => n \notin {x.id : x \in Kept'}
      BY <1>2, <2>3
    <2> QED BY <1>2, <2>1, <2>5, <2>6
  <1> QED BY <1>1, <1>3, <1>4 DEF Log!Next

\* The row r comes after the place a cursor (ms and id) says.
Beyond(r, c) == r.time < OfMs(c.ms) \/ (r.time = OfMs(c.ms) /\ r.id < c.id)

Pointer == [ms : Nat, id : Nat]

\* Every answer to the client comes from events that are numbered and finite.
HeldInv == RingInv /\ TableInv

LEMMA HeldProper ==
    ASSUME HeldInv, NEW b \in Backends
    PROVE  Proper(Held(b))
  BY KeptProper DEF HeldInv, TableInv, Held

LEMMA PastCursor ==
    ASSUME NEW R, NEW c \in Pointer
    PROVE  Past(R, ParseCursor(c)) = {r \in R : Beyond(r, c)}
  <1>1. c # None
    BY NoneAssumption DEF Pointer
  <1>2. ParseCursor(c) = [time |-> OfMs(c.ms), id |-> c.id]
    BY <1>1 DEF ParseCursor
  <1>3. ParseCursor(c) # None
    <2>1. [time |-> OfMs(c.ms), id |-> c.id] \in [time : Nat, id : Nat]
      BY DEF Pointer, OfMs, Milli
    <2> QED BY <1>2, <2>1, NoneAssumption
  <1> QED BY <1>2, <1>3 DEF Past, Beyond

\* A cut to milliseconds.
LEMMA CutTime ==
    ASSUME NEW t \in Nat, NEW u \in Nat
    PROVE  /\ Ms(t) \in Nat /\ OfMs(Ms(t)) \in Nat /\ OfMs(Ms(t)) <= t
           /\ u <= t => Ms(u) = Ms(t) \/ u < OfMs(Ms(t))
  <1>1. \A n \in Nat : /\ n \div 2 \in Nat /\ (n \div 2) * 2 \in Nat
                      /\ (n \div 2) * 2 <= n /\ n <= (n \div 2) * 2 + 1
    OBVIOUS
  <1>2. Ms(t) \in Nat /\ OfMs(Ms(t)) = Ms(t) * 2 /\ Ms(t) * 2 <= t /\ t <= Ms(t) * 2 + 1
    BY <1>1 DEF Ms, OfMs, Milli
  <1>3. Ms(u) \in Nat /\ Ms(u) * 2 <= u /\ u <= Ms(u) * 2 + 1
    BY <1>1 DEF Ms, Milli
  <1> QED BY <1>2, <1>3

\* What an answer has and what it leaves for later, in terms of the cursor it gives.
LEMMA AnswerRows ==
    ASSUME HeldInv, NEW b \in Backends, NEW q, NEW c \in Pointer \cup {None}
    PROVE  LET a == Answer(b, q, c)
               all == Brief(Selected(b, Held(b), q, Now))
               after(r) == c = None \/ Beyond(r, c)
           IN  /\ a.events \subseteq {r \in all : after(r)}
               /\ a.more \in BOOLEAN
               /\ ~a.more => a.events = {r \in all : after(r)}
               /\ a.more => \E l \in a.events :
                     /\ a.cursor = [ms |-> Ms(l.time), id |-> l.id]
                     /\ \A x \in a.events : ~Newer(l, x)
                     /\ \A r \in {r \in all : after(r)} \ a.events : Newer(l, r)
  <1> DEFINE R == Selected(b, Held(b), q, Now)
             page == EventsPage(b, Held(b), q, ParseCursor(c), PageSize, Now)
             rest == Past(R, ParseCursor(c))
             a == Answer(b, q, c)
             after(r) == c = None \/ Beyond(r, c)
             f(r) == [id |-> r.id, time |-> r.time]
  <1>1. ProperRows(R)
    BY HeldProper, SelectedProper
  <1>2. /\ page.events \subseteq rest
        /\ page.more \in BOOLEAN
        /\ ~page.more => page.events = rest
        /\ page.more => \E l \in page.events :
              /\ page.next = [time |-> l.time, id |-> l.id]
              /\ \A x \in page.events : ~Newer(l, x)
              /\ \A r \in rest \ page.events : Newer(l, r)
    BY <1>1, PageRows, ReadsAssumption
  <1>3. rest = {r \in R : after(r)}
    <2>1. CASE c = None
      BY <2>1 DEF ParseCursor, Past
    <2>2. CASE c \in Pointer
      <3>1. c # None
        BY <2>2, NoneAssumption DEF Pointer
      <3> QED BY <2>2, <3>1, PastCursor
    <2> QED BY <2>1, <2>2
  <1>4. a.events = Brief(page.events) /\ a.cursor = CursorString(page.next) /\ a.more = page.more
    BY DEF Answer
  <1>5. rest \subseteq R
    BY <1>3
  <1> HIDE DEF R, page, rest, a
  <1>6. \A r : f(r).id = r.id /\ f(r).time = r.time /\ (after(f(r)) <=> after(r))
    BY DEF Beyond
  <1>7. \A r, x : /\ Newer(f(r), f(x)) <=> Newer(r, x)
    BY DEF Newer
  <1>8. \A S : Brief(S) = {f(r) : r \in S}
    BY DEF Brief
  <1> HIDE DEF f, after
  <1>9. {r \in Brief(R) : after(r)} = {f(r) : r \in rest}
    BY <1>3, <1>6, <1>8
  <1>10. a.events \subseteq {f(r) : r \in rest} /\ (~a.more => a.events = {f(r) : r \in rest})
    BY <1>2, <1>4, <1>8
  <1>11. ASSUME a.more
         PROVE  \E l \in a.events :
                  /\ a.cursor = [ms |-> Ms(l.time), id |-> l.id]
                  /\ \A x \in a.events : ~Newer(l, x)
                  /\ \A r \in {f(r) : r \in rest} \ a.events : Newer(l, r)
    <2>1. PICK l \in page.events :
              /\ page.next = [time |-> l.time, id |-> l.id]
              /\ \A x \in page.events : ~Newer(l, x)
              /\ \A r \in rest \ page.events : Newer(l, r)
      BY <1>2, <1>4, <1>11
    <2>2. f(l) \in a.events
      BY <1>4, <1>8
    <2>3. a.cursor = [ms |-> Ms(f(l).time), id |-> f(l).id]
      <3>1. l.id \in Nat /\ l.time \in Nat
        BY <1>1, <1>2, <1>5 DEF ProperRows
      <3>2. [time |-> l.time, id |-> l.id] # None
        <4>1. [time |-> l.time, id |-> l.id] \in [time : Nat, id : Nat]
          BY <3>1
        <4> QED BY <4>1, NoneAssumption
      <3>3. CursorString([time |-> l.time, id |-> l.id]) = [ms |-> Ms(l.time), id |-> l.id]
        BY <3>2 DEF CursorString
      <3> QED BY <1>4, <1>6, <2>1, <3>3
    <2>4. \A x \in a.events : ~Newer(f(l), x)
      BY <1>4, <1>7, <1>8, <2>1
    <2>5. ASSUME NEW r \in rest, f(r) \notin a.events PROVE Newer(f(l), f(r))
      <3>1. r \notin page.events
        BY <1>4, <1>8, <2>5
      <3> QED BY <1>7, <2>1, <3>1
    <2> QED BY <2>2, <2>3, <2>4, <2>5
  <1> QED BY <1>2, <1>4, <1>9, <1>10, <1>11 DEF R, a, after

LEMMA BriefTypes ==
    ASSUME HeldInv, NEW b \in Backends, NEW q, NEW r \in Brief(Selected(b, Held(b), q, Now))
    PROVE  /\ r.id \in Nat /\ r.time \in Nat
           /\ b # "memory" => OfMs(Ms(r.time)) = r.time
           /\ b = "memory" => r.id <= nextID
  <1>1. Proper(Held(b))
    BY HeldProper
  <1>2. PICK x \in Selected(b, Held(b), q, Now) : r = [id |-> x.id, time |-> x.time]
    BY DEF Brief
  <1>3. x.id \in Nat /\ x.time \in Nat /\ (b # "memory" => OfMs(Ms(x.time)) = x.time)
    BY <1>1, SelectedProper DEF ProperRows
  <1>4. ASSUME b = "memory" PROVE x.id <= nextID
    <2>1. \E s \in Kept : x = Row(b, s)
      BY <1>4 DEF Selected, Held
    <2>2. \E s \in Kept : x.id = s.id
      BY <2>1 DEF Row
    <2> QED BY <2>2, KeptProper DEF HeldInv
  <1> QED BY <1>2, <1>3, <1>4

\* The cursor of an answer: nothing of the answer, and nothing given before, is
\* beyond it.
LEMMA AnswerCursor ==
    ASSUME HeldInv, NEW b \in Backends, NEW q, NEW c \in Pointer \cup {None}, Answer(b, q, c).more
    PROVE  LET a == Answer(b, q, c)
           IN  /\ a.cursor \in Pointer
               /\ \A x \in a.events : ~Beyond(x, a.cursor)
               /\ \A y : y.id \in Nat /\ y.time \in Nat /\ c # None /\ ~Beyond(y, c)
                         => ~Beyond(y, a.cursor)
  <1> DEFINE a == Answer(b, q, c)
             all == Brief(Selected(b, Held(b), q, Now))
  <1>1. a.events \subseteq {r \in all : c = None \/ Beyond(r, c)}
    BY AnswerRows
  <1>2. \A r \in a.events : r.id \in Nat /\ r.time \in Nat /\ (c = None \/ Beyond(r, c))
    BY <1>1, BriefTypes
  <1>3. PICK l \in a.events : /\ a.cursor = [ms |-> Ms(l.time), id |-> l.id]
                              /\ \A x \in a.events : ~Newer(l, x)
    BY AnswerRows
  <1> HIDE DEF a, all
  <1>4. /\ l.id \in Nat /\ l.time \in Nat /\ (c = None \/ Beyond(l, c))
        /\ Ms(l.time) \in Nat /\ OfMs(Ms(l.time)) \in Nat /\ OfMs(Ms(l.time)) <= l.time
    BY <1>2, CutTime
  <1>5. a.cursor \in Pointer /\ a.cursor.ms = Ms(l.time) /\ a.cursor.id = l.id
    BY <1>3, <1>4 DEF Pointer
  <1>6. ASSUME NEW x \in a.events PROVE ~Beyond(x, a.cursor)
    BY <1>2, <1>3, <1>4, <1>5 DEF Beyond, Newer
  <1>7. ASSUME NEW y, y.id \in Nat, y.time \in Nat, c # None, ~Beyond(y, c)
        PROVE  ~Beyond(y, a.cursor)
    <2>1. c \in Pointer /\ c.ms \in Nat /\ c.id \in Nat /\ OfMs(c.ms) \in Nat
      BY <1>7 DEF Pointer, OfMs, Milli
    <2> QED BY <1>4, <1>5, <1>7, <2>1 DEF Beyond
  <1> QED BY <1>5, <1>6, <1>7 DEF a

\* What an answer leaves out is beyond its cursor, unless the cursor cannot tell
\* it from the last event of the answer.
LEMMA AnswerLeaves ==
    ASSUME HeldInv, NEW b \in Backends, NEW q, NEW c \in Pointer \cup {None},
           NEW r \in Brief(Selected(b, Held(b), q, Now)), c = None \/ Beyond(r, c),
           r \notin Answer(b, q, c).events
    PROVE  LET a == Answer(b, q, c)
           IN  /\ a.more /\ a.cursor \in Pointer
               /\ Beyond(r, a.cursor) \/ (b = "memory" /\ a.cursor.ms = Ms(r.time))
  <1> DEFINE a == Answer(b, q, c)
             all == Brief(Selected(b, Held(b), q, Now))
  <1>1. a.more
    BY AnswerRows
  <1>2. PICK l \in a.events : /\ a.cursor = [ms |-> Ms(l.time), id |-> l.id]
                              /\ Newer(l, r)
    BY <1>1, AnswerRows
  <1>3. l \in all
    BY AnswerRows
  <1>4. /\ l.id \in Nat /\ l.time \in Nat /\ r.id \in Nat /\ r.time \in Nat
        /\ (b # "memory" => OfMs(Ms(l.time)) = l.time)
    BY <1>3, BriefTypes
  <1>5. a.cursor \in Pointer
    BY <1>1, AnswerCursor
  <1> HIDE DEF a, all
  <1>6. a.cursor.ms = Ms(l.time) /\ a.cursor.id = l.id
    BY <1>2
  <1>7. r.time <= l.time /\ (r.time < l.time \/ r.id < l.id)
    BY <1>2, <1>4 DEF Newer
  <1>8. Ms(r.time) = Ms(l.time) \/ r.time < OfMs(Ms(l.time))
    BY <1>4, <1>7, CutTime
  <1>9. Beyond(r, a.cursor) \/ (b = "memory" /\ a.cursor.ms = Ms(r.time))
    <2>1. CASE b = "memory"
      BY <1>6, <1>8, <2>1 DEF Beyond
    <2>2. CASE b # "memory"
      BY <1>4, <1>6, <1>7, <2>2 DEF Beyond
    <2> QED BY <2>1, <2>2
  <1> QED BY <1>1, <1>5, <1>9 DEF a

-----------------------------------------------------------------------------
(* The client: what it was to get it has got, or it is still ahead.        *)

Excused(r) ==
    \/ pager.q.from # None /\ r.time < pager.q.from
    \/ /\ pager.b = "memory"
       /\ \/ r.id \notin {s.id : s \in Kept}
          \/ \E c \in pager.edges : c.ms = Ms(r.time)

Ahead(r) ==
    /\ pager.more
    /\ r \in Brief(Selected(pager.b, Held(pager.b), pager.q, Now))
    /\ Beyond(r, pager.cursor)

\* A query with its fields and, where it has them, whole bounds.
Bounded(q) ==
    /\ q = [dc |-> q.dc, from |-> q.from, to |-> q.to, text |-> q.text, filters |-> q.filters]
    /\ q.from = None \/ q.from \in Int
    /\ q.to = None \/ q.to \in Int

PagerInv ==
    pager.on =>
        /\ {"b", "q", "cursor", "more", "page", "got", "edges", "start"} \subseteq DOMAIN pager
        /\ pager.b \in Backends
        /\ Bounded(pager.q)
        /\ \A r \in pager.start :
             r.id \in Nat /\ r.time \in Nat /\ (pager.b = "memory" => r.id <= nextID)
        /\ \A y \in pager.got : y.id \in Nat /\ y.time \in Nat
        /\ pager.more => /\ pager.cursor \in Pointer
                         /\ \A y \in pager.got : ~Beyond(y, pager.cursor)
        /\ \A r \in pager.start \ pager.got : Excused(r) \/ Ahead(r)

\* Writes: what is ahead of the client stays there, or the ring overwrites it.
LEMMA SelectedOf ==
    ASSUME NEW b, NEW S, NEW q, NEW now, NEW r \in Brief(Selected(b, S, q, now))
    PROVE  \E s \in S : r.id = s.id /\ \A T : s \in T => r \in Brief(Selected(b, T, q, now))
  <1>1. PICK x \in Selected(b, S, q, now) : r = [id |-> x.id, time |-> x.time]
    BY DEF Brief
  <1>2. PICK s \in S : x = Row(b, s) /\ (b = "memory" => Match(s.ev, q))
    BY DEF Selected
  <1>3. r.id = s.id
    BY <1>1, <1>2 DEF Row
  <1>4. ASSUME NEW T, s \in T PROVE x \in Selected(b, T, q, now)
    BY <1>2, <1>4 DEF Selected
  <1>5. ASSUME NEW T, s \in T PROVE r \in Brief(Selected(b, T, q, now))
    BY <1>1, <1>4, <1>5 DEF Brief
  <1> QED BY <1>3, <1>5

LEMMA WriteKeepsPager ==
    ASSUME HeldInv, PagerInv, [Next]_vars, pager' = pager
    PROVE  PagerInv'
  <1> SUFFICES ASSUME pager.on PROVE PagerInv'
    BY DEF PagerInv
  <1>1. /\ nextID \in Nat /\ nextID' \in Nat /\ nextID <= nextID'
        /\ \A s \in Kept : s \in Kept' \/ s.id \notin {x.id : x \in Kept'}
        /\ \A n \in Nat : n <= nextID /\ n \notin {x.id : x \in Kept}
                          => n \notin {x.id : x \in Kept'}
    BY KeptStep DEF HeldInv, RingInv
  <1>2. table \subseteq table'
    BY TableStep DEF HeldInv
  <1>3. \A r \in pager.start :
           r.id \in Nat /\ r.time \in Nat /\ (pager.b = "memory" => r.id <= nextID)
    BY DEF PagerInv
  <1>4. ASSUME NEW r \in pager.start \ pager.got PROVE Excused(r)' \/ Ahead(r)'
    <2>1. CASE Excused(r)
      <3>1. r.id \in Nat /\ (pager.b = "memory" => r.id <= nextID)
        BY <1>3
      <3> QED BY <1>1, <2>1, <3>1 DEF Excused
    <2>2. CASE Ahead(r)
      <3>1. PICK s \in Held(pager.b) :
               r.id = s.id /\ \A T : s \in T => r \in Brief(Selected(pager.b, T, pager.q, Now))
        BY <2>2, SelectedOf DEF Ahead
      <3>2. CASE pager.b = "memory"
        <4>1. s \in Kept
          BY <3>1, <3>2 DEF Held
        <4>2. CASE s \in Kept'
          <5>1. r \in Brief(Selected(pager.b, Kept', pager.q, Now))
            BY <3>1, <4>2
          <5> QED BY <2>2, <3>2, <5>1 DEF Ahead, Held
        <4>3. CASE s.id \notin {x.id : x \in Kept'}
          BY <3>1, <3>2, <4>3 DEF Excused
        <4> QED BY <1>1, <4>1, <4>2, <4>3
      <3>3. CASE pager.b # "memory"
        <4>1. s \in table'
          BY <1>2, <3>1, <3>3 DEF Held
        <4>2. r \in Brief(Selected(pager.b, table', pager.q, Now))
          BY <3>1, <4>1
        <4> QED BY <2>2, <3>3, <4>2 DEF Ahead, Held
      <3> QED BY <3>2, <3>3
    <2> QED BY <1>4, <2>1, <2>2 DEF PagerInv
  <1>5. \A r \in pager'.start :
           r.id \in Nat /\ r.time \in Nat /\ (pager'.b = "memory" => r.id <= nextID')
    BY <1>1, <1>3
  <1> QED BY <1>4, <1>5 DEF PagerInv

LEMMA FirstPageInv ==
    ASSUME HeldInv, NEW b \in Backends, NEW q, Bounded(q), FirstPage(b, q)
    PROVE  PagerInv'
  <1> DEFINE a == Answer(b, q, None)
             all == Brief(Selected(b, Held(b), q, Now))
  <1>1. pager' = [on |-> TRUE, b |-> b, q |-> q, cursor |-> a.cursor, more |-> a.more,
                  page |-> a.events, got |-> a.events, edges |-> {a.cursor} \ {None},
                  start |-> all]
    BY DEF FirstPage
  <1>2. nextID' = nextID /\ Kept' = Kept /\ table' = table
    BY DEF FirstPage, memVars, Kept, At
  <1>3. a.events \subseteq all
    BY AnswerRows
  <1>4. \A r \in all : r.id \in Nat /\ r.time \in Nat /\ (b = "memory" => r.id <= nextID)
    BY BriefTypes
  <1>5. a.more => a.cursor \in Pointer /\ \A x \in a.events : ~Beyond(x, a.cursor)
    BY AnswerCursor
  <1>6. \A r \in all \ a.events :
           /\ a.more /\ a.cursor \in Pointer
           /\ Beyond(r, a.cursor) \/ (b = "memory" /\ a.cursor.ms = Ms(r.time))
    BY AnswerLeaves
  <1>7. /\ pager'.b = b /\ pager'.q = q /\ pager'.cursor = a.cursor /\ pager'.more = a.more
        /\ pager'.got = a.events /\ pager'.edges = {a.cursor} \ {None} /\ pager'.start = all
        /\ {"b", "q", "cursor", "more", "page", "got", "edges", "start"} \subseteq DOMAIN pager'
    BY <1>1
  <1>8. None \notin Pointer
    BY NoneAssumption DEF Pointer
  <1>9. Brief(Selected(pager'.b, Held(pager.b)', pager'.q, Now)) = all
    BY <1>2, <1>7 DEF Held
  <1> HIDE DEF a, all
  <1>10. ASSUME NEW r \in pager'.start \ pager'.got PROVE Excused(r)' \/ Ahead(r)'
    <2>1. r \in all \ a.events
      BY <1>7
    <2>2. /\ a.more /\ a.cursor \in Pointer
          /\ Beyond(r, a.cursor) \/ (b = "memory" /\ a.cursor.ms = Ms(r.time))
      BY <1>6, <2>1
    <2>3. CASE Beyond(r, a.cursor)
      BY <1>7, <1>9, <2>1, <2>2, <2>3 DEF Ahead
    <2>4. CASE b = "memory" /\ a.cursor.ms = Ms(r.time)
      BY <1>7, <1>8, <2>2, <2>4 DEF Excused
    <2> QED BY <2>2, <2>3, <2>4
  <1> QED BY <1>2, <1>3, <1>4, <1>5, <1>7, <1>10 DEF PagerInv

\* A range that moves on selects what it has selected, but for what it has passed.
LEMMA MovedOn ==
    ASSUME NEW q, Bounded(q), NEW d \in Nat
    PROVE  /\ Bounded(Moved(q, d))
           /\ \A t \in Int : q.from # None /\ t < q.from
                            => Moved(q, d).from # None /\ t < Moved(q, d).from
           /\ \A b \in Backends : \A S : Proper(S) =>
                \A r \in Brief(Selected(b, S, q, Now)) :
                    \/ r \in Brief(Selected(b, S, Moved(q, d), Now))
                    \/ Moved(q, d).from # None /\ r.time < Moved(q, d).from
  <1> DEFINE p == Moved(q, d)
  <1>1. /\ p.dc = q.dc /\ p.text = q.text /\ p.filters = q.filters
        /\ p.from = IF q.from = None THEN None ELSE q.from + d
        /\ p.to = IF q.to = None THEN None ELSE q.to + d
        /\ p = [dc |-> p.dc, from |-> p.from, to |-> p.to, text |-> p.text, filters |-> p.filters]
    <2> DEFINE from == IF q.from = None THEN None ELSE q.from + d
               to == IF q.to = None THEN None ELSE q.to + d
    <2>1. p = [q EXCEPT !.from = from, !.to = to]
      BY DEF Moved
    <2>2. q = [dc |-> q.dc, from |-> q.from, to |-> q.to, text |-> q.text, filters |-> q.filters]
      BY DEF Bounded
    <2> HIDE DEF p, from, to
    <2>3. p = [dc |-> q.dc, from |-> from, to |-> to, text |-> q.text, filters |-> q.filters]
      BY <2>1, <2>2
    <2>4. /\ p.dc = q.dc /\ p.text = q.text /\ p.filters = q.filters /\ p.from = from /\ p.to = to
      BY <2>3
    <2> QED BY <2>3, <2>4 DEF from, to
  <1> HIDE DEF p
  <1>2. Bounded(p)
    BY <1>1 DEF Bounded
  <1>3. ASSUME NEW t \in Int, q.from # None, t < q.from PROVE p.from # None /\ t < p.from
    BY <1>1, <1>3, NoneAssumption DEF Bounded
  <1>4. ASSUME NEW b \in Backends, NEW S, Proper(S), NEW r \in Brief(Selected(b, S, q, Now)),
               p.from = None \/ ~(r.time < p.from)
        PROVE  r \in Brief(Selected(b, S, p, Now))
    <2>1. PICK x \in Selected(b, S, q, Now) : r = [id |-> x.id, time |-> x.time]
      BY DEF Brief
    <2>2. x.time \in Nat
      BY <1>4, SelectedProper DEF ProperRows
    <2>3. p.from = None \/ x.time >= p.from
      BY <1>2, <1>4, <2>1, <2>2 DEF Bounded
    <2>4. CASE b = "memory"
      <3>1. PICK s \in S : x = Row(b, s) /\ Match(s.ev, q)
        BY <2>4 DEF Selected
      <3>2. x.time = s.ev.time
        BY <2>4, <3>1 DEF Row, StoredTime
      <3>3. q.to = None \/ x.time <= q.to
        BY <3>1, <3>2 DEF Match
      <3>4. p.to = None \/ x.time <= p.to
        BY <1>1, <2>2, <3>3, NoneAssumption DEF Bounded
      <3>5. Match(s.ev, p)
        BY <1>1, <2>3, <3>1, <3>2, <3>4 DEF Match
      <3>6. x \in Selected(b, S, p, Now)
        BY <2>4, <3>1, <3>5 DEF Selected
      <3> QED BY <2>1, <3>6 DEF Brief
    <2>5. CASE b # "memory"
      <3>1. x \in {Row(b, s) : s \in S} /\ Where(x, q, Now)
        BY <2>5 DEF Selected
      <3>2. x.time >= From(p)
        BY <2>2, <2>3, MinTimeAssumption DEF From
      <3>3. x.time <= IF q.to = None THEN Now ELSE q.to
        BY <3>1 DEF Where
      <3>4. x.time <= IF p.to = None THEN Now ELSE p.to
        BY <1>1, <2>2, <3>3, NoneAssumption DEF Bounded
      <3>5. Filtered(x, p) /\ p.text \in x.words \cup {None}
        BY <1>1, <3>1 DEF Where, Filtered
      <3>6. x \in Selected(b, S, p, Now)
        BY <2>5, <3>1, <3>2, <3>4, <3>5 DEF Selected, Where
      <3> QED BY <2>1, <3>6 DEF Brief
    <2> QED BY <2>4, <2>5
  <1> QED BY <1>2, <1>3, <1>4 DEF p

LEMMA NextPageInv ==
    ASSUME HeldInv, PagerInv, NEW d \in Moves, NextPage(d)
    PROVE  PagerInv' /\ \A x \in pager'.page, y \in pager.got : Newer(y, x)
  <1> DEFINE q == Moved(pager.q, d)
             a == Answer(pager.b, q, pager.cursor)
             all == Brief(Selected(pager.b, Held(pager.b), q, Now))
  <1>1. pager.on /\ pager.more
    BY DEF NextPage
  <1>2. /\ {"b", "q", "cursor", "more", "page", "got", "edges", "start"} \subseteq DOMAIN pager
        /\ pager.b \in Backends /\ pager.cursor \in Pointer /\ Bounded(pager.q)
        /\ \A r \in pager.start :
             r.id \in Nat /\ r.time \in Nat /\ (pager.b = "memory" => r.id <= nextID)
        /\ \A y \in pager.got : y.id \in Nat /\ y.time \in Nat /\ ~Beyond(y, pager.cursor)
        /\ \A r \in pager.start \ pager.got : Excused(r) \/ Ahead(r)
    BY <1>1 DEF PagerInv
  <1>0. d \in Nat
    BY ReadsAssumption
  <1>m. /\ Bounded(q)
        /\ \A t \in Int : pager.q.from # None /\ t < pager.q.from => q.from # None /\ t < q.from
        /\ \A r \in Brief(Selected(pager.b, Held(pager.b), pager.q, Now)) :
              r \in all \/ (q.from # None /\ r.time < q.from)
    BY <1>0, <1>2, MovedOn, HeldProper
  <1> HIDE DEF q
  <1>3. pager' = [pager EXCEPT !.q = q, !.cursor = a.cursor, !.more = a.more, !.page = a.events,
                               !.got = @ \cup a.events,
                               !.edges = @ \cup ({a.cursor} \ {None})]
    BY DEF NextPage, q
  <1>4. nextID' = nextID /\ Kept' = Kept /\ table' = table
    BY DEF NextPage, memVars, Kept, At
  <1>5. None \notin Pointer /\ pager.cursor # None
    BY <1>2, NoneAssumption DEF Pointer
  <1>6. a.events \subseteq {r \in all : Beyond(r, pager.cursor)}
    BY <1>2, <1>5, AnswerRows
  <1>7. \A r \in all : r.id \in Nat /\ r.time \in Nat
    BY <1>2, BriefTypes
  <1>8. a.more => /\ a.cursor \in Pointer
                  /\ \A x \in a.events : ~Beyond(x, a.cursor)
                  /\ \A y \in pager.got : ~Beyond(y, a.cursor)
    BY <1>2, <1>5, AnswerCursor
  <1>9. \A r \in all \ a.events : Beyond(r, pager.cursor) =>
           /\ a.more /\ a.cursor \in Pointer
           /\ Beyond(r, a.cursor) \/ (pager.b = "memory" /\ a.cursor.ms = Ms(r.time))
    BY <1>2, AnswerLeaves
  <1> HIDE DEF a
  <1>10. /\ pager'.on = pager.on /\ pager'.b = pager.b /\ pager'.q = q
         /\ pager'.cursor = a.cursor /\ pager'.more = a.more /\ pager'.page = a.events
         /\ pager'.got = pager.got \cup a.events /\ pager'.start = pager.start
         /\ pager'.edges = pager.edges \cup ({a.cursor} \ {None})
         /\ DOMAIN pager' = DOMAIN pager
    BY <1>2, <1>3
  <1>11. Brief(Selected(pager'.b, Held(pager.b)', pager'.q, Now)) = all
    BY <1>4, <1>10 DEF Held
  <1> HIDE DEF all
  <1>12. ASSUME NEW r \in pager'.start \ pager'.got PROVE Excused(r)' \/ Ahead(r)'
    <2>1. r \in pager.start \ pager.got /\ r \notin a.events
      BY <1>10
    <2>2. CASE Excused(r)
      <3>1. r.time \in Nat
        BY <1>2, <2>1
      <3> QED BY <1>4, <1>10, <1>m, <2>2, <3>1 DEF Excused
    <2>3. CASE Ahead(r) /\ q.from # None /\ r.time < q.from
      BY <1>10, <2>3 DEF Excused
    <2>4. CASE Ahead(r) /\ r \in all
      <3>1. r \in all /\ Beyond(r, pager.cursor)
        BY <2>4 DEF Ahead
      <3>2. /\ a.more /\ a.cursor \in Pointer
            /\ Beyond(r, a.cursor) \/ (pager.b = "memory" /\ a.cursor.ms = Ms(r.time))
        BY <1>9, <2>1, <3>1
      <3>3. CASE Beyond(r, a.cursor)
        BY <1>10, <1>11, <3>1, <3>2, <3>3 DEF Ahead
      <3>4. CASE pager.b = "memory" /\ a.cursor.ms = Ms(r.time)
        BY <1>5, <1>10, <3>2, <3>4 DEF Excused
      <3> QED BY <3>2, <3>3, <3>4
    <2> QED BY <1>2, <1>m, <2>1, <2>2, <2>3, <2>4 DEF Ahead
  <1>13. PagerInv'
    BY <1>2, <1>m, <1>4, <1>6, <1>7, <1>8, <1>10, <1>12 DEF PagerInv
  <1>14. ASSUME NEW x \in pager'.page, NEW y \in pager.got PROVE Newer(y, x)
    <2>1. x.id \in Nat /\ x.time \in Nat /\ Beyond(x, pager.cursor)
      BY <1>6, <1>7, <1>10
    <2>2. y.id \in Nat /\ y.time \in Nat /\ ~Beyond(y, pager.cursor)
      BY <1>2
    <2>3. pager.cursor.ms \in Nat /\ pager.cursor.id \in Nat /\ OfMs(pager.cursor.ms) \in Nat
      BY <1>2 DEF Pointer, OfMs, Milli
    <2> QED BY <2>1, <2>2, <2>3 DEF Beyond, Newer
  <1> QED BY <1>13, <1>14

LEMMA PagerStep ==
    HeldInv /\ PagerInv /\ [Next]_vars =>
        PagerInv' /\ [pager.on /\ pager'.on =>
                        \A x \in pager'.page, y \in pager.got : Newer(y, x)]_pager
  <1> SUFFICES ASSUME HeldInv, PagerInv, [Next]_vars
               PROVE  PagerInv' /\ [pager.on /\ pager'.on =>
                        \A x \in pager'.page, y \in pager.got : Newer(y, x)]_pager
    OBVIOUS
  <1>1. ASSUME NEW b \in Backends, NEW q \in PageQueries, FirstPage(b, q)
        PROVE  PagerInv' /\ ~pager.on
    <2>1. Bounded(q)
      BY ReadsAssumption DEF Bounded
    <2> QED BY <1>1, <2>1, FirstPageInv DEF FirstPage
  <1>2. ASSUME NEW d \in Moves, NextPage(d)
        PROVE  PagerInv' /\ \A x \in pager'.page, y \in pager.got : Newer(y, x)
    BY <1>2, NextPageInv
  <1>3. (\E batch \in Batches(Event) : Store(batch)) \/ (\E batch \in Batches(Instance) : Upsert(batch))
        \/ MemStep \/ UNCHANGED vars => pager' = pager
    BY DEF Store, Upsert, MemStep, vars
  <1>4. CASE pager' = pager
    BY <1>4, WriteKeepsPager
  <1> QED BY <1>1, <1>2, <1>3, <1>4 DEF Next

LEMMA HeldInvariant == Spec => []HeldInv
  <1>1. Init => HeldInv
    <2>1. ASSUME Init PROVE TableInv
      BY <2>1, FS_EmptySet DEF Init, TableInv, Proper
    <2> QED BY <2>1, RingInvInit DEF Init, HeldInv
  <1>2. HeldInv /\ [Next]_vars => HeldInv'
    BY MemSteps, RingInvStep, TableStep DEF HeldInv
  <1> QED BY <1>1, <1>2, PTL DEF Spec

LEMMA PagerInvariant == Spec => []PagerInv
  <1>1. Init => PagerInv
    BY DEF Init, PagerInv
  <1> QED BY <1>1, PagerStep, HeldInvariant, PTL DEF Spec

\* "continue after this position": for every limit, backend and interleaving of
\* writes with the pages, a page is older throughout than all that was given
\* before it, so nothing comes twice.
THEOREM PagesNeverRepeat == Spec => PagesDescend
  BY PagerStep, HeldInvariant, PagerInvariant, PTL DEF Spec, PagesDescend

\* Following the cursors to the end loses nothing of what was there at the start
\* but what the range has moved past, and on the ring also what was overwritten or
\* shares the millisecond of a cursor.
THEOREM PagesLoseNothing == Spec => []PagesComplete
  <1>1. PagerInv => PagesComplete
    BY DEF PagerInv, PagesComplete, Excused, Ahead
  <1> QED BY <1>1, PagerInvariant, PTL

-----------------------------------------------------------------------------
(* Facets.                                                                 *)

\* O is a strict linear order on V.
Linear(V, O) ==
    /\ \A v \in V : <<v, v>> \notin O
    /\ \A u, v, w \in V : <<u, v>> \in O /\ <<v, w>> \in O => <<u, w>> \in O
    /\ \A v, w \in V : v = w \/ <<v, w>> \in O \/ <<w, v>> \in O

\* The elements of V with fewer than n before them.
Firsts(V, O, n) == {v \in V : Cardinality({w \in V : <<w, v>> \in O}) < n}

\* They come before the others, and if there are others there are n of them.
LEMMA FirstsRows ==
    ASSUME NEW V, IsFiniteSet(V), NEW O, Linear(V, O), NEW n \in Nat
    PROVE  /\ \A p \in Firsts(V, O, n), v \in V \ Firsts(V, O, n) : <<p, v>> \in O
           /\ V # Firsts(V, O, n) => Cardinality(Firsts(V, O, n)) = n
  <1> DEFINE Above(v) == {w \in V : <<w, v>> \in O}
             P == Firsts(V, O, n)
  <1>0. P = {v \in V : Cardinality(Above(v)) < n} /\ P \subseteq V
    BY DEF Firsts
  <1>1. \A v \in V : IsFiniteSet(Above(v)) /\ Cardinality(Above(v)) \in Nat
    BY FS_Subset, FS_CardinalityType
  <1>p. IsFiniteSet(P) /\ Cardinality(P) \in Nat
    BY <1>0, FS_Subset, FS_CardinalityType
  <1>2. \A v, w \in V : <<v, w>> \in O => Above(v) \subseteq Above(w) /\ v \in Above(w) /\ v \notin Above(v)
    BY DEF Linear
  <1> HIDE DEF P
  <1>3. \A v, w \in V : <<v, w>> \in O => Cardinality(Above(v)) < Cardinality(Above(w))
    <2> SUFFICES ASSUME NEW v \in V, NEW w \in V, <<v, w>> \in O
                 PROVE  Cardinality(Above(v)) < Cardinality(Above(w))
      OBVIOUS
    <2>1. Above(v) \in SUBSET Above(w) /\ Above(w) # Above(v)
      BY <1>2
    <2>2. IsFiniteSet(Above(w)) /\ Cardinality(Above(w)) \in Nat /\ Cardinality(Above(v)) \in Nat
      BY <1>1
    <2> HIDE DEF Above
    <2>3. Cardinality(Above(v)) <= Cardinality(Above(w)) /\ Cardinality(Above(w)) # Cardinality(Above(v))
      BY <2>1, <2>2, FS_Subset
    <2> QED BY <2>2, <2>3
  <1>4. ASSUME NEW p \in P, NEW v \in V \ P PROVE <<p, v>> \in O
    <2>1. p \in V /\ v \in V /\ p # v /\ Cardinality(Above(p)) < n /\ ~(Cardinality(Above(v)) < n)
      BY <1>0, <1>4
    <2> HIDE DEF Above
    <2>2. ~(Cardinality(Above(v)) < Cardinality(Above(p)))
      BY <1>1, <2>1
    <2> QED BY <1>3, <2>1, <2>2 DEF Linear
  <1>5. ASSUME V # P PROVE Cardinality(P) = n
    <2> DEFINE Sizes == {Cardinality(Above(v)) : v \in V \ P}
    <2>1. Sizes \in SUBSET Nat /\ Sizes # {}
      BY <1>0, <1>1, <1>5
    <2>2. PICK m \in Sizes : \A k \in Sizes : m <= k
      BY <2>1, Smallest
    <2>3. PICK v \in V \ P : m = Cardinality(Above(v))
      BY <2>2
    <2>4. ASSUME NEW w \in Above(v) PROVE w \in P
      <3>1. w \in V /\ <<w, v>> \in O
        BY <2>4
      <3>2. Cardinality(Above(w)) < m
        BY <1>3, <2>3, <3>1
      <3>3. SUFFICES ASSUME w \notin P PROVE FALSE
        OBVIOUS
      <3>4. Cardinality(Above(w)) \in Sizes
        BY <3>1, <3>3
      <3> HIDE DEF Sizes, Above
      <3> QED BY <1>1, <2>2, <2>3, <3>1, <3>2, <3>4
    <2>5. Above(v) = P
      BY <1>0, <1>4, <2>4
    <2>6. Cardinality(P) >= n
      <3>1. ~(Cardinality(Above(v)) < n)
        BY <1>0
      <3> HIDE DEF Above
      <3> QED BY <1>1, <2>5, <3>1
    <2> HIDE DEF Sizes
    <2>7. CASE P = {}
      <3>1. Cardinality(P) = 0
        BY <2>7, FS_EmptySet
      <3> QED BY <2>6, <3>1
    <2>8. CASE P # {}
      <3> DEFINE Holes == {n - Cardinality(Above(p)) : p \in P}
      <3>1. \A p \in P : p \in V /\ Cardinality(Above(p)) \in Nat /\ Cardinality(Above(p)) < n
        BY <1>0, <1>1
      <3>2. Holes \in SUBSET Nat /\ Holes # {}
        <4> HIDE DEF Above
        <4> QED BY <2>8, <3>1
      <3>3. PICK h \in Holes : \A k \in Holes : h <= k
        BY <3>2, Smallest
      <3>4. PICK p \in P : h = n - Cardinality(Above(p))
        BY <3>3
      <3>5. ASSUME NEW x \in P PROVE x \in Above(p) \cup {p}
        <4>1. x \in V /\ p \in V /\ Cardinality(Above(x)) \in Nat /\ Cardinality(Above(p)) \in Nat
          BY <3>1
        <4>2. n - Cardinality(Above(x)) \in Holes
          OBVIOUS
        <4>3. ~(Cardinality(Above(p)) < Cardinality(Above(x)))
          <5> HIDE DEF Above, Holes
          <5> QED BY <3>3, <3>4, <4>1, <4>2
        <4>4. x = p \/ <<x, p>> \in O
          <5> HIDE DEF Above
          <5> QED BY <1>3, <4>1, <4>3 DEF Linear
        <4> QED BY <4>1, <4>4
      <3>6. p \in V /\ p \notin Above(p)
        BY <1>0 DEF Linear
      <3>7. IsFiniteSet(Above(p)) /\ Cardinality(Above(p)) \in Nat /\ Cardinality(Above(p)) < n
        BY <1>1, <3>1
      <3> HIDE DEF Above, Holes
      <3>8. IsFiniteSet(Above(p) \cup {p}) /\ Cardinality(Above(p) \cup {p}) = Cardinality(Above(p)) + 1
        BY <3>6, <3>7, FS_AddElement
      <3>9. Cardinality(P) <= Cardinality(Above(p) \cup {p})
        BY <3>5, <3>8, FS_Subset
      <3> QED BY <1>p, <2>6, <3>7, <3>8, <3>9
    <2> QED BY <2>7, <2>8
  <1> QED BY <1>0, <1>4, <1>5 DEF P

\* The values of a field that the rows R have.
ValuesOf(R, field) == UNION {FieldValues(r, field) : r \in R}

LEMMA FacetNames ==
    ASSUME NEW b \in Backends, NEW S, Proper(S), NEW q, NEW now,
           NEW field \in {"service", "to", "tag"}
    PROVE  LET values == ValuesOf(Selected(b, S, q, now), field)
           IN  IsFiniteSet(values) /\ values \subseteq Names
  <1> DEFINE R == Selected(b, S, q, now)
             sets == {FieldValues(r, field) : r \in R}
             f == [r \in R |-> FieldValues(r, field)]
  <1>1. IsFiniteSet(R)
    BY SelectedProper DEF ProperRows
  <1>2. f \in Surjection(R, sets)
    BY DEF Surjection
  <1>3. ASSUME NEW r \in R
        PROVE  IsFiniteSet(FieldValues(r, field)) /\ FieldValues(r, field) \subseteq Names
    <2>1. PICK s \in S : r = Row(b, s)
      BY DEF Selected
    <2>2. r.val = s.ev.val /\ r.tags = s.ev.tags /\ s.ev \in Event
      BY <2>1 DEF Row, Proper
    <2>3. CASE field = "tag"
      BY <2>2, <2>3, EventAssumption DEF FieldValues
    <2>4. CASE field # "tag"
      <3>1. FieldValues(r, field) = {r.val[field]} \ {""}
        BY <2>4 DEF FieldValues
      <3>2. IsFiniteSet({r.val[field]})
        BY FS_Singleton
      <3>3. r.val[field] \in Names
        BY <2>2, <2>4, EventAssumption
      <3> QED BY <3>1, <3>2, <3>3, FS_Subset
    <2> QED BY <2>3, <2>4
  <1> HIDE DEF R, f
  <1>4. IsFiniteSet(sets)
    <2> HIDE DEF sets
    <2> QED BY <1>1, <1>2, FS_Surjection
  <1>5. \A T \in sets : IsFiniteSet(T)
    BY <1>3
  <1>6. UNION sets \subseteq Names
    BY <1>3
  <1>7. IsFiniteSet(UNION sets)
    <2> HIDE DEF sets
    <2> QED BY <1>4, <1>5, FS_UNION
  <1> QED BY <1>6, <1>7 DEF R, ValuesOf

\* A sample that is not full is all there is.
LEMMA SampleIsAll ==
    ASSUME NEW b \in Backends, NEW R, IsFiniteSet(R),
           NEW T \in (IF b = "memory" THEN {R} ELSE Samples(R)), ~Sampled(b, T)
    PROVE  T = R
  <1>1. CASE b = "memory"
    BY <1>1
  <1>2. CASE b # "memory"
    <2>1. b \in Databases
      BY <1>2 DEF Backends
    <2>2. /\ T \in SUBSET R
          /\ Cardinality(T) = IF Cardinality(R) < Sample THEN Cardinality(R) ELSE Sample
      BY <1>2 DEF Samples
    <2>3. Cardinality(R) \in Nat /\ Cardinality(T) \in Nat /\ Sample \in Nat
      BY <2>2, FS_Subset, FS_CardinalityType, UnitsAssumption
    <2>4. ~(Cardinality(T) >= Sample)
      BY <2>1 DEF Sampled
    <2>5. Cardinality(T) = Cardinality(R)
      BY <2>2, <2>3, <2>4
    <2> QED BY <2>2, <2>5, FS_Subset
  <1> QED BY <1>1, <1>2

LEMMA FacetTop ==
    ASSUME NEW R, IsFiniteSet(R), NEW field, NEW n \in Int,
           IsFiniteSet(ValuesOf(R, field)), ValuesOf(R, field) \subseteq Names
    PROVE  LET top == FacetValues(R, field, n)
               listed == {p[1] : p \in top}
           IN  /\ \A p \in top : p[2] = Count(R, field, p[1])
               /\ \A v \in ValuesOf(R, field) \ listed :
                    /\ Cardinality(listed) = FacetLimit(n)
                    /\ \A p \in top : Count(R, field, v) <= p[2]
  <1> DEFINE V == ValuesOf(R, field)
             top == FacetValues(R, field, n)
             listed == {p[1] : p \in top}
             beats(w, v) == \/ Count(R, field, w) > Count(R, field, v)
                            \/ Count(R, field, w) = Count(R, field, v) /\ Rank[w] < Rank[v]
             O == {p \in V \X V : beats(p[1], p[2])}
             F == Firsts(V, O, FacetLimit(n))
  <1>1. \A v : Count(R, field, v) \in Nat
    <2> TAKE v
    <2>1. {r \in R : v \in FieldValues(r, field)} \in SUBSET R
      OBVIOUS
    <2> QED BY <2>1, FS_Subset, FS_CardinalityType DEF Count
  <1>2. FacetLimit(n) \in Nat
    BY FacetAssumption DEF FacetLimit
  <1>3. \A v, w \in V : <<w, v>> \in O <=> beats(w, v)
    <2> HIDE DEF V
    <2> QED OBVIOUS
  <1>4. top = {<<v, Count(R, field, v)>> : v \in F}
    <2>1. top = {<<v, Count(R, field, v)>> :
                   v \in {v \in V : Cardinality({w \in V : beats(w, v)}) < FacetLimit(n)}}
      BY DEF FacetValues, Top, ValuesOf
    <2>2. \A v \in V : {w \in V : beats(w, v)} = {w \in V : <<w, v>> \in O}
      <3> HIDE DEF V, O, beats
      <3> QED BY <1>3
    <2>3. F = {v \in V : Cardinality({w \in V : beats(w, v)}) < FacetLimit(n)}
      <3> HIDE DEF V, O, beats
      <3> QED BY <2>2 DEF Firsts
    <2> HIDE DEF V, O, beats, F
    <2> QED BY <2>1, <2>3
  <1>5. Linear(V, O)
    <2>1. V \subseteq Names /\ \A v \in V : Rank[v] \in Nat /\ Count(R, field, v) \in Nat
      BY <1>1, RankAssumption
    <2>2. \A v, w \in V : Rank[v] = Rank[w] => v = w
      BY <2>1, RankAssumption
    <2> HIDE DEF V, O
    <2>3. \A v \in V : <<v, v>> \notin O
      BY <1>3, <2>1
    <2>4. \A u, v, w \in V : <<u, v>> \in O /\ <<v, w>> \in O => <<u, w>> \in O
      BY <1>3, <2>1
    <2>5. \A v, w \in V : v = w \/ <<v, w>> \in O \/ <<w, v>> \in O
      <3> TAKE v, w \in V
      <3>1. v = w \/ Rank[v] # Rank[w]
        BY <2>2
      <3>2. /\ Rank[v] \in Nat /\ Rank[w] \in Nat
            /\ Count(R, field, v) \in Nat /\ Count(R, field, w) \in Nat
        BY <2>1
      <3>3. v = w \/ beats(v, w) \/ beats(w, v)
        BY <3>1, <3>2
      <3> QED BY <1>3, <3>3
    <2> QED BY <2>3, <2>4, <2>5 DEF Linear
  <1>6. /\ \A p \in F, v \in V \ F : <<p, v>> \in O
        /\ V # F => Cardinality(F) = FacetLimit(n)
    <2> HIDE DEF V, O
    <2> QED BY <1>2, <1>5, FirstsRows DEF V
  <1>7. F \subseteq V
    BY DEF Firsts
  <1> HIDE DEF F, V, O, top
  <1>8. listed = F
    <2>1. ASSUME NEW v \in F PROVE v \in listed
      <3>1. <<v, Count(R, field, v)>> \in top /\ <<v, Count(R, field, v)>>[1] = v
        BY <1>4
      <3> QED BY <3>1
    <2>2. \A p \in top : p[1] \in F
      BY <1>4
    <2> QED BY <2>1, <2>2
  <1>9. \A p \in top : p[1] \in F /\ p[2] = Count(R, field, p[1])
    BY <1>4
  <1>10. ASSUME NEW v \in V \ listed
         PROVE  /\ Cardinality(listed) = FacetLimit(n)
                /\ \A p \in top : Count(R, field, v) <= p[2]
    <2>1. v \in V \ F
      BY <1>8, <1>10
    <2>2. Cardinality(listed) = FacetLimit(n)
      BY <1>6, <1>8, <2>1
    <2>3. ASSUME NEW p \in top PROVE Count(R, field, v) <= p[2]
      <3>1. beats(p[1], v)
        BY <1>3, <1>6, <1>7, <1>9, <2>1
      <3> QED BY <1>1, <1>9, <3>1
    <2> QED BY <2>2, <2>3
  <1> QED BY <1>9, <1>10 DEF V, top

\* A facet that is not marked as sampled has the counts of all selected events,
\* on every backend, and lists the most frequent values.
THEOREM FacetsTellSamples == Spec => []UnsampledComplete
  <1>1. HeldInv => UnsampledComplete
    <2> SUFFICES ASSUME HeldInv, NEW b \in Backends, NEW q \in Ranges,
                        NEW field \in {"service", "to", "tag"},
                        NEW T \in (IF b = "memory" THEN {Selected(b, Held(b), q, Now)}
                                   ELSE Samples(Selected(b, Held(b), q, Now))),
                        ~Sampled(b, T)
                 PROVE  LET rows == Selected(b, Held(b), q, Now)
                            top == FacetValues(T, field, PageSize)
                            listed == {p[1] : p \in top}
                        IN  /\ \A p \in top : p[2] = Count(rows, field, p[1])
                            /\ \A v \in (UNION {FieldValues(r, field) : r \in rows}) \ listed :
                                 /\ Cardinality(listed) = FacetLimit(PageSize)
                                 /\ \A p \in top : Count(rows, field, v) <= p[2]
      BY DEF UnsampledComplete
    <2> DEFINE R == Selected(b, Held(b), q, Now)
    <2>1. Proper(Held(b)) /\ IsFiniteSet(R)
      BY HeldProper, SelectedProper DEF ProperRows
    <2>2. IsFiniteSet(ValuesOf(R, field)) /\ ValuesOf(R, field) \subseteq Names
      BY <2>1, FacetNames
    <2>3. T = R
      BY <2>1, SampleIsAll
    <2>4. ValuesOf(R, field) = UNION {FieldValues(r, field) : r \in R}
      BY DEF ValuesOf
    <2> QED BY <2>1, <2>2, <2>3, <2>4, FacetTop, ReadsAssumption
  <1> QED BY <1>1, HeldInvariant, PTL

-----------------------------------------------------------------------------
(* Suggestions.                                                            *)

\* Cutting one of two lists first changes nothing, if enough of it is left.
LEMMA FirstsAgain ==
    ASSUME NEW V, NEW L, IsFiniteSet(V), IsFiniteSet(L), NEW O, Linear(V \cup L, O),
           NEW n \in Nat, NEW m \in Nat, n <= m
    PROVE  Firsts(Firsts(V, O, m) \cup L, O, n) = Firsts(V \cup L, O, n)
  <1> DEFINE W == V \cup L
             P == Firsts(V, O, m)
             U == P \cup L
             Above(S, v) == {w \in S : <<w, v>> \in O}
  <1>1. IsFiniteSet(W) /\ P \subseteq V /\ U \subseteq W
    BY FS_Union DEF Firsts
  <1>2. \A S \in SUBSET W : \A v : IsFiniteSet(Above(S, v)) /\ Cardinality(Above(S, v)) \in Nat
    <2> TAKE S \in SUBSET W
    <2> TAKE v
    <2>1. Above(S, v) \in SUBSET W
      OBVIOUS
    <2> HIDE DEF Above, W
    <2> QED BY <1>1, <2>1, FS_Subset, FS_CardinalityType
  <1>3. \A S \in SUBSET W : \A T \in SUBSET S : \A v :
            Cardinality(Above(T, v)) <= Cardinality(Above(S, v))
    <2> TAKE S \in SUBSET W
    <2> TAKE T \in SUBSET S
    <2> TAKE v
    <2>1. Above(T, v) \in SUBSET Above(S, v)
      OBVIOUS
    <2> HIDE DEF Above, W
    <2> QED BY <1>2, <2>1, FS_Subset
  <1>4. /\ \A v : v \in P <=> v \in V /\ Cardinality(Above(V, v)) < m
        /\ \A v : v \in Firsts(U, O, n) <=> v \in U /\ Cardinality(Above(U, v)) < n
        /\ \A v : v \in Firsts(W, O, n) <=> v \in W /\ Cardinality(Above(W, v)) < n
    BY DEF Firsts
  <1>5. Linear(V, O)
    BY DEF Linear
  <1>6. \A p \in P, v \in V \ P : <<p, v>> \in O
    BY <1>5, FirstsRows
  <1>7. V # P => Cardinality(P) = m
    BY <1>5, FirstsRows
  <1>8. IsFiniteSet(P)
    BY <1>1, FS_Subset
  <1> HIDE DEF P
  <1>9. ASSUME NEW v \in Firsts(W, O, n) PROVE v \in Firsts(U, O, n)
    <2>1. v \in W /\ Cardinality(Above(W, v)) < n
      BY <1>4
    <2>2. Cardinality(Above(U, v)) < n
      <3> HIDE DEF Above, W, U
      <3> QED BY <1>1, <1>2, <1>3, <2>1
    <2>3. ASSUME v \in V PROVE v \in P
      <3>1. V \in SUBSET W
        OBVIOUS
      <3> HIDE DEF Above, W
      <3>2. Cardinality(Above(V, v)) <= Cardinality(Above(W, v)) /\ Cardinality(Above(V, v)) \in Nat
            /\ Cardinality(Above(W, v)) \in Nat
        BY <1>1, <1>2, <1>3, <3>1
      <3> QED BY <1>4, <2>1, <2>3, <3>2
    <2>4. v \in U
      BY <2>1, <2>3
    <2> QED BY <1>4, <2>2, <2>4
  <1>10. ASSUME NEW v \in Firsts(U, O, n), v \notin Firsts(W, O, n) PROVE FALSE
    <2>1. v \in U /\ v \in W /\ Cardinality(Above(U, v)) < n /\ ~(Cardinality(Above(W, v)) < n)
      BY <1>1, <1>4, <1>10
    <2>2. PICK w \in W : <<w, v>> \in O /\ w \notin U
      <3>1. Above(U, v) # Above(W, v)
        BY <2>1
      <3> QED BY <1>1, <3>1
    <2>3. w \in V \ P
      BY <2>2
    <2>4. \A p \in P : <<p, v>> \in O
      BY <1>1, <1>6, <2>1, <2>2, <2>3 DEF Linear
    <2>5. P \in SUBSET Above(U, v)
      BY <2>4
    <2>6. Cardinality(P) = m
      BY <1>7, <2>3
    <2> HIDE DEF Above, W, U
    <2>7. Cardinality(P) <= Cardinality(Above(U, v)) /\ Cardinality(Above(U, v)) \in Nat
      BY <1>1, <1>2, <2>5, FS_Subset
    <2> QED BY <2>1, <2>6, <2>7
  <1> HIDE DEF U, W
  <1>11. Firsts(U, O, n) = Firsts(W, O, n)
    BY <1>9, <1>10
  <1> QED BY <1>11 DEF U, W, P

\* The records of a table between writes are finitely many, with names for names.
LEMMA RecordsNamed ==
    ASSUME RegistryInv, mu = "free", NEW b \in Databases
    PROVE  IsFiniteSet(Records(b)) /\ \A in \in Records(b) : in.val["service"] \in Names
  <1> DEFINE Z == {registry[b][k] : k \in PrimaryKeys}
             f == [k \in Keys |-> PrimaryKey(k)]
             g == [k \in PrimaryKeys |-> registry[b][k]]
  <1>1. IsFiniteSet(PrimaryKeys)
    <2>1. f \in Surjection(Keys, PrimaryKeys)
      BY DEF Surjection, PrimaryKeys
    <2> HIDE DEF f
    <2> QED BY <2>1, FS_Surjection, InstanceAssumption
  <1>2. IsFiniteSet(Z)
    <2>1. g \in Surjection(PrimaryKeys, Z)
      BY DEF Surjection
    <2> HIDE DEF g, Z
    <2> QED BY <1>1, <2>1, FS_Surjection
  <1>3. Records(b) \in SUBSET Z
    BY DEF Records
  <1>4. IsFiniteSet(Records(b))
    <2> HIDE DEF Z
    <2> QED BY <1>2, <1>3, FS_Subset
  <1>5. ASSUME NEW in \in Records(b) PROVE in.val["service"] \in Names
    <2>1. PICK k \in PrimaryKeys : in = registry[b][k] /\ in # NoInstance
      BY DEF Records
    <2>2. Agree(b, instances, registry[b]) /\ Filed(instances)
      BY DEF RegistryInv
    <2> DEFINE spelled == {instances[j] : j \in {x \in Keys : PrimaryKey(x) = k}} \ {NoInstance}
    <2>3. spelled # {}
      BY <2>1, <2>2 DEF Agree
    <2>4. PICK x \in spelled : \A h \in InstanceFields \ KeyFields : in.val[h] = x.val[h]
      BY <2>1, <2>2, <2>3 DEF Agree
    <2>5. x \in Record
      BY <2>2 DEF Filed
    <2>6. "service" \in InstanceFields \ KeyFields
      BY KeysAre
    <2>7. x.val["service"] \in Names
      BY <2>5, <2>6 DEF Record
    <2> QED BY <2>4, <2>6, <2>7
  <1> QED BY <1>4, <1>5

\* The order of names as a relation.
ByRank == {p \in Names \X Names : Before(p[1], p[2])}

LEMMA ByRankLinear ==
    ASSUME NEW V, V \subseteq Names
    PROVE  Linear(V, ByRank)
  <1>1. \A v, w \in V : <<v, w>> \in ByRank <=> Rank[v] < Rank[w]
    BY DEF ByRank, Before
  <1>2. \A v \in V : Rank[v] \in Nat
    BY RankAssumption
  <1>3. \A v, w \in V : Rank[v] = Rank[w] => v = w
    BY RankAssumption
  <1> QED BY <1>1, <1>2, <1>3 DEF Linear

LEMMA TopByRank ==
    ASSUME NEW V, V \subseteq Names, NEW n
    PROVE  Top(V, n, Before) = Firsts(V, ByRank, n)
  <1>1. \A v \in V : {w \in V : Before(w, v)} = {w \in V : <<w, v>> \in ByRank}
    BY DEF ByRank
  <1> QED BY <1>1 DEF Top, Firsts

\* The names of services a storage may suggest for a prefix.
Offered(b, S, reg, prefix) ==
    IF b = "memory"
    THEN {v \in UNION {FieldValues(s.ev, "service") : s \in S} : v \in Starts[prefix]}
    ELSE {v \in {in.val["service"] : in \in reg} \ {""} : Like(v, prefix)}

LEMMA OfferedNames ==
    ASSUME NEW b \in Backends, NEW S, Proper(S), NEW reg, IsFiniteSet(reg), NEW prefix,
           \A in \in reg : in.val["service"] \in Names
    PROVE  IsFiniteSet(Offered(b, S, reg, prefix)) /\ Offered(b, S, reg, prefix) \subseteq Names
  <1>1. CASE b = "memory"
    <2> DEFINE f == [s \in S |-> s.ev.val["service"]]
               Z == {s.ev.val["service"] : s \in S}
    <2>1. f \in Surjection(S, Z)
      BY DEF Surjection
    <2>2. IsFiniteSet(Z)
      <3> HIDE DEF f, Z
      <3> QED BY <2>1, FS_Surjection DEF Proper
    <2>3. Z \subseteq Names
      BY EventAssumption DEF Proper
    <2>4. Offered(b, S, reg, prefix) \in SUBSET Z
      BY <1>1 DEF Offered, FieldValues
    <2> HIDE DEF Z
    <2> QED BY <2>2, <2>3, <2>4, FS_Subset
  <1>2. CASE b # "memory"
    <2> DEFINE f == [in \in reg |-> in.val["service"]]
               Z == {in.val["service"] : in \in reg}
    <2>1. f \in Surjection(reg, Z)
      BY DEF Surjection
    <2>2. IsFiniteSet(Z)
      <3> HIDE DEF f, Z
      <3> QED BY <2>1, FS_Surjection
    <2>3. Z \subseteq Names
      OBVIOUS
    <2>4. Offered(b, S, reg, prefix) \in SUBSET Z
      BY <1>2 DEF Offered
    <2> HIDE DEF Z
    <2> QED BY <2>2, <2>3, <2>4, FS_Subset
  <1> QED BY <1>1, <1>2

\* What a storage suggests are the first of them.
LEMMA SuggestFirsts ==
    ASSUME NEW b \in Backends, NEW S, NEW reg, NEW prefix, NEW now,
           \A in \in reg : in.val["service"] \in Names,
           b \in Databases => \A in \in reg : Fold[in.val["service"]] = in.val["service"],
           Offered(b, S, reg, prefix) \subseteq Names,
           NEW n \in 1..MaxSuggest
    PROVE  Suggest(b, S, reg, None, "service", prefix, n, now)
           = Firsts(Offered(b, S, reg, prefix), ByRank, n)
  <1> DEFINE V == Offered(b, S, reg, prefix)
  <1>0. n \in Nat /\ n > 0 /\ n <= MaxSuggest /\ MaxSuggest \in Nat
    BY SuggestAssumption
  <1>1. CASE b = "memory"
    <2>1. b \notin Databases
      BY <1>1 DEF Databases
    <2>2. V = {v \in UNION {FieldValues(s.ev, "service") : s \in {x \in S : TRUE}} : v \in Starts[prefix]}
      BY <1>1 DEF Offered
    <2>3. Suggest(b, S, reg, None, "service", prefix, n, now)
          = {v \in V : Cardinality({w \in V : Before(w, v)}) < n}
      <3> HIDE DEF V
      <3> QED BY <1>0, <2>1, <2>2 DEF Suggest, Top
    <2>4. {v \in V : Cardinality({w \in V : Before(w, v)}) < n} = Top(V, n, Before)
      BY DEF Top
    <2> HIDE DEF V
    <2> QED BY <2>3, <2>4, TopByRank DEF V
  <1>2. CASE b # "memory"
    <2>1. b \in Databases
      BY <1>2 DEF Backends
    <2>2. V = {v \in {in.val["service"] : in \in {x \in reg : TRUE}} \ {""} : Like(v, prefix)}
      BY <1>2 DEF Offered
    <2>3. \A v \in V : Fold[v] = v
      BY <2>1, <2>2
    <2>4. {CHOOSE w \in V : Same(w, v) : v \in V} = V
      <3>1. \A v \in V : (CHOOSE w \in V : Same(w, v)) = v
        <4> HIDE DEF V
        <4> QED BY <2>3 DEF Same
      <3> HIDE DEF V
      <3> QED BY <3>1
    <2>5. \A v, w \in V : Before(Fold[w], Fold[v]) <=> Before(w, v)
      BY <2>3
    <2>6. Suggest(b, S, reg, None, "service", prefix, n, now)
          = {v \in V : Cardinality({w \in V : Before(Fold[w], Fold[v])}) < n}
      <3> DEFINE begin == {v \in {in.val["service"] : in \in {x \in reg :
                               None = None \/ (IF b \in Databases THEN Same(x.val["dc"], None)
                                               ELSE x.val["dc"] = None)}} \ {""} :
                           IF b \in Databases THEN Like(v, prefix) ELSE v \in Starts[prefix]}
                 values == IF b \in Databases THEN {CHOOSE w \in begin : Same(w, v) : v \in begin}
                           ELSE begin
                 order(w, v) == IF b \in Databases THEN Before(Fold[w], Fold[v]) ELSE Before(w, v)
                 k == IF n <= 0 \/ (b \in Databases /\ n > MaxSuggest) THEN DefaultSuggest ELSE n
      <3>1. Suggest(b, S, reg, None, "service", prefix, n, now)
            = {v \in values : Cardinality({w \in values : order(w, v)}) < k}
        BY <2>1 DEF Suggest, Top
      <3>2. begin = V
        BY <2>1, <2>2
      <3> HIDE DEF V, begin
      <3>3. values = V
        BY <2>1, <2>4, <3>2
      <3>4. k = n
        BY <1>0
      <3>5. \A v, w : order(w, v) <=> Before(Fold[w], Fold[v])
        BY <2>1
      <3> HIDE DEF values, k, order
      <3>6. {v \in values : Cardinality({w \in values : order(w, v)}) < k}
            = {v \in V : Cardinality({w \in V : order(w, v)}) < n}
        BY <3>3, <3>4
      <3>7. \A v : {w \in V : order(w, v)} = {w \in V : Before(Fold[w], Fold[v])}
        BY <3>5
      <3> QED BY <3>1, <3>6, <3>7
    <2>7. \A v \in V : {w \in V : Before(Fold[w], Fold[v])} = {w \in V : Before(w, v)}
      BY <2>5
    <2>8. {v \in V : Cardinality({w \in V : Before(Fold[w], Fold[v])}) < n} = Top(V, n, Before)
      BY <2>7 DEF Top
    <2> HIDE DEF V
    <2> QED BY <2>6, <2>8, TopByRank DEF V
  <1> QED BY <1>1, <1>2

\* What is suggested are the first of the stored and the live names together,
\* although the storage has cut its list before the two were put together.
THEOREM SuggestionsComplete == Spec => []SuggestComplete
  <1>1. HeldInv /\ RegistryInv => SuggestComplete
    <2> SUFFICES ASSUME HeldInv, RegistryInv, mu = "free",
                        NEW b \in Backends, NEW n \in 1..MaxSuggest, NEW prefix \in Names,
                        b \in Databases =>
                          \A in \in (IF b = "memory" THEN {} ELSE Records(b)) :
                            Fold[in.val["service"]] = in.val["service"]
                 PROVE  LET reg == IF b = "memory" THEN {} ELSE Records(b)
                            stored(m) == Suggest(b, Held(b), reg, None, "service", prefix, m, Now)
                            all == stored(MaxSuggest) \cup {v \in Live : v \in Starts[prefix]}
                        IN  HandleSuggest(stored(n), Live, prefix, n) = Top(all, n, Before)
      BY DEF SuggestComplete, Quiet
    <2> DEFINE reg == IF b = "memory" THEN {} ELSE Records(b)
               stored(m) == Suggest(b, Held(b), reg, None, "service", prefix, m, Now)
               L == {v \in Live : v \in Starts[prefix]}
               V == Offered(b, Held(b), reg, prefix)
    <2>1. IsFiniteSet(reg) /\ \A in \in reg : in.val["service"] \in Names
      <3>1. CASE b = "memory"
        BY <3>1, FS_EmptySet
      <3>2. CASE b # "memory"
        BY <3>2, RecordsNamed DEF Backends
      <3> QED BY <3>1, <3>2
    <2>f. b \in Databases => \A in \in reg : Fold[in.val["service"]] = in.val["service"]
      OBVIOUS
    <2> HIDE DEF reg
    <2>2. IsFiniteSet(V) /\ V \subseteq Names
      BY <2>1, HeldProper, OfferedNames
    <2>3. IsFiniteSet(L) /\ L \subseteq Names
      BY ReadsAssumption, FS_Subset
    <2>4. n \in Nat /\ n <= MaxSuggest /\ MaxSuggest \in Nat /\ MaxSuggest \in 1..MaxSuggest
      BY SuggestAssumption
    <2>5. stored(n) = Firsts(V, ByRank, n) /\ stored(MaxSuggest) = Firsts(V, ByRank, MaxSuggest)
      <3> HIDE DEF L
      <3> QED BY <2>1, <2>f, <2>2, <2>4, SuggestFirsts
    <2>6. Linear(V \cup L, ByRank)
      <3> HIDE DEF L, V
      <3> QED BY <2>2, <2>3, ByRankLinear
    <2>7. \A m : Firsts(V, ByRank, m) \cup L \subseteq Names
      <3> HIDE DEF L, V
      <3> QED BY <2>2, <2>3 DEF Firsts
    <2> HIDE DEF L, V, stored
    <2>8. /\ Firsts(Firsts(V, ByRank, n) \cup L, ByRank, n) = Firsts(V \cup L, ByRank, n)
          /\ Firsts(Firsts(V, ByRank, MaxSuggest) \cup L, ByRank, n) = Firsts(V \cup L, ByRank, n)
      BY <2>2, <2>3, <2>4, <2>6, FirstsAgain
    <2>9. /\ Top(stored(n) \cup L, n, Before) = Firsts(stored(n) \cup L, ByRank, n)
          /\ Top(stored(MaxSuggest) \cup L, n, Before) = Firsts(stored(MaxSuggest) \cup L, ByRank, n)
      BY <2>5, <2>7, TopByRank
    <2>10. Top(stored(n) \cup L, n, Before) = Top(stored(MaxSuggest) \cup L, n, Before)
      BY <2>5, <2>8, <2>9
    <2>11. HandleSuggest(stored(n), Live, prefix, n) = Top(stored(n) \cup L, n, Before)
      BY DEF HandleSuggest, L
    <2> QED BY <2>10, <2>11 DEF stored, L, reg
  <1> QED BY <1>1, HeldInvariant, RegistryInvariant, PTL

-----------------------------------------------------------------------------
(* Histograms.                                                             *)

LEMMA DivSlot ==
    ASSUME NEW d \in Int, NEW w \in Nat \ {0}, NEW i \in Int
    PROVE  d \div w = i <=> i * w <= d /\ d <= i * w + w - 1
  <1> DEFINE a == d \div w
  <1>1. a \in Int /\ a * w <= d /\ d < a * w + w
    <2>1. a \in Int /\ d = w * a + (d % w) /\ d % w \in 0..(w-1)
      OBVIOUS
    <2> QED BY <2>1
  <1> HIDE DEF a
  <1>2. ASSUME i * w <= d, d <= i * w + w - 1 PROVE a = i
    <2>1. CASE a > i
      <3>1. (a - i) * w >= w
        BY <1>1, <2>1
      <3> QED BY <1>1, <1>2, <3>1
    <2>2. CASE a < i
      <3>1. (i - a) * w >= w
        BY <1>1, <2>2
      <3> QED BY <1>1, <1>2, <3>1
    <2> QED BY <1>1, <2>1, <2>2
  <1>3. ASSUME a = i PROVE i * w <= d /\ d <= i * w + w - 1
    BY <1>1, <1>3
  <1> QED BY <1>2, <1>3 DEF a

LEMMA FloorBelow ==
    ASSUME NEW t \in Int, NEW u \in Nat \ {0}, NEW c \in Int
    PROVE  c * u <= t <=> c * u <= Floor(t, u)
  <1> DEFINE a == t \div u
  <1>1. a \in Int /\ a * u <= t /\ t <= a * u + u - 1
    BY DivSlot
  <1>2. Floor(t, u) = a * u
    BY DEF Floor
  <1> HIDE DEF a
  <1>3. ASSUME c * u <= t PROVE c <= a
    <2> SUFFICES ASSUME c > a PROVE FALSE
      BY <1>1
    <2>1. (c - a) * u >= u
      BY <1>1
    <2> QED BY <1>1, <1>3, <2>1
  <1>4. ASSUME c <= a PROVE c * u <= a * u
    <2>1. (a - c) * u >= 0
      BY <1>1, <1>4
    <2> QED BY <1>1, <2>1
  <1> QED BY <1>1, <1>2, <1>3, <1>4

\* A whole minute is in a bucket of whole minutes when the times within it are.
LEMMA MinuteSlot ==
    ASSUME NEW t \in Int, NEW u \in Nat \ {0}, NEW from \in Int, from % u = 0,
           NEW c \in Nat \ {0}, NEW i \in Nat
    PROVE  LET start == from + i * (c * u)
           IN  (from <= Floor(t, u) /\ Quot(Floor(t, u) - from, c * u) = i)
               <=> t \in start..(start + c * u - 1)
  <1> DEFINE w == c * u
             m == Floor(t, u)
             a == from \div u
             A == a + i * c
             B == A + c
  <1>1. w \in Nat \ {0}
    BY DEF w
  <1>2. a \in Int /\ from = a * u
    OBVIOUS
  <1>3. m \in Int
    BY DEF Floor
  <1> HIDE DEF a
  <1>4. A \in Int /\ B \in Int /\ A * u = from + i * w /\ B * u = from + i * w + w
    <2>1. (i * c) * u = i * (c * u) /\ i * c \in Int
      OBVIOUS
    <2>2. (a + i * c) * u = a * u + (i * c) * u
      BY <1>2, <2>1
    <2>3. (a + i * c + c) * u = (a + i * c) * u + c * u
      BY <1>2, <2>1
    <2> QED BY <1>2, <2>1, <2>2, <2>3
  <1> HIDE DEF A, B, m
  <1>5. A * u <= t <=> A * u <= m
    BY <1>4, FloorBelow DEF m
  <1>6. B * u <= t <=> B * u <= m
    BY <1>4, FloorBelow DEF m
  <1>7. i * w \in Nat
    BY <1>1
  <1> HIDE DEF w
  <1>8. (from + i * w <= m /\ m <= from + i * w + w - 1) <=>
        (from + i * w <= t /\ t <= from + i * w + w - 1)
    BY <1>1, <1>3, <1>4, <1>5, <1>6, <1>7
  <1>9. ASSUME from <= m PROVE Quot(m - from, w) = i <=>
                               (from + i * w <= m /\ m <= from + i * w + w - 1)
    <2>1. m - from \in Int /\ m - from >= 0
      BY <1>3, <1>9
    <2>2. Quot(m - from, w) = (m - from) \div w
      BY <2>1 DEF Quot
    <2>3. (m - from) \div w = i <=> i * w <= m - from /\ m - from <= i * w + w - 1
      BY <1>1, <2>1, DivSlot
    <2> QED BY <1>1, <1>3, <1>7, <2>2, <2>3
  <1>10. (from <= m /\ Quot(m - from, w) = i) <=> (from + i * w <= t /\ t <= from + i * w + w - 1)
    BY <1>1, <1>3, <1>7, <1>8, <1>9
  <1>11. t \in (from + i * w)..(from + i * w + w - 1)
         <=> from + i * w <= t /\ t <= from + i * w + w - 1
    BY <1>1, <1>7
  <1> QED BY <1>10, <1>11 DEF w, m

LEMMA ShapeType ==
    ASSUME NEW b \in Backends, NEW q \in Ranges, NEW n \in BucketCounts
    PROVE  LET shape == Shape(b, q, n, Now)
           IN  /\ shape.from \in Int /\ shape.to \in Int /\ shape.width \in Nat \ {0}
               /\ b = "memory" /\ q.from # None => shape.from = q.from
               /\ UseRollup(b, q, shape.to - shape.from) =>
                    \E c \in Nat \ {0} : shape.width = c * Minute
  <1> DEFINE to == IF q.to = None THEN Now ELSE q.to
             open == IF b \in Databases THEN From(q) = MinTime ELSE q.from = None
             from == IF open THEN to - Hour ELSE q.from
             asked == IF n <= 0 THEN DefaultBuckets ELSE n
             wanted == IF b \in Databases /\ asked > MaxBuckets THEN MaxBuckets ELSE asked
             long == UseRollup(b, q, to - from)
             x == (to - from + wanted - 1) \div wanted
             width == Floor(x, IF long THEN Minute ELSE Second)
             least == IF long THEN Minute ELSE Second
             w == IF width < least THEN least ELSE width
             shape == Shape(b, q, n, Now)
  <1>1. shape.from = from /\ shape.to = to /\ shape.width = w
    BY DEF Shape
  <1>2. to \in Int /\ from \in Int
    BY ReadsAssumption, UnitsAssumption, MinTimeAssumption DEF From
  <1>3. wanted \in Nat \ {0}
    BY ReadsAssumption, BucketsAssumption
  <1> HIDE DEF to, from, wanted, long, shape
  <1>4. x \in Int
    BY <1>2, <1>3
  <1> HIDE DEF x
  <1>5. least \in Nat \ {0} /\ width = (x \div least) * least /\ x \div least \in Int
    BY <1>4, UnitsAssumption DEF Floor
  <1>6. PICK a \in Int : width = a * least
    BY <1>5
  <1>7. w \in Nat \ {0} /\ \E c \in Nat \ {0} : w = c * least
    <2>1. CASE width < least
      <3>1. w = least /\ w = 1 * least /\ 1 \in Nat \ {0}
        BY <1>5, <2>1
      <3> QED BY <1>5, <3>1
    <2>2. CASE ~(width < least)
      <3>1. w = width /\ width \in Int /\ width >= least
        BY <1>5, <1>6, <2>2
      <3> HIDE DEF w, width, least
      <3>2. a > 0
        <4> SUFFICES ASSUME a <= 0 PROVE FALSE
          BY <1>6
        <4>1. a * least <= 0
          BY <1>5, <1>6
        <4> QED BY <1>5, <1>6, <3>1, <4>1
      <3>3. w \in Nat \ {0}
        BY <1>5, <3>1
      <3>4. a \in Nat \ {0} /\ w = a * least
        BY <1>6, <3>1, <3>2
      <3> QED BY <3>3, <3>4
    <2> QED BY <2>1, <2>2
  <1>8. long => least = Minute
    OBVIOUS
  <1>9. b = "memory" /\ q.from # None => from = q.from
    BY DEF from, Databases
  <1> HIDE DEF w, least
  <1>10. UseRollup(b, q, shape.to - shape.from) = long
    BY <1>1 DEF long
  <1> QED BY <1>1, <1>2, <1>7, <1>8, <1>9, <1>10 DEF shape

\* The elements of T whose key is in D.
Keyed(T, key, D) == {y \in T : key[y] \in D}

SumOver(f, D) == MapThenSumSet(LAMBDA x : f[x], D)

\* Adding up, in any order, how many elements of T have each of the keys in D
\* counts the elements whose key is in D.
LEMMA SumOfCounts ==
    ASSUME NEW T, IsFiniteSet(T), NEW key, NEW D, IsFiniteSet(D), NEW f,
           \A x \in D : f[x] = Cardinality(Keyed(T, key, {x}))
    PROVE  SumOver(f, D) = Cardinality(Keyed(T, key, D))
  <1> DEFINE With(s) == Keyed(T, key, s)
             one(s) == CHOOSE x \in s : TRUE
             Adds(iter) == iter = [s \in SUBSET D |->
                             IF s = {} THEN 0 ELSE f[one(s)] + iter[s \ {one(s)}]]
             g == [s \in SUBSET D |-> Cardinality(With(s))]
  <1>1. \A s : IsFiniteSet(With(s)) /\ Cardinality(With(s)) \in Nat
    <2> TAKE s
    <2>1. With(s) \in SUBSET T
      BY DEF Keyed
    <2> HIDE DEF With
    <2> QED BY <2>1, FS_Subset, FS_CardinalityType
  <1>2. ASSUME NEW s \in SUBSET D, s # {}
        PROVE  /\ one(s) \in s
               /\ Cardinality(With(s)) = f[one(s)] + Cardinality(With(s \ {one(s)}))
    <2>1. one(s) \in s
      BY <1>2
    <2> DEFINE x == one(s)
               P == With({x})
               Q == With(s \ {x})
    <2> HIDE DEF x
    <2>2. x \in s
      BY <2>1 DEF x
    <2>3. With(s) = P \cup Q /\ P \cap Q = {}
      BY <2>2 DEF Keyed
    <2>4. f[x] = Cardinality(P)
      BY <2>2
    <2>5. IsFiniteSet(P) /\ IsFiniteSet(Q) /\ Cardinality(P) \in Nat /\ Cardinality(Q) \in Nat
      <3>1. P \in SUBSET T
        BY DEF Keyed
      <3> HIDE DEF P, With
      <3> QED BY <1>1, <3>1, FS_Subset, FS_CardinalityType
    <2> HIDE DEF P, With
    <2>6. Cardinality(P \cup Q) = Cardinality(P) + Cardinality(Q) - Cardinality(P \cap Q)
      BY <2>5, FS_Union
    <2>7. Cardinality(P \cap Q) = 0
      BY <2>3, FS_EmptySet
    <2>8. Cardinality(With(s)) = f[x] + Cardinality(Q)
      BY <2>3, <2>4, <2>5, <2>6, <2>7
    <2> QED BY <2>1, <2>8 DEF x
  <1>3. Cardinality(With({})) = 0
    <2>1. With({}) = {}
      BY DEF Keyed
    <2> HIDE DEF With
    <2> QED BY <2>1, FS_EmptySet
  <1> HIDE DEF With, one
  <1>4. Adds(g)
    <2>1. ASSUME NEW s \in SUBSET D
          PROVE  g[s] = IF s = {} THEN 0 ELSE f[one(s)] + g[s \ {one(s)}]
      <3>1. CASE s = {}
        BY <1>3, <3>1
      <3>2. CASE s # {}
        <4>1. s \ {one(s)} \in SUBSET D
          OBVIOUS
        <4>2. g[s] = Cardinality(With(s)) /\ g[s \ {one(s)}] = Cardinality(With(s \ {one(s)}))
          BY <4>1
        <4> HIDE DEF g
        <4> QED BY <1>2, <3>2, <4>2
      <3> QED BY <3>1, <3>2
    <2>2. g = [s \in SUBSET D |-> g[s]]
      OBVIOUS
    <2> HIDE DEF g
    <2> QED BY <2>1, <2>2
  <1> DEFINE iter == CHOOSE h : Adds(h)
  <1>5. Adds(iter)
    <2> HIDE DEF Adds, g
    <2> QED BY <1>4
  <1>6. SumOver(f, D) = iter[D]
    BY DEF SumOver, MapThenSumSet, MapThenFoldSet, one
  <1> HIDE DEF iter
  <1>7. \A s \in SUBSET D : iter[s] = IF s = {} THEN 0 ELSE f[one(s)] + iter[s \ {one(s)}]
    <2> DEFINE after(s) == IF s = {} THEN 0 ELSE f[one(s)] + iter[s \ {one(s)}]
    <2>1. iter = [s \in SUBSET D |-> after(s)]
      BY <1>5
    <2> HIDE DEF after
    <2>2. \A s \in SUBSET D : iter[s] = after(s)
      BY <2>1
    <2> QED BY <2>2 DEF after
  <1> DEFINE Bad == {s \in SUBSET D : iter[s] # Cardinality(With(s))}
             Sizes == {Cardinality(s) : s \in Bad}
  <1>8. \A s \in SUBSET D : IsFiniteSet(s) /\ Cardinality(s) \in Nat
    BY FS_Subset, FS_CardinalityType
  <1>9. Bad = {}
    <2> SUFFICES ASSUME Bad # {} PROVE FALSE
      OBVIOUS
    <2>1. Sizes \in SUBSET Nat /\ Sizes # {}
      BY <1>8
    <2>2. PICK m \in Sizes : \A k \in Sizes : m <= k
      <3> HIDE DEF Sizes
      <3> QED BY <2>1, Smallest
    <2>3. PICK s \in Bad : m = Cardinality(s)
      BY <2>2
    <2>4. s # {}
      BY <1>3, <1>7, <2>3
    <2> DEFINE r == s \ {one(s)}
    <2>5. one(s) \in s /\ r \in SUBSET D
      BY <1>2, <2>3, <2>4
    <2>6. Cardinality(r) = Cardinality(s) - 1
      BY <1>8, <2>3, <2>5, FS_RemoveElement
    <2>7. r \notin Bad
      <3> SUFFICES ASSUME r \in Bad PROVE FALSE
        OBVIOUS
      <3>1. Cardinality(r) \in Sizes
        OBVIOUS
      <3> HIDE DEF Sizes
      <3> QED BY <1>8, <2>2, <2>3, <2>6, <3>1
    <2>8. iter[r] = Cardinality(With(r))
      BY <2>5, <2>7
    <2>9. iter[s] = f[one(s)] + iter[r]
      BY <1>7, <2>3, <2>4
    <2> HIDE DEF r
    <2>10. iter[s] = Cardinality(With(s))
      BY <1>2, <2>3, <2>4, <2>8, <2>9 DEF r
    <2> QED BY <2>3, <2>10
  <1>10. iter[D] = Cardinality(With(D))
    BY <1>9
  <1> QED BY <1>6, <1>10 DEF With

\* The rows of the table under a key of the rollup.
Under(S, k) == {s \in S : RollupKey(s.ev) = k}

\* The rollup has every key of the table, with the number of its events.
RollupInv ==
    /\ DOMAIN rollup = {RollupKey(s.ev) : s \in table}
    /\ \A k \in DOMAIN rollup : rollup[k] = Cardinality(Under(table, k))

LEMMA InsertKeepsRollup ==
    ASSUME TableInv, RollupInv, NEW batch \in Batches(Event), InsertEvents(batch)
    PROVE  RollupInv'
  <1> DEFINE C == Cardinality(table)
             N == Len(batch)
             new == RowsOf(batch)
             f == [i \in 1..N |-> [id |-> C + i, ev |-> batch[i]]]
             at(k) == {i \in DOMAIN batch : RollupKey(batch[i]) = k}
             old(k) == IF k \in DOMAIN rollup THEN rollup[k] ELSE 0
  <1>1. batch \in Seq(Event) /\ N \in Nat /\ DOMAIN batch = 1..N
    BY DEF Batches
  <1>2. IsFiniteSet(table) /\ C \in Nat
    BY FS_CardinalityType DEF TableInv, Proper
  <1>3. table' = table \cup new
    BY DEF InsertEvents
  <1>4. /\ DOMAIN rollup' = DOMAIN rollup \cup {RollupKey(batch[i]) : i \in DOMAIN batch}
        /\ \A k \in DOMAIN rollup' : rollup'[k] = old(k) + Cardinality(at(k))
    BY DEF InsertEvents, Counted
  <1>5. \A i \in 1..N : f[i].id = C + i /\ f[i].ev = batch[i]
    OBVIOUS
  <1>6. new = {f[i] : i \in 1..N}
    BY <1>1 DEF RowsOf
  <1>7. \A i, j \in 1..N : f[i] = f[j] => i = j
    <2> HIDE DEF f, C, N
    <2> QED BY <1>1, <1>2, <1>5
  <1>8. table \cap new = {}
    <2>1. \A s \in table : s.id \in Nat /\ s.id <= C
      BY DEF TableInv, Proper
    <2>2. \A s \in new : \E i \in 1..N : s = f[i]
      BY <1>6
    <2> HIDE DEF f, C, N, new
    <2>3. \A s \in new : s.id > C
      BY <1>1, <1>2, <1>5, <2>2
    <2> QED BY <1>2, <2>1, <2>3
  <1> HIDE DEF f, new, C, N
  <1>9. ASSUME NEW k
        PROVE  Cardinality(Under(table', k)) = old(k) + Cardinality(at(k))
    <2> DEFINE A == Under(table, k)
               B == Under(new, k)
               I == at(k)
               h == [i \in I |-> f[i]]
    <2>1. Under(table', k) = A \cup B /\ A \cap B = {}
      BY <1>3, <1>8 DEF Under
    <2>2. I \in SUBSET (1..N) /\ \A i \in 1..N : i \in I <=> RollupKey(f[i].ev) = k
      BY <1>1, <1>5
    <2>3. IsFiniteSet(I) /\ Cardinality(I) \in Nat
      <3>1. IsFiniteSet(1..N)
        BY <1>1, FS_Interval
      <3> HIDE DEF I
      <3> QED BY <2>2, <3>1, FS_Subset, FS_CardinalityType
    <2>4. IsFiniteSet(A) /\ Cardinality(A) \in Nat
      <3>1. A \in SUBSET table
        BY DEF Under
      <3> HIDE DEF A
      <3> QED BY <1>2, <3>1, FS_Subset, FS_CardinalityType
    <2> HIDE DEF I
    <2>5. B = {f[i] : i \in I}
      BY <1>6, <2>2 DEF Under
    <2>6. h \in Bijection(I, B)
      <3>1. h \in [I -> B]
        BY <2>5
      <3>2. \A i, j \in I : h[i] = h[j] => i = j
        BY <1>7, <2>2
      <3>3. \A s \in B : \E i \in I : h[i] = s
        BY <2>5
      <3> HIDE DEF h, B
      <3>4. h \in Injection(I, B)
        BY <3>1, <3>2 DEF Injection, IsInjective
      <3>5. h \in Surjection(I, B)
        BY <3>1, <3>3 DEF Surjection
      <3> QED BY <3>4, <3>5 DEF Bijection
    <2> HIDE DEF A, B, h
    <2>7. IsFiniteSet(B) /\ Cardinality(B) = Cardinality(I)
      BY <2>3, <2>6, FS_Bijection DEF ExistsBijection
    <2>8. Cardinality(A) = old(k)
      <3>1. CASE k \in DOMAIN rollup
        BY <3>1 DEF A, RollupInv
      <3>2. CASE k \notin DOMAIN rollup
        <4>1. A = {}
          BY <3>2 DEF A, Under, RollupInv
        <4>2. Cardinality(A) = 0
          BY <4>1, FS_EmptySet
        <4> QED BY <3>2, <4>2
      <3> QED BY <3>1, <3>2
    <2>9. Cardinality(A \cup B) = Cardinality(A) + Cardinality(B) - Cardinality(A \cap B)
      BY <2>4, <2>7, FS_Union
    <2>10. Cardinality(A \cap B) = 0
      BY <2>1, FS_EmptySet
    <2>11. Cardinality(A \cup B) = Cardinality(A) + Cardinality(I)
      BY <2>3, <2>4, <2>7, <2>9, <2>10
    <2> QED BY <2>1, <2>8, <2>11 DEF I
  <1>10. {RollupKey(s.ev) : s \in new} = {RollupKey(batch[i]) : i \in DOMAIN batch}
    BY <1>1, <1>5, <1>6
  <1>11. DOMAIN rollup' = {RollupKey(s.ev) : s \in table'}
    BY <1>3, <1>4, <1>10 DEF RollupInv
  <1> HIDE DEF old, at
  <1> QED BY <1>4, <1>9, <1>11 DEF RollupInv, Under

LEMMA RollupInvariant == Spec => []RollupInv
  <1>1. Init => RollupInv
    BY DEF Init, RollupInv
  <1>2. HeldInv /\ RollupInv /\ [Next]_vars => RollupInv'
    <2> SUFFICES ASSUME TableInv, RollupInv, [Next]_vars PROVE RollupInv'
      BY DEF HeldInv
    <2>1. ASSUME NEW batch \in Batches(Event), Store(batch) PROVE RollupInv'
      BY <2>1, InsertKeepsRollup DEF Store
    <2>2. CASE table' = table /\ rollup' = rollup
      BY <2>2 DEF RollupInv, Under
    <2>3. ASSUME NEW batch \in Batches(Instance), Upsert(batch) PROVE table' = table /\ rollup' = rollup
      BY <2>3 DEF Upsert
    <2>4. MemStep \/ (\E d \in Moves : NextPage(d)) \/ (\E b \in Backends, q \in PageQueries : FirstPage(b, q))
          \/ UNCHANGED vars => table' = table /\ rollup' = rollup
      BY DEF MemStep, NextPage, FirstPage, vars
    <2> QED BY <2>1, <2>2, <2>3, <2>4 DEF Next
  <1> QED BY <1>1, <1>2, HeldInvariant, PTL DEF Spec

\* The rows of R, all at or after the start of the range, by the division of
\* the memory storage or by that of the database.
LEMMA RowsCounted ==
    ASSUME NEW b, NEW zone \in Int, NEW R, NEW shape, NEW split, NEW i \in Nat, NEW k,
           shape.from \in Int, shape.width \in Nat \ {0},
           \A r \in R : r.time \in Int,
           b = "memory" => zone = 0 /\ \A r \in R : r.time >= shape.from,
           b # "memory" => shape.from % Second = 0
    PROVE  CountRows(b, zone, R, shape, split, i, k)
           = Cardinality(InSlot(R, [shape EXCEPT !.from = @ + zone], split, i, k))
  <1> DEFINE index(t) == IF b = "memory" THEN Quot(t - shape.from, shape.width)
                         ELSE (t - zone - Floor(shape.from, Second)) \div shape.width
             F == shape.from + zone
             late == [shape EXCEPT !.from = @ + zone]
             w == shape.width
  <1>1. ASSUME NEW r \in R
        PROVE  index(r.time) = i <=> r.time \in (F + i * w)..(F + i * w + w - 1)
    <2>1. index(r.time) = (r.time - F) \div w
      <3>1. CASE b = "memory"
        BY <3>1 DEF Quot
      <3>2. CASE b # "memory"
        <4>1. Floor(shape.from, Second) = shape.from
          BY <3>2, UnitsAssumption DEF Floor
        <4> QED BY <3>2, <4>1
      <3> QED BY <3>1, <3>2
    <2> DEFINE d == r.time - F
    <2>2. d \in Int /\ w \in Nat \ {0}
      OBVIOUS
    <2> HIDE DEF d, w, index
    <2>3. d \div w = i <=> i * w <= d /\ d <= i * w + w - 1
      BY <2>2, DivSlot
    <2>4. i * w \in Int /\ w \in Int /\ F \in Int /\ r.time \in Int
      BY <2>2
    <2> HIDE DEF F
    <2>5. i * w <= d /\ d <= i * w + w - 1 <=> r.time \in (F + i * w)..(F + i * w + w - 1)
      BY <2>4 DEF d, F
    <2> QED BY <2>1, <2>3, <2>5 DEF d
  <1>l. late.from = F /\ late.width = w
    BY DEF late
  <1>2. InSlot(R, late, split, i, k)
        = {r \in R : r.time \in (F + i * w)..(F + i * w + w - 1) /\ BucketKey(r, split) = k}
    BY <1>l DEF InSlot
  <1>3. CountRows(b, zone, R, shape, split, i, k)
        = Cardinality({r \in R : index(r.time) = i /\ BucketKey(r, split) = k})
    BY DEF CountRows
  <1> HIDE DEF index, F, w, late
  <1>4. {r \in R : index(r.time) = i /\ BucketKey(r, split) = k} = InSlot(R, late, split, i, k)
    BY <1>1, <1>2
  <1> QED BY <1>3, <1>4 DEF late

LEMMA RollupCounted ==
    ASSUME TableInv, RollupInv, NEW b, NEW q, NEW shape, NEW split \in {"status", "dc"},
           NEW i \in Nat, NEW k, NEW c \in Nat \ {0},
           shape.from \in Int, shape.to \in Int, shape.width = c * Minute,
           shape.from % Minute = 0, \A f \in q.filters : f.field = "dc"
    PROVE  CountRollup(rollup, q, shape, split, i, k)
           = Cardinality(InSlot(UpTo(q, shape.to), shape, split, i, k))
  <1> DEFINE hits == {x \in DOMAIN rollup :
                        /\ x.minute \in Minutes(shape)
                        /\ Filtered(x, q)
                        /\ Quot(x.minute - shape.from, shape.width) = i
                        /\ BucketKey(x, split) = k}
             key == [s \in table |-> RollupKey(s.ev)]
             X == Keyed(table, key, hits)
             Y == InSlot(UpTo(q, shape.to), shape, split, i, k)
  <1>1. IsFiniteSet(table) /\ \A s \in table : s.ev \in Event /\ s.ev.time \in Nat
    BY EventAssumption DEF TableInv, Proper
  <1>2. IsFiniteSet(DOMAIN rollup)
    <2> DEFINE Z == {RollupKey(s.ev) : s \in table}
    <2>1. key \in Surjection(table, Z)
      BY DEF Surjection
    <2> HIDE DEF key, Z
    <2>2. IsFiniteSet(Z)
      BY <1>1, <2>1, FS_Surjection
    <2> QED BY <2>2 DEF Z, RollupInv
  <1>3. hits \in SUBSET DOMAIN rollup
    OBVIOUS
  <1>4. CountRollup(rollup, q, shape, split, i, k) = Cardinality(X)
    <2>1. CountRollup(rollup, q, shape, split, i, k) = SumOver(rollup, hits)
      BY DEF CountRollup, SumOver
    <2> HIDE DEF hits
    <2>2. IsFiniteSet(hits)
      BY <1>2, <1>3, FS_Subset
    <2>3. ASSUME NEW x \in hits PROVE rollup[x] = Cardinality(Keyed(table, key, {x}))
      <3>1. Under(table, x) = Keyed(table, key, {x})
        BY DEF Under, Keyed
      <3> QED BY <1>3, <3>1 DEF RollupInv
    <2> HIDE DEF key
    <2>4. SumOver(rollup, hits) = Cardinality(X)
      BY <1>1, <2>2, <2>3, SumOfCounts
    <2> QED BY <2>1, <2>4
  <1>5. ASSUME NEW s \in table
        PROVE  key[s] \in hits <=> Row("memory", s) \in Y
    <2> DEFINE x == RollupKey(s.ev)
               r == Row("memory", s)
               start == shape.from + i * shape.width
    <2>1. x \in DOMAIN rollup /\ key[s] = x
      BY DEF RollupInv
    <2>2. /\ x.minute = Floor(s.ev.time, Minute)
          /\ x.val["dc"] = s.ev.val["dc"] /\ x.val["to"] = s.ev.val["to"]
      BY DEF RollupKey
    <2>3. r.time = s.ev.time /\ r.val = s.ev.val
      BY DEF Row, StoredTime
    <2>4. BucketKey(x, split) = BucketKey(r, split)
      BY <2>2, <2>3 DEF BucketKey
    <2>5. Filtered(x, q) <=> Filtered(r, q)
      <3>1. ASSUME NEW f \in q.filters PROVE FilterSQL(f, x) <=> FilterSQL(f, r)
        <4>1. f.field = "dc"
          OBVIOUS
        <4>2. ASSUME NEW v PROVE SQLOne(f.field, x, v) <=> SQLOne(f.field, r, v)
          <5>1. x.val["dc"] = r.val["dc"]
            BY <2>2, <2>3
          <5>2. "dc" \notin EnumFields /\ "dc" # "tag"
            BY DEF EnumFields
          <5> HIDE DEF x, r
          <5>3. SQLOne("dc", x, v) <=> IF v.star THEN Like(x.val["dc"], v.name)
                                       ELSE Same(x.val["dc"], v.name)
            BY <5>2 DEF SQLOne
          <5>4. SQLOne("dc", r, v) <=> IF v.star THEN Like(r.val["dc"], v.name)
                                       ELSE Same(r.val["dc"], v.name)
            BY <5>2 DEF SQLOne
          <5> QED BY <4>1, <5>1, <5>3, <5>4
        <4> HIDE DEF x, r
        <4> QED BY <4>2 DEF FilterSQL
      <3> HIDE DEF x, r
      <3>2. x.val["dc"] = r.val["dc"]
        BY <2>2, <2>3
      <3> QED BY <3>1, <3>2 DEF Filtered
    <2>6. Minute \in Nat \ {0} /\ Floor(s.ev.time, Minute) \in Int
      BY <1>1, UnitsAssumption DEF Floor
    <2>7. x.minute \in Minutes(shape) <=> shape.from <= x.minute /\ x.minute <= shape.to
      <3>1. Floor(shape.from, Minute) = shape.from
        BY <2>6 DEF Floor
      <3> HIDE DEF x
      <3> QED BY <2>2, <2>6, <3>1 DEF Minutes
    <2>8. (shape.from <= x.minute /\ Quot(x.minute - shape.from, shape.width) = i)
          <=> r.time \in start..(start + shape.width - 1)
      <3> DEFINE t == s.ev.time
                 F == shape.from
      <3>1. t \in Int /\ F \in Int /\ F % Minute = 0
        BY <1>1
      <3>2. (F <= Floor(t, Minute) /\ Quot(Floor(t, Minute) - F, c * Minute) = i)
            <=> t \in (F + i * (c * Minute))..(F + i * (c * Minute) + c * Minute - 1)
        <4> HIDE DEF t, F
        <4> QED BY <2>6, <3>1, MinuteSlot
      <3> QED BY <2>2, <2>3, <3>2
    <2>9. x \in hits <=> /\ x.minute \in Minutes(shape)
                         /\ Filtered(x, q)
                         /\ Quot(x.minute - shape.from, shape.width) = i
                         /\ BucketKey(x, split) = k
      <3> HIDE DEF x
      <3> QED BY <2>1
    <2>10. r \in Y <=> /\ Floor(r.time, Minute) <= shape.to /\ Filtered(r, q)
                       /\ r.time \in start..(start + shape.width - 1)
                       /\ BucketKey(r, split) = k
      <3>1. r \in {Row("memory", y) : y \in table}
        OBVIOUS
      <3> HIDE DEF r
      <3> QED BY <3>1 DEF UpTo, InSlot
    <2> HIDE DEF x, r, hits, Y, start
    <2>11. Floor(r.time, Minute) = x.minute
      BY <2>2, <2>3
    <2>12. x \in hits <=> r \in Y
      BY <2>4, <2>5, <2>7, <2>8, <2>9, <2>10, <2>11
    <2> QED BY <2>1, <2>12 DEF r
  <1>6. Y \subseteq {Row("memory", s) : s \in table}
    BY DEF InSlot, UpTo
  <1> DEFINE h == [s \in X |-> Row("memory", s)]
  <1>7. h \in Bijection(X, Y)
    <2>1. X \subseteq table /\ \A s \in X : Row("memory", s) \in Y
      <3> HIDE DEF hits, Y, key
      <3> QED BY <1>5 DEF Keyed
    <2>2. \A r \in Y : \E s \in X : r = Row("memory", s)
      <3> HIDE DEF hits, Y, key
      <3> QED BY <1>5, <1>6 DEF Keyed
    <2>3. \A s \in table : Row("memory", s).id = s.id
      BY DEF Row
    <2>4. \A s, x \in table : s.id = x.id => s = x
      BY DEF TableInv, Proper
    <2> HIDE DEF X, Y
    <2>5. h \in [X -> Y] /\ \A s \in X : h[s] = Row("memory", s)
      BY <2>1
    <2> HIDE DEF h
    <2>6. h \in Injection(X, Y)
      BY <2>1, <2>3, <2>4, <2>5 DEF Injection, IsInjective
    <2>7. h \in Surjection(X, Y)
      BY <2>2, <2>5 DEF Surjection
    <2> QED BY <2>6, <2>7 DEF Bijection
  <1>8. IsFiniteSet(X)
    BY <1>1, FS_Subset DEF Keyed
  <1> HIDE DEF X, Y, h
  <1>9. Cardinality(X) = Cardinality(Y)
    BY <1>7, <1>8, FS_Bijection DEF ExistsBijection
  <1> QED BY <1>4, <1>9 DEF Y

\* A histogram counts the events of each slot of time, from the ring, from the
\* rows of a database (late by the offset of its session) or from its rollup, for
\* every range, number and width of buckets and every sequence of batches.
THEOREM HistogramsTellEvents == Spec => []HistogramTruthful
  <1>1. HeldInv /\ RollupInv => HistogramTruthful
    <2> SUFFICES ASSUME HeldInv, RollupInv,
                        NEW b \in Backends, NEW q \in Ranges, NEW n \in BucketCounts,
                        NEW split \in {"status", "dc"},
                        NEW i \in 0..(Shape(b, q, n, Now).n - 1),
                        NEW k \in {BucketKey(e, split) : e \in Event}
                 PROVE  LET shape == Shape(b, q, n, Now)
                            rows == Selected(b, Held(b), q, Now)
                            meant(R) == Cardinality(InSlot(R, shape, split, i, k))
                        IN  CASE UseRollup(b, q, shape.to - shape.from) ->
                                   shape.from % Minute = 0 =>
                                     CountRollup(rollup, q, shape, split, i, k)
                                     = meant(UpTo(q, shape.to))
                              [] b = "memory" ->
                                   q.from # None =>
                                     CountRows(b, 0, rows, shape, split, i, k) = meant(rows)
                              [] OTHER ->
                                   shape.from % Second = 0 =>
                                     \A zone \in Zones, T \in Samples(rows) : ~Sampled(b, T) =>
                                       CountRows(b, zone, T, shape, split, i, k)
                                       = Cardinality(InSlot(rows, [shape EXCEPT !.from = @ + zone],
                                                            split, i, k))
      BY DEF HistogramTruthful
    <2> DEFINE shape == Shape(b, q, n, Now)
               rows == Selected(b, Held(b), q, Now)
               meant(R) == Cardinality(InSlot(R, shape, split, i, k))
               late(zone) == Cardinality(InSlot(rows, [shape EXCEPT !.from = @ + zone], split, i, k))
               long == UseRollup(b, q, shape.to - shape.from)
    <2>1. /\ shape.from \in Int /\ shape.to \in Int /\ shape.width \in Nat \ {0}
          /\ b = "memory" /\ q.from # None => shape.from = q.from
          /\ long => \E c \in Nat \ {0} : shape.width = c * Minute
      BY ShapeType
    <2>2. i \in Nat
      OBVIOUS
    <2>3. IsFiniteSet(rows) /\ \A r \in rows : r.time \in Nat
      BY HeldProper, SelectedProper DEF ProperRows
    <2>4. b = "memory" /\ q.from # None => \A r \in rows : r.time >= q.from
      <3> SUFFICES ASSUME b = "memory", q.from # None, NEW r \in rows PROVE r.time >= q.from
        OBVIOUS
      <3>1. PICK s \in Held(b) : r = Row(b, s) /\ Match(s.ev, q)
        BY DEF Selected
      <3>2. r.time = s.ev.time
        BY <3>1 DEF Row, StoredTime
      <3> QED BY <3>1, <3>2 DEF Match
    <2>5. long => b # "memory" /\ \A f \in q.filters : f.field = "dc"
      BY DEF UseRollup, Databases
    <2> HIDE DEF shape, rows, long
    <2>6. ASSUME long, shape.from % Minute = 0
          PROVE  CountRollup(rollup, q, shape, split, i, k) = meant(UpTo(q, shape.to))
      <3>1. PICK c \in Nat \ {0} : shape.width = c * Minute
        BY <2>1, <2>6
      <3> QED BY <2>1, <2>2, <2>5, <2>6, <3>1, RollupCounted DEF HeldInv
    <2>7. ASSUME b = "memory", q.from # None
          PROVE  CountRows(b, 0, rows, shape, split, i, k) = meant(rows)
      <3>1. [shape EXCEPT !.from = @ + 0] = shape
        <4>1. shape.from + 0 = shape.from
          BY <2>1
        <4>2. shape = [from |-> shape.from, to |-> shape.to, width |-> shape.width, n |-> shape.n]
          BY DEF shape, Shape
        <4> QED BY <4>1, <4>2
      <3>2. CountRows(b, 0, rows, shape, split, i, k)
            = Cardinality(InSlot(rows, [shape EXCEPT !.from = @ + 0], split, i, k))
        BY <2>1, <2>2, <2>3, <2>4, <2>7, RowsCounted
      <3> QED BY <3>1, <3>2
    <2>8. ASSUME b # "memory", shape.from % Second = 0,
                 NEW zone \in Zones, NEW T \in Samples(rows), ~Sampled(b, T)
          PROVE  CountRows(b, zone, T, shape, split, i, k) = late(zone)
      <3>1. T = rows
        BY <2>3, <2>8, SampleIsAll
      <3>2. zone \in Int
        BY ReadsAssumption
      <3>3. CountRows(b, zone, rows, shape, split, i, k) = late(zone)
        BY <2>1, <2>2, <2>3, <2>8, <3>2, RowsCounted
      <3> QED BY <3>1, <3>3
    <2> HIDE DEF meant, late
    <2>9. CASE long
      BY <2>5, <2>6, <2>9 DEF meant, late, shape, rows, long
    <2>10. CASE ~long /\ b = "memory"
      BY <2>7, <2>10 DEF meant, late, shape, rows, long
    <2>11. CASE ~long /\ b # "memory"
      BY <2>8, <2>11 DEF meant, late, shape, rows, long
    <2> QED BY <2>9, <2>10, <2>11
  <1> QED BY <1>1, HeldInvariant, RollupInvariant, PTL
=============================================================================
