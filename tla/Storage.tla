------------------------------ MODULE Storage -------------------------------
(***************************************************************************)
(* The two storages side by side.  Every batch goes to the memory storage  *)
(* (module MemoryStorage) and to the tables of the mysql storage; a client *)
(* reads pages of events from one of them while writes go on, giving back  *)
(* the cursor it was given.  What the other reads answer is compared with  *)
(* what is stored, and between the storages.                               *)
(***************************************************************************)
EXTENDS MemoryStorage, Reads

CONSTANTS
    Now,          \* the time of the reads
    PageSize,     \* the limit a client asks for
    PageQueries,  \* the queries it pages through
    Requests,     \* requests whose filters are compared
    Ranges,       \* queries histograms and facets are computed for
    BucketCounts, \* numbers of buckets asked for
    Zones,        \* time zones of a database session, as offsets from UTC
    Moves,        \* how far a client's range moves from one page to the next
    Live          \* services the watcher knows of

ASSUME EventAssumption ==
    \A e \in Event : /\ e.time \in Nat
                     /\ IsFiniteSet(e.tags) /\ e.tags \subseteq Names
                     /\ e.val["service"] \in Names /\ e.val["to"] \in Names
InstanceFields == (NameFields \ {"check"}) \cup {"id"}
ASSUME InstanceAssumption ==
    /\ IsFiniteSet(Keys)
    /\ Instance \subseteq [first : Nat, last : Nat, tags : SUBSET Names,
                           val : [InstanceFields -> Names]]
ASSUME RequestsAssumption ==
    \A req \in Requests : /\ req.from = None \/ req.from \in Int
                          /\ \A r \in req.raws : r.not \in BOOLEAN
ASSUME ReadsAssumption ==
    /\ PageSize \in Int /\ Now \in Nat /\ BucketCounts \subseteq Int
    /\ Zones \subseteq Int /\ Moves \subseteq Nat
    /\ \A q \in Ranges : /\ q.from = None \/ q.from \in Int
                         /\ q.to = None \/ q.to \in Int
    /\ \A q \in PageQueries : /\ q = [dc |-> q.dc, from |-> q.from, to |-> q.to,
                                     text |-> q.text, filters |-> q.filters]
                              /\ q.from = None \/ q.from \in Int
                              /\ q.to = None \/ q.to \in Int
    /\ IsFiniteSet(Live) /\ Live \subseteq Names
ASSUME NoneAssumption ==
    /\ None \notin [time : Nat, id : Nat] \cup [ms : Nat, id : Nat]
    /\ None \notin Int

VARIABLES
    table,     \* events_v2, each row with the event as it was given
    rollup,    \* events_rollup
    registry,  \* the instances table of each database
    pager      \* the client

vars == <<memVars, table, rollup, registry, pager>>

\* Consul has datacenter names in lower case only: the collation of the key is
\* of no effect.
RollupKey(e) ==
    [minute |-> Floor(e.time, Minute),
     val |-> [dc |-> e.val["dc"], kind |-> e.val["kind"], to |-> e.val["to"]]]

\* PRIMARY KEY (dc, node_name, service_id), compared without regard to case.
PrimaryKey(k) == [f \in KeyFields |-> Fold[k[f]]]
PrimaryKeys == {PrimaryKey(k) : k \in Keys}

Init ==
    /\ MemInit
    /\ table = {}
    /\ rollup = <<>>
    /\ registry = [b \in Databases |-> [k \in PrimaryKeys |-> NoInstance]]
    /\ pager = [on |-> FALSE]

RowsOf(batch) == {[id |-> Cardinality(table) + i, ev |-> batch[i]] : i \in DOMAIN batch}

\* Mutant: the rollup counts the statuses of a batch, not its events.
CountedOnce(batch) ==
    [k \in DOMAIN rollup \cup {RollupKey(batch[i]) : i \in DOMAIN batch} |->
        (IF k \in DOMAIN rollup THEN rollup[k] ELSE 0)
        + IF \E i \in DOMAIN batch : RollupKey(batch[i]) = k THEN 1 ELSE 0]

\* The counts after those of a batch are added: on a duplicate key n = n + VALUES(n).
Counted(batch) ==
    [k \in DOMAIN rollup \cup {RollupKey(batch[i]) : i \in DOMAIN batch} |->
        (IF k \in DOMAIN rollup THEN rollup[k] ELSE 0)
        + Cardinality({i \in DOMAIN batch : RollupKey(batch[i]) = k})]

\* The transaction of storeChunk.
InsertEvents(batch) ==
    /\ table' = table \cup RowsOf(batch)
    /\ rollup' = Counted(batch)

\* What the columns hold of a record: first_seen and last_seen are DATETIME(3).
InstanceRow(b, in) == [in EXCEPT !.first = StoredTime(b, in.first),
                                 !.last = StoredTime(b, in.last)]

\* Mutant: REPLACE, which writes the row anew.
DuplicateFresh(old, row) == row

\* On a duplicate key every column is replaced but first_seen and those of the
\* key, which keeps the letters it was first written with.
Duplicate(old, row) ==
    IF old = NoInstance THEN row
    ELSE [row EXCEPT !.first = old.first,
                     !.val = [f \in InstanceFields |->
                                IF f \in KeyFields THEN old.val[f] ELSE row.val[f]]]

Put(b, rows, in) ==
    [rows EXCEPT ![PrimaryKey(Key(in))] = Duplicate(@, InstanceRow(b, in))]

\* upsertChunk.
Upserted(b, batch) ==
    LET rows[i \in 0..Len(batch)] ==
            IF i = 0 THEN registry[b] ELSE Put(b, rows[i - 1], batch[i])
    IN  rows[Len(batch)]

Store(batch) ==
    /\ StoreEvents(batch)
    /\ InsertEvents(batch)
    /\ UNCHANGED <<registry, pager>>

Upsert(batch) ==
    /\ UpsertInstances(batch)
    /\ registry' = [b \in Databases |-> Upserted(b, batch)]
    /\ UNCHANGED <<table, rollup, pager>>

MemStep ==
    /\ StoreNext \/ UpsertNext \/ Unlock
    /\ UNCHANGED <<table, rollup, registry, pager>>

-----------------------------------------------------------------------------
(* A client that pages: GET /api/v1/events.                                *)

Held(b) == IF b = "memory" THEN Kept ELSE table

Brief(R) == {[id |-> r.id, time |-> r.time] : r \in R}

\* Mutant: the cursor of the answer is kept although there is no next page.
AnswerNoEnd(b, q, c) ==
    LET page == EventsPage(b, Held(b), q, ParseCursor(c), PageSize, Now)
    IN  [events |-> Brief(page.events), cursor |-> CursorString(page.next), more |-> FALSE]

\* handleEvents.
Answer(b, q, c) ==
    LET page == EventsPage(b, Held(b), q, ParseCursor(c), PageSize, Now)
    IN  [events |-> Brief(page.events), cursor |-> CursorString(page.next), more |-> page.more]

\* The first page, without a cursor; start is what there was to page through.
FirstPage(b, q) ==
    /\ ~pager.on
    /\ mu = "free"
    /\ LET a == Answer(b, q, None)
       IN  pager' = [on |-> TRUE, b |-> b, q |-> q, cursor |-> a.cursor, more |-> a.more,
                     page |-> a.events, got |-> a.events, edges |-> {a.cursor} \ {None},
                     start |-> Brief(Selected(b, Held(b), q, Now))]
    /\ UNCHANGED <<memVars, table, rollup, registry>>

\* The bounds of a selection move with time; an absent one stays absent.
Moved(q, d) ==
    LET later(t) == IF t = None THEN None ELSE t + d
    IN  [q EXCEPT !.from = later(q.from), !.to = later(q.to)]

\* The next page, of the selection as it is by then.
NextPage(d) ==
    /\ pager.on /\ pager.more
    /\ mu = "free"
    /\ LET q == Moved(pager.q, d)
           a == Answer(pager.b, q, pager.cursor)
       IN  pager' = [pager EXCEPT !.q = q, !.cursor = a.cursor, !.more = a.more, !.page = a.events,
                                  !.got = @ \cup a.events,
                                  !.edges = @ \cup ({a.cursor} \ {None})]
    /\ UNCHANGED <<memVars, table, rollup, registry>>

Next ==
    \/ \E batch \in Batches(Event) : Store(batch)
    \/ \E batch \in Batches(Instance) : Upsert(batch)
    \/ MemStep
    \/ \E b \in Backends, q \in PageQueries : FirstPage(b, q)
    \/ \E d \in Moves : NextPage(d)

Spec == Init /\ [][Next]_vars

-----------------------------------------------------------------------------
(* Properties.                                                             *)

\* The table rows of database b has the records of the map.  Records whose keys
\* differ by case share a row, which has the key and first_seen of one of them
\* and the other columns of one of them.
Agree(b, map, rows) ==
    \A k \in PrimaryKeys :
        LET spelled == {map[j] : j \in {x \in Keys : PrimaryKey(x) = k}} \ {NoInstance}
        IN  IF spelled = {} THEN rows[k] = NoInstance
            ELSE /\ rows[k] # NoInstance
                 /\ \E in \in spelled : /\ rows[k].first = StoredTime(b, in.first)
                                        /\ Key(rows[k]) = Key(in)
                 /\ \E in \in spelled : /\ rows[k].last = StoredTime(b, in.last)
                                        /\ rows[k].tags = in.tags
                                        /\ \A f \in InstanceFields \ KeyFields :
                                             rows[k].val[f] = in.val[f]

\* After the same calls a table holds the records of the map: first_seen is that
\* of the first call and the rest that of the last, as the columns round the
\* times and the key tells names apart.
RegistriesAgree == mu = "free" => \A b \in Databases : Agree(b, instances, registry[b])

\* "continue after this position": a page repeats nothing of an earlier page
\* and is older than it throughout, whatever is stored in between.
PagesDescend ==
    [][pager.on /\ pager'.on =>
         \A x \in pager'.page, y \in pager.got : Newer(y, x)]_pager

\* A client that follows the cursors to the end has every event that was there
\* when it started, unless its range has moved past the event, the ring has
\* overwritten it, or the event shares its millisecond with the last one of a
\* page of the memory storage: the cursor holds milliseconds, and the ring
\* orders by finer times.
PagesComplete ==
    pager.on /\ ~pager.more =>
        \A r \in pager.start \ pager.got :
            \/ pager.q.from # None /\ r.time < pager.q.from
            \/ /\ pager.b = "memory"
               /\ \/ r.id \notin {s.id : s \in Kept}
                  \/ \E c \in pager.edges : c.ms = Ms(r.time)

\* The other reads take one step; they are looked at before a client pages.
Quiet == mu = "free" /\ ~pager.on

\* "same field and sign accumulate as alternatives", "-" excludes, and "filter
\* semantics, shared by every backend": a request means that, in Go and, with the
\* exceptions of Differ, in SQL.  Checked for each event when it is the newest.
SameFilters ==
    Quiet /\ size > 0 =>
        \A req \in Requests :
            /\ FilterMeans(At(0), req)
            /\ \A b \in Databases : SameFilter(b, At(0), ParseQuery(req), Now)

\* The rows of R that belong in bucket i under key k.
InSlot(R, shape, split, i, k) ==
    LET start == shape.from + i * shape.width
    IN  {r \in R : r.time \in start..(start + shape.width - 1) /\ BucketKey(r, split) = k}

\* The events, at their own times, of the minutes up to the end of a range.
UpTo(q, to) ==
    {r \in {Row("memory", s) : s \in table} :
        Floor(r.time, Minute) <= to /\ Filtered(r, q)}

\* Every bucket counts the selected events of its slot of time, whichever way
\* it is computed: from the ring, from the rows (if the range starts at a whole
\* second) or from the rollup (a whole minute; it also counts what is later
\* than the range in its last minute).  Read from the rows, the slots are those of
\* the session's time zone: late by its offset, which nothing sets to UTC.
HistogramTruthful ==
    Quiet =>
    \A b \in Backends, q \in Ranges, n \in BucketCounts, split \in {"status", "dc"} :
        LET shape == Shape(b, q, n, Now)
            rows == Selected(b, Held(b), q, Now)
            meant(R, i, k) == Cardinality(InSlot(R, shape, split, i, k))
        IN  \A i \in 0..(shape.n - 1), k \in {BucketKey(e, split) : e \in Event} :
              CASE UseRollup(b, q, shape.to - shape.from) ->
                     shape.from % Minute = 0 =>
                       CountRollup(rollup, q, shape, split, i, k) = meant(UpTo(q, shape.to), i, k)
                [] b = "memory" ->
                     q.from # None => CountRows(b, 0, rows, shape, split, i, k) = meant(rows, i, k)
                [] OTHER ->
                     shape.from % Second = 0 =>
                       \A zone \in Zones, T \in Samples(rows) : ~Sampled(b, T) =>
                         CountRows(b, zone, T, shape, split, i, k)
                         = Cardinality(InSlot(rows, [shape EXCEPT !.from = @ + zone], split, i, k))

\* "When Sampled is set, the counts come from the SampleSize most recent
\* matching events only": when it is not, they are those of all of them, and a
\* value that is not listed is not more frequent than the ones that are.
UnsampledComplete ==
    Quiet =>
    \A b \in Backends, q \in Ranges, field \in {"service", "to", "tag"} :
        LET rows == Selected(b, Held(b), q, Now)
        IN  \A T \in (IF b = "memory" THEN {rows} ELSE Samples(rows)) :
              ~Sampled(b, T) =>
                LET top == FacetValues(T, field, PageSize)
                    listed == {p[1] : p \in top}
                IN  /\ \A p \in top : p[2] = Count(rows, field, p[1])
                    /\ \A v \in (UNION {FieldValues(r, field) : r \in rows}) \ listed :
                         /\ Cardinality(listed) = FacetLimit(PageSize)
                         /\ \A p \in top : Count(rows, field, v) <= p[2]

Records(b) == {registry[b][k] : k \in PrimaryKeys} \ {NoInstance}

\* "what is registered right now may not have produced a stored event yet":
\* a suggestion list holds the first names of both kinds, and no name is left
\* out for one that comes after it.  A database cuts its list in the order of its
\* collation, so this is about registries whose names have no upper case.
SuggestComplete ==
    Quiet =>
    \A b \in Backends, n \in 1..MaxSuggest, prefix \in Names :
        LET reg == IF b = "memory" THEN {} ELSE Records(b)
            stored(m) == Suggest(b, Held(b), reg, None, "service", prefix, m, Now)
            all == stored(MaxSuggest) \cup {v \in Live : v \in Starts[prefix]}
        IN  (b \in Databases => \A in \in reg : Fold[in.val["service"]] = in.val["service"])
            => HandleSuggest(stored(n), Live, prefix, n) = Top(all, n, Before)
=============================================================================
