------------------------------- MODULE Reads --------------------------------
(***************************************************************************)
(* The reads of the two storages, as operators on what they hold: pages of *)
(* events with their cursor, histograms, facets and suggestions, and what  *)
(* the HTTP API (server/api.go) makes of them.                             *)
(*                                                                         *)
(* S is a set of stored events [id, ev]; b says which backend reads them.  *)
(* A list that is sorted and cut to a length is the set of the elements    *)
(* that have fewer than that many before them.                             *)
(***************************************************************************)
EXTENDS Query, FiniteSetsExt

CONSTANTS
    Second, Minute, Hour, Day,  \* in ticks: only their order and divisibility matter
    RollupMin,     \* rollupMinRange: the span from which the rollup is read
    DefaultBuckets,
    MaxBuckets,    \* buckets the mysql storage gives at most
    Sample,        \* cfg.FacetSample
    DefaultFacet,  \* values of a facet for a limit of zero
    MaxSuggest,    \* suggestions the mysql storage gives at most
    DefaultSuggest,
    Rank           \* the order of names

ASSUME UnitsAssumption ==
    /\ Second \in Nat \ {0} /\ Minute \in Nat \ {0} /\ Minute % Second = 0
    /\ Hour \in Nat /\ Day \in Nat
    /\ Sample \in Nat \ {0}
ASSUME BucketsAssumption == DefaultBuckets \in Nat \ {0} /\ MaxBuckets \in Nat \ {0}
ASSUME SuggestAssumption == MaxSuggest \in Nat
ASSUME FacetAssumption == DefaultFacet \in Nat \ {0}
\* Go compares strings by their bytes: no two names are equal in the order.
ASSUME RankAssumption ==
    Rank \in [Names -> Nat] /\ \A m, n \in Names : Rank[m] = Rank[n] => m = n

Selected(b, S, q, now) ==
    IF b = "memory" THEN {Row(b, s) : s \in {x \in S : Match(x.ev, q)}}
    ELSE {r \in {Row(b, s) : s \in S} : Where(r, q, now)}

\* LIMIT after ORDER BY time only: any choice among rows of the same time.
Samples(R) ==
    {T \in SUBSET R : /\ Cardinality(T) = IF Cardinality(R) < Sample
                                          THEN Cardinality(R) ELSE Sample
                      /\ \A x \in T, y \in R \ T : x.time >= y.time}

\* The n first of the values V, each before the ones it Beats.
Top(V, n, Beats(_, _)) == {v \in V : Cardinality({w \in V : Beats(w, v)}) < n}

-----------------------------------------------------------------------------
(* Events, and the cursor as it travels to the client and back.            *)

CursorString(c) == IF c = None THEN None ELSE [ms |-> Ms(c.time), id |-> c.id]
ParseCursor(x) == IF x = None THEN None ELSE [time |-> OfMs(x.ms), id |-> x.id]

\* Mutant: the row of the cursor itself comes again.
PastInclusive(R, c) ==
    {r \in R : c = None \/ r.time < c.time \/ (r.time = c.time /\ r.id <= c.id)}

\* The rows after the cursor in the newest-first order.
Past(R, c) ==
    {r \in R : c = None \/ r.time < c.time \/ (r.time = c.time /\ r.id < c.id)}

EventsPage(b, S, q, c, n, now) ==
    LET rest == Past(Selected(b, S, q, now), c)
        page == Newest(rest, Limit(b, n))
        more == Cardinality(rest) > Limit(b, n)
        last == CHOOSE r \in page : \A x \in page : ~Newer(r, x)
    IN  [events |-> page, more |-> more,
         next |-> IF more THEN [time |-> last.time, id |-> last.id] ELSE None]

-----------------------------------------------------------------------------
(* Histograms.                                                             *)

\* Integer division in Go drops the fraction towards zero.
Quot(x, y) == IF x >= 0 THEN x \div y ELSE -((-x) \div y)

Floor(t, unit) == (t \div unit) * unit

UseRollup(b, q, span) ==
    /\ b \in Databases
    /\ \A f \in q.filters : f.field = "dc"
    /\ q.text = None
    /\ span >= RollupMin

BucketKey(r, split) == IF split = "dc" THEN r.val["dc"] ELSE r.val["to"]

\* The range, the width and the number of the buckets.  A range without a lower
\* bound, for a database also one that starts at minTime or before, is an hour.
Shape(b, q, buckets, now) ==
    LET to == IF q.to = None THEN now ELSE q.to
        open == IF b \in Databases THEN From(q) = MinTime ELSE q.from = None
        from == IF open THEN to - Hour ELSE q.from
        asked == IF buckets <= 0 THEN DefaultBuckets ELSE buckets
        wanted == IF b \in Databases /\ asked > MaxBuckets THEN MaxBuckets ELSE asked
        width == Floor((to - from + wanted - 1) \div wanted,
                       IF UseRollup(b, q, to - from) THEN Minute ELSE Second)
        least == IF UseRollup(b, q, to - from) THEN Minute ELSE Second
        w == IF width < least THEN least ELSE width
    IN  [from |-> from, to |-> to, width |-> w,
         n |-> IF to <= from THEN 0 ELSE (to - from + w - 1) \div w]

\* The events counted in bucket i under key k, read from the rows R.  Columns hold
\* UTC; UNIX_TIMESTAMP reads them in the time zone of the session, zone ahead of it.
CountRows(b, zone, R, shape, split, i, k) ==
    LET index(t) == IF b = "memory" THEN Quot(t - shape.from, shape.width)
                    ELSE (t - zone - Floor(shape.from, Second)) \div shape.width
    IN  Cardinality({r \in R : index(r.time) = i /\ BucketKey(r, split) = k})

\* The minutes of the rollup that a range touches: BETWEEN.
Minutes(shape) == Floor(shape.from, Minute)..shape.to

\* The same read from the rollup, a table of counts per dc, minute and status.
CountRollup(rollup, q, shape, split, i, k) ==
    LET hits == {x \in DOMAIN rollup :
                    /\ x.minute \in Minutes(shape)
                    /\ Filtered(x, q)
                    /\ Quot(x.minute - shape.from, shape.width) = i
                    /\ BucketKey(x, split) = k}
    IN  MapThenSumSet(LAMBDA x : rollup[x], hits)

-----------------------------------------------------------------------------
(* Facets.                                                                 *)

Count(R, field, v) == Cardinality({r \in R : v \in FieldValues(r, field)})

FacetLimit(n) == IF n <= 0 THEN DefaultFacet ELSE n

\* The counts of a field over the rows R, cut to the most frequent values.
FacetValues(R, field, n) ==
    LET values == UNION {FieldValues(r, field) : r \in R}
        beats(w, v) == \/ Count(R, field, w) > Count(R, field, v)
                       \/ Count(R, field, w) = Count(R, field, v) /\ Rank[w] < Rank[v]
    IN  {<<v, Count(R, field, v)>> : v \in Top(values, FacetLimit(n), beats)}

\* Mutant: a full sample does not count as one.
SampledOver(b, T) == b \in Databases /\ Cardinality(T) > Sample
Sampled(b, T) == b \in Databases /\ Cardinality(T) >= Sample

-----------------------------------------------------------------------------
(* Suggestions: names that begin with a prefix, in order.                  *)

Before(m, n) == Rank[m] < Rank[n]

\* reg is the set of instance records.  The database compares, orders and makes
\* distinct by its collation; it has no suggestions for the other fields.
Suggest(b, S, reg, dc, field, prefix, n, now) ==
    LET sql == b \in Databases
        here(x) == dc = None \/ (IF sql THEN Same(x.val["dc"], dc) ELSE x.val["dc"] = dc)
        stored ==
            CASE ~sql -> UNION {FieldValues(s.ev, field) : s \in {x \in S : here(x.ev)}}
              [] sql /\ field = "check" ->
                   {r.val["check"] : r \in {x \in {Row(b, s) : s \in S} : here(x) /\ x.time > now - Day}}
              [] sql /\ field = "dc" -> {in.val["dc"] : in \in reg}
              [] sql /\ field = "tag" -> UNION {in.tags : in \in {x \in reg : here(x)}}
              [] OTHER -> {in.val[field] : in \in {x \in reg : here(x)}} \ {""}
        begin == {v \in stored : IF sql THEN Like(v, prefix) ELSE v \in Starts[prefix]}
        values == IF sql THEN {CHOOSE w \in begin : Same(w, v) : v \in begin} ELSE begin
        order(w, v) == IF sql THEN Before(Fold[w], Fold[v]) ELSE Before(w, v)
        size == IF n <= 0 \/ (sql /\ n > MaxSuggest) THEN DefaultSuggest ELSE n
    IN  Top(values, size, order)

\* Mutant: the names known live are added after the cut.
HandleSuggestAppend(values, live, prefix, n) ==
    Top(values, n, Before) \cup {v \in live : v \in Starts[prefix]}

\* handleSuggest: what is stored and, in the local datacenter, what is live.
\* For a limit below zero the slice expression of the code panics.
HandleSuggest(values, live, prefix, n) ==
    Top(values \cup {v \in live : v \in Starts[prefix]}, n, Before)
=============================================================================
