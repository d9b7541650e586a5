------------------------------- MODULE Query --------------------------------
(***************************************************************************)
(* Which events a query selects: the filters of the HTTP API               *)
(* (server/api.go), their meaning in Go (storage/storage.go, used by the   *)
(* memory storage and the live stream) and the SQL they become             *)
(* (storage/mysql/query.go).                                               *)
(*                                                                         *)
(* Strings are atoms.  Starts[p] is the set of names that begin with p,    *)
(* Fold[n] what the database compares of a name: its columns have a        *)
(* collation that ignores case.  A filter value is a name and whether a    *)
(* "*" follows it.                                                         *)
(*                                                                         *)
(* An event is a record: its time; val, its value for every field that has *)
(* one value; its tags; words, the texts found in its check output or in   *)
(* the names of its service, node or check; and cut, the words found only  *)
(* in the part of the output that the mysql storage does not keep.         *)
(***************************************************************************)
EXTENDS Rows

CONSTANTS
    Names, Starts, Fold,
    Numbers,   \* the texts that strconv.Atoi accepts
    None,      \* an absent datacenter, time bound, text or cursor
    MinTime    \* minTime, the year 2000; times are counted from a later moment

ASSUME NamesAssumption ==
    /\ Starts \in [Names -> SUBSET Names] /\ \A n \in Names : n \in Starts[n]
    /\ Fold \in [Names -> Names] /\ \A n \in Names : Fold[Fold[n]] = Fold[n]

NameFields == {"dc", "service", "node", "check", "team", "app", "version"}
EnumFields == {"kind", "to", "from", "healthy"}
Fields == NameFields \cup EnumFields \cup {"type", "tag"}

EnumValues ==
    [kind |-> {"unknown", "check", "instance", "node"},
     to |-> {"unknown", "missing", "critical", "warning", "passing", "maintenance"},
     from |-> {"unknown", "missing", "critical", "warning", "passing", "maintenance"},
     healthy |-> Numbers]
ASSUME MinTimeAssumption == MinTime \in Int /\ MinTime <= 0
-----------------------------------------------------------------------------
(* server/api.go: a request is the datacenter, the bounds, the text and    *)
(* the "f" parameters, each a field, a value and whether a "-" excludes.   *)

Filters(raws) ==
    {[field |-> r.field, not |-> r.not,
      values |-> {s.value : s \in {x \in raws : x.field = r.field /\ x.not = r.not}}]
        : r \in raws}

ParseQuery(req) ==
    [dc |-> IF req.dc = "all" THEN None ELSE req.dc, from |-> req.from,
     to |-> req.to, text |-> req.text, filters |-> Filters(req.raws)]

Validate(q) ==
    \A f \in q.filters :
        /\ f.field \in Fields
        /\ f.values # {}
        /\ f.field \in EnumFields =>
             \A v \in f.values : ~v.star /\ v.name \in EnumValues[f.field]

-----------------------------------------------------------------------------
(* storage/storage.go.                                                     *)

MatchName(name, v) == IF v.star THEN name \in Starts[v.name] ELSE name = v.name

MatchOne(field, e, v) ==
    CASE field \in NameFields -> MatchName(e.val[field], v)
      [] field = "tag"        -> \E t \in e.tags : MatchName(t, v)
      [] OTHER                -> ~v.star /\ e.val[field] = v.name

Match(e, q) ==
    /\ q.dc \in {None, e.val["dc"]}
    /\ q.from = None \/ e.time >= q.from
    /\ q.to = None \/ e.time <= q.to
    /\ \A f \in q.filters : (\E v \in f.values : MatchOne(f.field, e, v)) # f.not
    /\ q.text \in e.words \cup {None}

FieldValues(e, field) == IF field = "tag" THEN e.tags ELSE {e.val[field]} \ {""}

-----------------------------------------------------------------------------
(* storage/mysql: a row r is an event as the table holds it.               *)

\* storeChunk: what backend b keeps of the event s.ev with number s.id.
Row(b, s) ==
    [id |-> s.id, time |-> StoredTime(b, s.ev.time), val |-> s.ev.val, tags |-> s.ev.tags,
     words |-> IF b = "memory" THEN s.ev.words ELSE s.ev.words \ s.ev.cut]

Same(m, n) == Fold[m] = Fold[n]
Like(name, p) == Fold[name] \in Starts[Fold[p]]

\* Tags are JSON strings, compared exactly.
SQLOne(field, r, v) ==
    CASE field \in EnumFields -> r.val[field] = v.name
      [] field = "tag"        -> \E t \in r.tags : MatchName(t, v)
      [] OTHER                -> IF v.star THEN Like(r.val[field], v.name)
                                 ELSE Same(r.val[field], v.name)

\* Mutant: NOT binds to the first alternative only.
FilterSQLLoose(f, r) ==
    IF f.not THEN \E v \in f.values : ~SQLOne(f.field, r, v)
    ELSE \E v \in f.values : SQLOne(f.field, r, v)

FilterSQL(f, r) == (\E v \in f.values : SQLOne(f.field, r, v)) # f.not

\* The datacenter and the filters of a query.
Filtered(r, q) ==
    /\ q.dc = None \/ Same(r.val["dc"], q.dc)
    /\ \A f \in q.filters : FilterSQL(f, r)

\* bounds: a lower bound that is absent or before minTime becomes minTime.
From(q) == IF q.from = None \/ q.from < MinTime THEN MinTime ELSE q.from

\* buildWhere, with the bounds of a query made at the time now.
Where(r, q, now) ==
    /\ r.time >= From(q)
    /\ r.time <= IF q.to = None THEN now ELSE q.to
    /\ Filtered(r, q)
    /\ q.text \in r.words \cup {None}

-----------------------------------------------------------------------------
(* Properties of the operators, for an event s of a storage.               *)

\* What the comment of parseQuery says: the values of a field and sign are
\* alternatives, and "-" excludes.  The event s matches when every field that
\* is asked for has one of the values asked for, and nothing excluded.
FilterMeans(s, req) ==
    LET raws(field, not) == {r \in req.raws : r.field = field /\ r.not = not}
        hits(R) == {r \in R : MatchOne(r.field, s.ev, r.value)}
        q == [ParseQuery(req) EXCEPT !.from = None, !.to = None, !.text = None, !.dc = None]
    IN  Validate(q) => Match(s.ev, q) <=>
        \A field \in Fields : /\ raws(field, FALSE) # {} => hits(raws(field, FALSE)) # {}
                              /\ hits(raws(field, TRUE)) = {}

\* Where the filters of the two kinds of backend are not the same: a prefix of
\* a check type, which Go compares as it stands; names with letters of either
\* case; an event moved over a bound when its time was rounded or cut; one later
\* than now in a query without upper bound; a text in the output that was cut.
Differ(b, s, q, now) ==
    LET t == StoredTime(b, s.ev.time)
        cased(n) == Fold[n] # n
    IN  \/ q.dc # None /\ (cased(q.dc) \/ cased(s.ev.val["dc"]))
        \/ \E f \in q.filters : \E v \in f.values :
              \/ f.field = "type" /\ v.star
              \/ f.field \in NameFields \cup {"type"}
                 /\ (cased(v.name) \/ cased(s.ev.val[f.field]))
        \/ q.from # None /\ ((t >= q.from) # (s.ev.time >= q.from))
        \/ q.to # None /\ ((t <= q.to) # (s.ev.time <= q.to))
        \/ q.to = None /\ t > now
        \/ q.text \in s.ev.cut

\* "filter semantics, shared by every backend and the live stream": with the
\* exceptions of Differ, the table and the ring select the same events.
SameFilter(b, s, q, now) ==
    Validate(q) /\ ~Differ(b, s, q, now) => (Match(s.ev, q) <=> Where(Row(b, s), q, now))
=============================================================================
