-------------------------------- MODULE Rows --------------------------------
(***************************************************************************)
(* Event times and the order of stored events, as the backends and the     *)
(* live stream see them.                                                   *)
(*                                                                         *)
(* Times are counted in ticks of half a millisecond, the finest difference *)
(* that matters: an event's time comes from time.Now, while cursors, frame *)
(* ids and the DATETIME(3) columns hold whole milliseconds.  A stored      *)
(* event is a record with at least an id and a time.                       *)
(***************************************************************************)
EXTENDS Integers, FiniteSets

CONSTANTS
    DefaultLimit,   \* what a limit of zero stands for
    MaxLimit        \* maxLimit of storage/mysql/query.go

ASSUME LimitsAssumption == DefaultLimit \in Nat \ {0} /\ MaxLimit \in Nat \ {0}

Milli == 2                 \* ticks in a millisecond
Ms(t) == t \div Milli      \* Time.UnixMilli
OfMs(m) == m * Milli       \* time.UnixMilli

\* The README runs the mysql storage on MySQL or MariaDB.  The first rounds a
\* time to the precision of its column, the second cuts it.
Databases == {"mysql", "mariadb"}
Backends == Databases \cup {"memory"}

StoredTime(b, t) ==
    CASE b = "memory"  -> t
      [] b = "mysql"   -> OfMs((t + 1) \div Milli)
      [] b = "mariadb" -> OfMs(Ms(t))

\* a comes before b in the newest-first order.
Newer(a, b) == a.time > b.time \/ (a.time = b.time /\ a.id > b.id)

\* The n first elements of S, newest first and oldest first.
Newest(S, n) == {r \in S : Cardinality({s \in S : Newer(s, r)}) < n}
Oldest(S, n) == {r \in S : Cardinality({s \in S : Newer(r, s)}) < n}

\* The size of an answer of backend b that is asked for n elements.
Limit(b, n) ==
    CASE n <= 0                          -> DefaultLimit
      [] b \in Databases /\ n > MaxLimit -> MaxLimit
      [] OTHER                           -> n

\* The time a live stream resumes from is a whole number of milliseconds, ms.
\* S holds the rows of one datacenter, with the times the backend stores.
Since(b, S, ms, n) ==
    Oldest({r \in S : IF b = "memory" THEN r.time >= OfMs(ms) + Milli
                     ELSE r.time > OfMs(ms)}, Limit(b, n))
=============================================================================
