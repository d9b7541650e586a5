----------------------------- MODULE MCStorage ------------------------------
(***************************************************************************)
(* A small instance of Storage: four events whose times share milliseconds *)
(* or differ by less than one, whose names are prefixes of one another or  *)
(* differ only by case, in two datacenters; a millisecond has 2 ticks, a   *)
(* second 4, a minute 8.                                                   *)
(***************************************************************************)
EXTENDS Storage

\* The names, in the order of their bytes.
MCOrder == <<"", "1", "A", "a", "ab", "b", "check", "critical", "d1", "d2", "ht", "http",
             "node", "passing", "x", "xy">>

MCNames == {MCOrder[i] : i \in DOMAIN MCOrder}
MCRank == [n \in MCNames |-> CHOOSE i \in DOMAIN MCOrder : MCOrder[i] = n]

MCStarts ==
    [p \in MCNames |->
        CASE p = ""   -> MCNames
          [] p = "a"  -> {"a", "ab"}
          [] p = "ht" -> {"ht", "http"}
          [] p = "x"  -> {"x", "xy"}
          [] OTHER    -> {p}]

MCFold == [n \in MCNames |-> IF n = "A" THEN "a" ELSE n]

event(time, dc, service, kind, to, type, tags, words, cut) ==
    [time |-> time, tags |-> tags, words |-> words \cup {service}, cut |-> cut,
     val |-> [dc |-> dc, service |-> service, kind |-> kind, to |-> to, type |-> type,
              node |-> "b", healthy |-> "1"]]

MCEvent ==
    {event(2, "d1", "a", "check", "critical", "http", {"x"}, {"x"}, {}),
     event(3, "d1", "ab", "check", "passing", "http", {"x", "xy"}, {"x"}, {"x"}),
     event(9, "d1", "a", "node", "passing", "ht", {"xy"}, {}, {}),
     event(17, "d2", "A", "check", "critical", "", {}, {"a"}, {})}

MCInstance ==
    {[first |-> p[1], last |-> p[1], tags |-> {"x"},
      val |-> [dc |-> "d1", node |-> p[2], id |-> "b", service |-> "ab", team |-> "", app |-> "",
               version |-> ""]] : p \in {<<1, "a">>, <<3, "a">>, <<6, "A">>}}

query(dc, from, to, filters) ==
    [dc |-> dc, from |-> from, to |-> to, text |-> None, filters |-> filters]

only(field, name) ==
    {[field |-> field, not |-> FALSE, values |-> {[name |-> name, star |-> FALSE]}]}

MCMinTime == -8

MCPageQueries == {query(None, None, None, {}), query("d1", 2, 9, {})}

raw(field, name, star, not) ==
    [field |-> field, not |-> not, value |-> [name |-> name, star |-> star]]

MCRaws ==
    {raw("service", "a", TRUE, FALSE), raw("service", "A", FALSE, FALSE),
     raw("service", "a", FALSE, TRUE), raw("tag", "x", TRUE, TRUE),
     raw("tag", "xy", FALSE, TRUE), raw("kind", "check", FALSE, FALSE),
     raw("to", "passing", FALSE, TRUE), raw("type", "ht", TRUE, FALSE),
     raw("healthy", "1", FALSE, FALSE), raw("healthy", "x", FALSE, FALSE)}

MCRequests ==
    {[dc |-> "all", from |-> None, to |-> None, text |-> None, raws |-> {r, s}]
        : r \in MCRaws, s \in MCRaws}
    \cup {[dc |-> dc, from |-> from, to |-> to, text |-> text, raws |-> {}]
        : dc \in {"all", "d1"}, from \in {None, 3, 4}, to \in {None, 3, 9},
          text \in {None, "x", "a"}}

MCRanges ==
    {query(None, from, to, {}) : from \in {None, -9, 0, 2, 4, 8}, to \in {None, 9, 17, 24}}
    \cup {query("d1", 0, 16, {}), query(None, 0, 24, only("dc", "d2")),
          query(None, 0, 24, only("service", "a"))}
=============================================================================
