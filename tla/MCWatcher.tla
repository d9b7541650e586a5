------------------------------ MODULE MCWatcher ------------------------------
(***************************************************************************)
(* Small instances of Watcher: a service with one instance that is healthy *)
(* or not, a node whose agent check is passing or not.                     *)
(***************************************************************************)
EXTENDS Watcher

MCNodeCheckIDs == {"serfHealth"}
MCServiceCheckIDs == {"http"}

instance(status) ==
    [reg |-> [address |-> 1, tags |-> {}, meta |-> {}, nodeMeta |-> {}], ip |-> 1,
     checks |-> [serfHealth |-> "passing", http |-> status]]

service(status) == [here |-> TRUE, body |-> [i \in {"i1"} |-> instance(status)]]

node(status) ==
    [here |-> TRUE, body |-> [serfHealth |-> status, http |-> "passing"]]

MCPossible ==
    [n \in Names |->
        {Absent} \cup
        {IF n \in Services THEN service(s) ELSE node(s) : s \in {"passing", "critical"}}]

\* Names only come and go.
MCPresence == [n \in Names |-> {Absent, IF n \in Services THEN service("passing") ELSE node("passing")}]
=============================================================================
