------------------------------- MODULE Compare -------------------------------
(***************************************************************************)
(* The comparison of two consecutive states of a service or of a node:     *)
(* watch/compare.go, with the statuses of timeline/event.go.               *)
(*                                                                         *)
(* The checks of an instance or a node are a function from check ids to    *)
(* the status Consul gives them.  A state of a service is a function from  *)
(* instance keys (node, service id) to instances                           *)
(*    [reg |-> registration, ip |-> address of the node, checks |-> ...]   *)
(* Map iteration in Go has no order, so an operator that emits messages    *)
(* returns the set of the sequences in which they may be emitted.          *)
(***************************************************************************)
EXTENDS Integers, FiniteSets, Sequences, SequencesExt, Functions

CONSTANTS
    NodeCheckIDs,     \* ids of node-level checks: no ServiceID
    ServiceCheckIDs,  \* ids of the checks of a service instance
    MaintCheckIDs     \* api.NodeMaint and the ids with api.ServiceMaintPrefix

ASSUME CheckIDsAssumption ==
    /\ NodeCheckIDs \cap ServiceCheckIDs = {}
    /\ MaintCheckIDs \subseteq NodeCheckIDs \cup ServiceCheckIDs
    /\ "" \notin NodeCheckIDs \cup ServiceCheckIDs

CheckIDs == NodeCheckIDs \cup ServiceCheckIDs

\* Statuses of a timeline event; "unknown" is the zero value.
Status == {"unknown", "missing", "critical", "warning", "passing", "maintenance"}

\* Statuses Consul gives a check.
ConsulStatus == {"critical", "warning", "passing"}

StatusFromConsul(s) ==
    IF s \in {"critical", "warning", "passing", "maintenance"} THEN s ELSE "unknown"

-----------------------------------------------------------------------------
(* Aggregation of checks                                                   *)

\* Mutant: only critical checks make an instance unhealthy.
AggregateIgnoresWarnings(checks) ==
    LET has(s) == \E c \in DOMAIN checks \ MaintCheckIDs : checks[c] = s
    IN  IF DOMAIN checks \cap MaintCheckIDs # {} THEN "maintenance"
        ELSE IF has("critical") THEN "critical"
        ELSE IF has("passing") THEN "passing"
        ELSE "unknown"

Aggregate(checks) ==
    LET has(s) == \E c \in DOMAIN checks \ MaintCheckIDs : checks[c] = s
    IN  IF DOMAIN checks \cap MaintCheckIDs # {} THEN "maintenance"
        ELSE IF has("critical") THEN "critical"
        ELSE IF has("warning") THEN "warning"
        ELSE IF has("passing") THEN "passing"
        ELSE "unknown"

InstanceStatus(checks) ==
    IF DOMAIN checks = {} THEN "passing" ELSE Aggregate(checks)

NodeStatus(checks) ==
    IF DOMAIN checks = {} THEN "missing" ELSE Aggregate(checks)

ServiceChecks(checks) == Restrict(checks, DOMAIN checks \cap ServiceCheckIDs)
NodeChecks(checks) == Restrict(checks, DOMAIN checks \cap NodeCheckIDs)

\* The number of healthy instances that indexInstances counts.
Healthy(service) ==
    Cardinality({k \in DOMAIN service : InstanceStatus(service[k].checks) = "passing"})

-----------------------------------------------------------------------------
(* Messages: an event for the events channel or a record for the other.    *)

Emit(e) == [to |-> "events", what |-> e]
Announce(k, inst) == [to |-> "instances", what |-> [key |-> k, reg |-> inst.reg, ip |-> inst.ip]]

\* One sequence of each choices[x].
Picks(S, choices) ==
    {p \in [S -> UNION {choices[x] : x \in S}] : \A x \in S : p[x] \in choices[x]}

\* Their concatenation, in every order of S.
InAnyOrder(S, choices) ==
    {FlattenSeq([i \in 1..Len(order) |-> pick[order[i]]]) :
        order \in SetToSeqs(S), pick \in Picks(S, choices)}

\* The headline of an event, according to its kind: OldStatus and NewStatus.
OldStatus(e) == IF e.kind = "check" THEN e.oldCheck ELSE e.old
NewStatus(e) == IF e.kind = "check" THEN e.newCheck ELSE e.new

\* compareChecks: one event per check whose status differs, those of the new
\* state first, built on the event base.
CheckEvent(base, old, new, c) ==
    [base EXCEPT
        !.check = c,
        !.oldCheck = IF c \in DOMAIN old THEN StatusFromConsul(old[c]) ELSE "missing",
        !.newCheck = IF c \in DOMAIN new THEN StatusFromConsul(new[c]) ELSE "missing"]

CheckEvents(base, old, new, cs) == [i \in DOMAIN cs |-> Emit(CheckEvent(base, old, new, cs[i]))]

MovedChecks(old, new) == {c \in DOMAIN new : c \in DOMAIN old => old[c] # new[c]}
GoneChecks(old, new) == DOMAIN old \ DOMAIN new

\* Mutant: checks that disappeared are not reported.
CompareChecksNoGone(base, old, new) ==
    {CheckEvents(base, old, new, a) : a \in SetToSeqs(MovedChecks(old, new))}

CompareChecks(base, old, new) ==
    {CheckEvents(base, old, new, a \o b) :
        a \in SetToSeqs(MovedChecks(old, new)), b \in SetToSeqs(GoneChecks(old, new))}

-----------------------------------------------------------------------------
(* Announcements                                                           *)

\* The hash of a registration: the sections are written one after the other,
\* each word with the same terminator, and the address of the node is not
\* among them.  Words are numbers here, sorted as the code sorts them; a
\* collision of the hash itself is left out.
Fingerprint(inst) ==
    <<inst.reg.address>> \o SetToSortSeq(inst.reg.tags, <)
                         \o SetToSortSeq(inst.reg.meta, <)
                         \o SetToSortSeq(inst.reg.nodeMeta, <)

\* Mutant: the age of the last announcement is not looked at.
DueNeverStale(service, marks, stale, forced) ==
    {k \in DOMAIN service :
        \/ k \in forced
        \/ k \notin DOMAIN marks
        \/ marks[k].fingerprint # Fingerprint(service[k])}

\* The instances that announce sends: the forced ones, those never announced,
\* those whose fingerprint changed and those whose last announcement is older
\* than instanceRefresh (stale).
Due(service, marks, stale, forced) ==
    {k \in DOMAIN service :
        \/ k \in forced
        \/ k \notin DOMAIN marks
        \/ marks[k].fingerprint # Fingerprint(service[k])
        \/ k \in stale}

\* The marks after announcing the due instances at time at.
Marked(service, marks, due, at) ==
    [k \in DOMAIN marks \cup due |->
        IF k \in due
        THEN [fingerprint |-> Fingerprint(service[k]), announced |-> at]
        ELSE marks[k]]

\* The first state of a service, or an unchanged one: only announcements.
AnnounceService(service, due) ==
    InAnyOrder(due, [k \in due |-> {<<Announce(k, service[k])>>}])

-----------------------------------------------------------------------------
(* compareService and compareNode                                          *)

ServiceEvent(k, kind, os, ns, old, new) ==
    [kind |-> kind, key |-> k, check |-> "",
     old |-> os, new |-> ns, oldCheck |-> "unknown", newCheck |-> "unknown",
     oldHealthy |-> Healthy(old), newHealthy |-> Healthy(new),
     total |-> Cardinality(DOMAIN new)]

\* Mutant: the checks of a new instance are reported one by one as well.
CompareInstanceAndChecks(k, old, new, due) ==
    LET before == IF k \in DOMAIN old THEN old[k].checks ELSE <<>>
        base == ServiceEvent(k, "check", InstanceStatus(before),
                             InstanceStatus(new[k].checks), old, new)
        registered == Emit([base EXCEPT !.kind = "instance", !.old = "missing"])
        start == (IF k \in DOMAIN old THEN <<>> ELSE <<registered>>)
                 \o (IF k \in due THEN <<Announce(k, new[k])>> ELSE <<>>)
    IN  {start \o evs : evs \in CompareChecks(base, ServiceChecks(before),
                                              ServiceChecks(new[k].checks))}

\* What compareService emits for the instance k of the new state.
CompareInstance(k, old, new, due) ==
    IF k \notin DOMAIN old
    THEN {<<Emit(ServiceEvent(k, "instance", "missing",
                              InstanceStatus(new[k].checks), old, new)),
            Announce(k, new[k])>>}
    ELSE {(IF k \in due THEN <<Announce(k, new[k])>> ELSE <<>>) \o evs :
            evs \in CompareChecks(
                ServiceEvent(k, "check", InstanceStatus(old[k].checks),
                             InstanceStatus(new[k].checks), old, new),
                ServiceChecks(old[k].checks), ServiceChecks(new[k].checks))}

\* What it emits for all of them, and for the instances that are gone.
ComparePresent(old, new, due) ==
    InAnyOrder(DOMAIN new, [k \in DOMAIN new |-> CompareInstance(k, old, new, due)])

GoneEvent(k, old, new) ==
    ServiceEvent(k, "instance", InstanceStatus(old[k].checks), "missing", old, new)

CompareGone(old, new) ==
    LET gone == DOMAIN old \ DOMAIN new
    IN  InAnyOrder(gone, [k \in gone |-> {<<Emit(GoneEvent(k, old, new))>>}])

CompareService(old, new, due) ==
    {a \o b : a \in ComparePresent(old, new, due), b \in CompareGone(old, new)}

\* Mutant: the marks of the instances that are gone are kept.
CompareMarksKeepGone(old, new, marks, due, at) == Marked(new, marks, due, at)

\* The marks after compareService: those of the gone instances are deleted.
CompareMarks(old, new, marks, due, at) ==
    LET m == Marked(new, marks, due, at)
    IN  Restrict(m, DOMAIN m \ (DOMAIN old \ DOMAIN new))

NodeEvent(n, os, ns) ==
    [kind |-> "node", key |-> n, check |-> "",
     old |-> os, new |-> ns, oldCheck |-> "unknown", newCheck |-> "unknown",
     oldHealthy |-> 0, newHealthy |-> 0, total |-> 0]

\* compareNode with the checks of a node that is still there.
CompareNode(n, old, new) ==
    CompareChecks(NodeEvent(n, NodeStatus(old), NodeStatus(new)), old, new)

\* compareNode with a nil new state: the node left the catalog.
NodeGone(n, old) == {<<Emit(NodeEvent(n, NodeStatus(old), "missing"))>>}

-----------------------------------------------------------------------------
(* Reading the events back.  A reader of the timeline knows facts          *)
(* <<key, check, status>>; check "" stands for the instance or the node.   *)

\* What there is to say about a service: its instances and their checks.
CheckFacts(k, checks) == {<<k, c, StatusFromConsul(checks[c])>> : c \in DOMAIN checks}

ServiceFacts(service) ==
    {<<k, "", "registered">> : k \in DOMAIN service} \cup
    UNION {CheckFacts(k, ServiceChecks(service[k].checks)) : k \in DOMAIN service}

\* What there is to say about a node: "no checks means the node is gone".
NodeFacts(n, checks) ==
    {<<n, "", "registered">> : c \in DOMAIN checks} \cup
    CheckFacts(n, checks)

\* The reader learns of an event.  The checks of an instance that registers
\* are part of its registration (all): they are not reported one by one.
Learn(facts, e, all) ==
    LET others == {f \in facts : f[1] # e.key}
        mine == facts \ others
    IN  others \cup
        CASE e.kind # "check" /\ e.new = "missing" -> {}
          [] e.kind = "instance" /\ e.new # "missing" -> {f \in all : f[1] = e.key}
          [] e.kind = "node" /\ e.check = "" /\ e.new # "missing" ->
                mine \cup {<<e.key, "", "registered">>}
          [] OTHER ->
                {f \in mine : f[2] # e.check}
                \cup {<<e.key, "", "registered">>}
                \cup (IF e.newCheck = "missing" THEN {}
                      ELSE {<<e.key, e.check, e.newCheck>>})
=============================================================================
