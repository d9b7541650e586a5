---------------------------- MODULE MCServiceDiff ----------------------------
(***************************************************************************)
(* A small instance of ServiceDiff: two instance keys, and instances that  *)
(* differ in one thing at a time from a healthy one.                       *)
(***************************************************************************)
EXTENDS ServiceDiff

MCNodeCheckIDs == {"serfHealth", "_node_maintenance"}
MCServiceCheckIDs == {"http", "tcp"}
MCMaintCheckIDs == {"_node_maintenance"}

reg(address, tags, meta, nodeMeta) ==
    [address |-> address, tags |-> tags, meta |-> meta, nodeMeta |-> nodeMeta]

base == reg(1, {}, {}, {})

checked(checks) == [reg |-> base, ip |-> 1, checks |-> checks]

healthy == [serfHealth |-> "passing", http |-> "passing"]

\* Instances that differ in their checks, and one registered at another address.
MCInstances ==
    {[checked(healthy) EXCEPT !.reg = reg(2, {}, {}, {})]} \cup
    {checked(c) : c \in {
        healthy,
        [serfHealth |-> "critical", http |-> "passing"],
        [serfHealth |-> "passing", http |-> "critical", tcp |-> "warning"],
        [serfHealth |-> "passing"],
        [serfHealth |-> "passing", http |-> "passing", _node_maintenance |-> "critical"],
        [tcp |-> "warning", http |-> "passing"]}}

MCSymmetry == Permutations(Keys)
=============================================================================
