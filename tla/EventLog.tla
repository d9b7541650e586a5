------------------------------ MODULE EventLog ------------------------------
(***************************************************************************)
(* What the memory storage promises about its events: it "keeps the most   *)
(* recent events" (storage/memory/storage.go).  Events are numbered from 1 *)
(* in the order in which they are stored, and at any moment the kept ones  *)
(* are the last MaxSize that were stored.                                  *)
(***************************************************************************)
EXTENDS Integers

CONSTANTS
    Event,    \* the events that may be stored
    MaxSize   \* how many are kept

VARIABLES
    count,    \* events stored so far
    kept      \* the events that can be read, each with its number

Init ==
    /\ count = 0
    /\ kept = {}

Store(e) ==
    /\ count' = count + 1
    /\ kept' = {r \in kept : r.id > count + 1 - MaxSize}
               \cup {[id |-> count + 1, ev |-> e]}

Next == \E e \in Event : Store(e)

Spec == Init /\ [][Next]_<<count, kept>>
=============================================================================
