----------------------------- MODULE CapacityPool -----------------------------
(***************************************************************************)
(* The promise of admission control: a pool of places.                     *)
(***************************************************************************)
EXTENDS Integers, FiniteSets

CONSTANTS Holders, Capacity

VARIABLE held  \* who has a place

Init == held = {}

\* One place at a time, while there is one left.
Acquire(h) ==
    /\ h \notin held
    /\ Cardinality(held) < Capacity
    /\ held' = held \cup {h}

\* Any number of places are given back: one normally, many in a restart.
Release(hs) ==
    /\ hs \subseteq held
    /\ held' = held \ hs

Next ==
    \/ \E h \in Holders : Acquire(h)
    \/ \E hs \in SUBSET held : Release(hs)

Spec == Init /\ [][Next]_held

=============================================================================
