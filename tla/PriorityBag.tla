----------------------------- MODULE PriorityBag -----------------------------
(***************************************************************************)
(* What PriorityMessageQueue promises: items are handed out by priority,   *)
(* and by age within a priority.  A full queue gives an item of the lowest *)
(* priority up for a new one (Spec); what the code keeps to is less, any   *)
(* item but the one that is next (LooseSpec).                              *)
(***************************************************************************)
EXTENDS Naturals

CONSTANTS Priorities,
          MaxPuts      \* bound: items ever stored

VARIABLES bag, handed

Entry == [prio : Priorities, n : 1 .. MaxPuts]

Before(a, b) == a.prio < b.prio \/ (a.prio = b.prio /\ a.n < b.n)

Foremost(x) == \A y \in bag \ {x} : Before(x, y)

\* Later than all that is held.
Newest(x) == \A y \in bag : y.n < x.n

Init == bag = {} /\ handed = {}

Store == \E x \in Entry : Newest(x) /\ bag' = bag \cup {x} /\ UNCHANGED handed

Exchange(old, x) == bag' = (bag \ {old}) \cup {x} /\ UNCHANGED handed

\* "drop the lowest priority item instead of rejecting the new one"
Displace == \E x \in Entry, old \in bag :
                /\ Newest(x) /\ \A y \in bag : y.prio <= old.prio
                /\ Exchange(old, x)

DisplaceOther == \E x \in Entry, old \in bag :
                     /\ Newest(x) /\ (Foremost(old) => bag = {old})
                     /\ Exchange(old, x)

Hand == \E x \in bag : /\ Foremost(x)
                       /\ bag' = bag \ {x} /\ handed' = {x}

Discard == bag' = {} /\ UNCHANGED handed

Next == Store \/ Displace \/ Hand \/ Discard

LooseNext == Store \/ DisplaceOther \/ Hand \/ Discard

Spec == Init /\ [][Next]_<<bag, handed>>

LooseSpec == Init /\ [][LooseNext]_<<bag, handed>>
=============================================================================
