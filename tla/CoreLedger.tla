------------------------------ MODULE CoreLedger ------------------------------
(* What the ledger of cores promises: cores are set aside for one decision at  *)
(* a time, containers get no more than was set aside for them, what they do    *)
(* not get is given back, and a container that ends returns all it has.        *)
EXTENDS Totals

CONSTANTS Containers, Cores

VARIABLES
    used,        \* cores that are not free
    allotted     \* the cores of each container

vars == <<used, allotted>>

\* What is set aside and not yet allotted; negative when a container owes cores
\* that are counted as free already.
Reserved == used - Total(allotted)

Between(n, m) == IF n <= m THEN n..m ELSE m..n

Init == used = 0 /\ allotted = [i \in Containers |-> 0]

\* One decision at a time: within what is free, or within what a container has.
Reserve ==
    /\ Reserved = 0
    /\ used' \in 0..Cores
    /\ \E i \in Containers : used' >= used - allotted[i]
    /\ UNCHANGED allotted

\* A container gets cores that are set aside, or pays what it owes.
Allot ==
    /\ \E i \in Containers : \E n \in Between(0, Reserved) :
          /\ allotted[i] + n >= 0
          /\ allotted' = [allotted EXCEPT ![i] = @ + n]
    /\ UNCHANGED used

\* What is set aside becomes free, and what is not taken from a container used.
GiveBack ==
    /\ \E n \in Between(0, Reserved) : used' = used - n
    /\ UNCHANGED allotted

\* The cores of a container that has ended are free.
Return ==
    /\ Reserved = 0
    /\ \E i \in Containers :
          /\ allotted' = [allotted EXCEPT ![i] = 0]
          /\ used' = used - allotted[i]

Next == Reserve \/ Allot \/ GiveBack \/ Return

Spec == Init /\ [][Next]_vars
=============================================================================
