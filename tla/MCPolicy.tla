------------------------------ MODULE MCPolicy ------------------------------
(***************************************************************************)
(* The policies of SchedulingPolicy and Reassignment as functions: every   *)
(* state is one input (a request or the record of a container, and the     *)
(* cores available), and a step goes to an input that differs in one of    *)
(* its parts.  The properties compare what the code computes with what a   *)
(* policy owes to the ledger.                                              *)
(***************************************************************************)
EXTENDS Reassignment

CONSTANT Bound    \* the largest number of cores in an input

\* Inputs that ask for more than max_resources_per_container are those of the run
\* "capped": what strict_reassigment deducts for them is less than what it gives.
ASSUME BoundAssumption == Bound \in Nat \ {0} /\ Bound <= MaxPerCont

VARIABLES
    avail,        \* the cores there are to give
    inter, intra, \* what a request asks for, or what a container has
    user,         \* the intra threads the user asked for
    user_inter,
    total         \* what all the requests ask for, under max_prop

input == <<avail, inter, intra, user, user_inter, total>>

Init ==
    avail = 0 /\ inter = 1 /\ intra = 0 /\ user = 0 /\ user_inter = 1 /\ total = 1

Next ==
    \/ avail' \in 0 .. Bound /\ UNCHANGED <<inter, intra, user, user_inter, total>>
    \/ inter' \in 1 .. 3 /\ UNCHANGED <<avail, intra, user, user_inter, total>>
    \/ intra' \in 0 .. Bound /\ UNCHANGED <<avail, inter, user, user_inter, total>>
    \/ user' \in 0 .. Bound /\ UNCHANGED <<avail, inter, intra, user_inter, total>>
    \/ user_inter' \in 1 .. 2 /\ UNCHANGED <<avail, inter, intra, user, total>>
    \/ total' \in 1 .. Bound + 2 /\ UNCHANGED <<avail, inter, intra, user, user_inter>>

Spec == Init /\ [][Next]_input

\* A launch gets at least one thread of each kind and no more threads than the
\* cores it may have, also when the rounded shares add up to one more.
GrantFits(p) == p # <<>> => p[1] >= 1 /\ p[2] >= 1 /\ p[1] + p[2] <= avail

AlwaysAttendFits == intra >= 1 => GrantFits(AlwaysAttend(avail, inter, intra))
MaxPropFits == GrantFits(MaxProp(avail, intra, <<total, avail>>))

Container == [inter_user |-> user_inter, intra_user |-> user, inter |-> inter, intra |-> intra,
              state |-> "start", priority |-> 0]
Growth(d) == Parallelism(update_parallelism(Container, d.inter, d.intra)) - Parallelism(Container)

\* strict_reassigment deducts exactly the cores a container gains, hands out no
\* more than there are, and takes no container beyond what its user asked for.
StrictReassignmentPaid ==
    LET d == StrictDecision(Container, avail)
        c == update_parallelism(Container, d.inter, d.intra)
    IN  avail > 0 => /\ Growth(d) = d.cost /\ d.cost <= avail
                     /\ c.inter = inter \/ c.inter <= user_inter
                     /\ c.intra = intra \/ c.intra <= user

\* maxprop_reassigment deducts at least what a container gains and keeps its
\* intra threads below max_resources_per_container.
MaxPropReassignmentPaid ==
    \A n \in 1 .. 3 :
       LET d == MaxPropDecision(Container, maxprop_factor(avail, n))
       IN  avail > 0 => /\ 0 <= Growth(d) /\ Growth(d) <= d.cost
                        /\ Growth(d) > 0 => intra + Growth(d) <= MaxPerCont
=============================================================================
