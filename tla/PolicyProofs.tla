---------------------------- MODULE PolicyProofs ----------------------------
(* The properties of module MCPolicy, for every Bound.                      *)
EXTENDS MCPolicy, PolicyTheorems

\* The inputs that the steps reach.
InputOK ==
    /\ avail \in 0 .. Bound
    /\ inter \in 1 .. 3 /\ intra \in 0 .. Bound
    /\ user \in 0 .. Bound /\ user_inter \in 1 .. 2
    /\ total \in 1 .. Bound + 2

\* A step changes one part of the input within its range.
LEMMA Inputs == Spec => []InputOK
<1>1. Init => InputOK
  BY BoundAssumption DEF Init, InputOK
<1>2. InputOK /\ [Next]_input => InputOK'
  BY DEF InputOK, Next, input
<1> QED
  BY <1>1, <1>2, PTL DEF Spec

\* The record of the properties is one of the scheduler's.
LEMMA ContainerType == InputOK => Container \in ExecutionInfo
BY BoundAssumption, PolicyAssumption DEF InputOK, Container, ExecutionInfo, States, QueueIds

\* always_attend, for every request: the shares of a launch fit in the cores
\* reserved for it although each of them is rounded.
THEOREM AlwaysAttendCorrect == Spec => []AlwaysAttendFits
<1>1. InputOK => AlwaysAttendFits
  <2> SUFFICES ASSUME InputOK, intra >= 1, AlwaysAttend(avail, inter, intra) # <<>>
               PROVE  Fits(AlwaysAttend(avail, inter, intra), avail)
    BY DEF AlwaysAttendFits, GrantFits, Fits
  <2>1. avail \in Nat /\ inter \in Nat \ {0} /\ intra \in Nat \ {0}
    BY BoundAssumption DEF InputOK
  <2> QED
    BY <2>1, AlwaysAttendFitsAll
<1> QED
  BY <1>1, Inputs, PTL

\* max_prop, for every proportion: the same.
THEOREM MaxPropCorrect == Spec => []MaxPropFits
<1>1. InputOK => MaxPropFits
  <2> SUFFICES ASSUME InputOK, MaxProp(avail, intra, <<total, avail>>) # <<>>
               PROVE  Fits(MaxProp(avail, intra, <<total, avail>>), avail)
    BY DEF MaxPropFits, GrantFits, Fits
  <2>1. avail \in Nat /\ intra \in Nat /\ <<total, avail>> \in (Nat \ {0}) \X Nat
    BY BoundAssumption DEF InputOK
  <2> QED
    BY <2>1, MaxPropFitsAll
<1> QED
  BY <1>1, Inputs, PTL

\* strict_reassigment deducts exactly what it gives, for every container that does
\* not ask for more than max_resources_per_container.
THEOREM StrictReassignmentCorrect == Spec => []StrictReassignmentPaid
<1>1. InputOK => StrictReassignmentPaid
  <2> SUFFICES ASSUME InputOK, avail > 0
               PROVE  LET d == StrictDecision(Container, avail)
                          c == update_parallelism(Container, d.inter, d.intra)
                      IN  /\ Growth(d) = d.cost /\ d.cost <= avail
                          /\ c.inter = inter \/ c.inter <= user_inter
                          /\ c.intra = intra \/ c.intra <= user
    BY DEF StrictReassignmentPaid
  <2>1. /\ Container.inter_user = user_inter /\ Container.intra_user = user
        /\ Container.inter = inter /\ Container.intra = intra
    BY DEF Container
  <2>2. /\ avail \in Nat \ {0} /\ Container \in ExecutionInfo
        /\ user_inter - inter <= MaxPerCont /\ user - intra <= MaxPerCont
    BY ContainerType, BoundAssumption, PolicyAssumption DEF InputOK
  <2> HIDE DEF Container
  <2> QED
    BY <2>1, <2>2, StrictPaid DEF Gained, Growth
<1> QED
  BY <1>1, Inputs, PTL

\* maxprop_reassigment never gives a container more than it deducts, nor more than
\* max_resources_per_container.
THEOREM MaxPropReassignmentCorrect == Spec => []MaxPropReassignmentPaid
<1>1. InputOK => MaxPropReassignmentPaid
  <2> SUFFICES ASSUME InputOK, NEW n \in 1 .. 3, avail > 0
               PROVE  LET d == MaxPropDecision(Container, maxprop_factor(avail, n))
                      IN  /\ 0 <= Growth(d) /\ Growth(d) <= d.cost
                          /\ Growth(d) > 0 => intra + Growth(d) <= MaxPerCont
    BY DEF MaxPropReassignmentPaid
  <2>1. Container.intra = intra /\ Container \in ExecutionInfo /\ avail \in Nat
    BY ContainerType, BoundAssumption DEF InputOK, Container
  <2>2. maxprop_factor(avail, n) \in Nat \ {0}
    BY <2>1, FactorPositive
  <2> HIDE DEF Container
  <2> QED
    BY <2>1, <2>2, MaxPropPaid DEF Gained, Growth
<1> QED
  BY <1>1, Inputs, PTL
=============================================================================
