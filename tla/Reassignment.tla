---------------------------- MODULE Reassignment ----------------------------
(***************************************************************************)
(* The record ExecutionInfo (Scheduler-host/execution_info.py) that the    *)
(* scheduler keeps for every container, and what strict_reassigment and    *)
(* maxprop_reassigment (scheduler.py) decide for one container of the list *)
(* out of the free cores they hand out.                                    *)
(***************************************************************************)
EXTENDS Integers, SchedulingPolicy

States == {"start", "update", "failed"}

ExecutionInfo == [inter_user : Nat, intra_user : Nat, inter : Nat, intra : Nat,
                  state : States, priority : QueueIds]

Parallelism(c) == c.inter + c.intra

\* Faulty variant: the container becomes eligible for cores.
update_and_start(c, inter, intra) ==
    [c EXCEPT !.inter = IF inter > 0 THEN inter ELSE @,
              !.intra = IF intra > 0 THEN intra ELSE @,
              !.state = "start"]

\* update_parallelism: an argument that is not positive leaves its kind of
\* thread as it is, and what is granted also becomes what the user asked for.
update_parallelism(c, inter, intra) ==
    [c EXCEPT !.inter_user = IF inter > 0 THEN inter ELSE @,
              !.inter      = IF inter > 0 THEN inter ELSE @,
              !.intra_user = IF intra > 0 THEN intra ELSE @,
              !.intra      = IF intra > 0 THEN intra ELSE @]

\* The --cpus that update_parallelism passes to docker update.
new_parallelism(c, inter, intra) ==
    IF inter > 0 /\ intra > 0 THEN inter + intra
    ELSE IF inter > 0 THEN inter + c.intra ELSE intra + c.inter

-----------------------------------------------------------------------------
(* A decision is the arguments of update_parallelism and the cores that    *)
(* the loop deducts from what it has to hand out.                          *)

Give(inter, intra, cost) == [inter |-> inter, intra |-> intra, cost |-> cost]
Nothing == Give(0, 0, 0)

\* Faulty variant: forgets what the container has already.
RequiredAnew(user, exec) == IF user >= MaxPerCont THEN MaxPerCont ELSE user

Required(user, exec) == IF user - exec >= MaxPerCont THEN MaxPerCont ELSE user - exec

\* strict_reassigment, used by "strict" and by "always_attend".
StrictDecision(c, avail) ==
    LET inter == Required(c.inter_user, c.inter)
        intra == Required(c.intra_user, c.intra)
        IntraOnly(target) == IF avail >= intra
                             THEN Give(0, target, intra)
                             ELSE Give(0, c.intra + avail, avail)
    IN  IF inter > 0 /\ intra > 0
        THEN IF avail >= inter + intra THEN Give(c.inter_user, c.intra_user, inter + intra)
             ELSE IntraOnly(c.intra + intra)
        ELSE IF intra > 0 THEN IntraOnly(c.intra_user)
        ELSE IF inter > 0
        THEN IF avail >= inter THEN Give(c.inter_user, 0, inter)
             ELSE Give(c.inter + avail, 0, avail)
        ELSE Nothing

\* Faulty variants: nothing is deducted; no maximum per container.
MaxPropForFree(c, share) == Give(0, c.intra + share, 0)
MaxPropNoMaximum(c, share) == Give(0, c.intra + share, share)

\* maxprop_reassigment: the same share for every container of the list.
maxprop_factor(avail, containers) ==
    IF avail \div containers = 0 THEN 1 ELSE avail \div containers

MaxPropDecision(c, share) ==
    IF c.intra >= MaxPerCont THEN Nothing
    ELSE IF c.intra + share <= MaxPerCont THEN Give(0, c.intra + share, share)
    ELSE Give(0, MaxPerCont, MaxPerCont)

Decision(c, avail, share) ==
    IF c.state # "start" \/ avail <= 0 THEN Nothing
    ELSE IF Assignment = "max_prop" THEN MaxPropDecision(c, share)
    ELSE StrictDecision(c, avail)
=============================================================================
