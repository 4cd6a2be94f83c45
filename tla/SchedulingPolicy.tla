-------------------------- MODULE SchedulingPolicy --------------------------
(***************************************************************************)
(* Class SchedulingPolicy and its subclasses FCFS and Priority             *)
(* (Scheduler-host/scheduling_policy.py): how many inter and intra threads *)
(* a request gets out of the cores reserved for it, and the arrays of FIFO *)
(* queues that hold new and pending requests.                              *)
(*                                                                         *)
(* A quotient of integers that Python computes in floating point is        *)
(* computed exactly here (README, "Arithmetic").                           *)
(***************************************************************************)
EXTENDS Integers, Sequences

CONSTANTS Assignment,    \* assignment_policy of parameters.json
          MaxPerCont,    \* max_resources_per_container of parameters.json
          Priorities     \* number of queues: 1 is FCFS, more is Priority

ASSUME PolicyAssumption ==
    /\ Assignment \in {"strict", "max_prop", "always_attend"}
    /\ MaxPerCont \in Nat \ {0}
    /\ Priorities \in Nat \ {0}

-----------------------------------------------------------------------------
(* schedule_parallelism: <<inter, intra>>, or <<>> when nothing is given.  *)

\* Python's round(n / d) for n >= 0 and d > 0: ties go to the even neighbour.
Round(n, d) ==
    LET q == n \div d
        twice == 2 * (n % d)
    IN  IF twice > d \/ (twice = d /\ q % 2 = 1) THEN q + 1 ELSE q

\* "Assign only one inter thread": the code sets inter to 1 first and then
\* adds that 1 to intra, whatever inter was.
OneInter(inter, intra) == IF inter > 1 THEN <<1, intra + 1>> ELSE <<inter, intra>>

Strict(avail, inter, intra) ==
    IF inter + intra > 0
    THEN IF avail >= inter + intra THEN OneInter(inter, intra) ELSE <<>>
    ELSE <<inter, intra>>

\* Faulty variant: the share is not limited to what is available.
MaxPropUnlimited(avail, intra, factor) ==
    LET share == (intra * factor[2]) \div factor[1]
    IN  IF avail >= 2 THEN <<1, IF share = 0 THEN 1 ELSE share>> ELSE <<>>

\* factor is the pair <<requested, available>> whose quotient is factor_prop.
MaxProp(avail, intra, factor) ==
    LET share  == (intra * factor[2]) \div factor[1]
        capped == IF share >= MaxPerCont THEN MaxPerCont ELSE share
        wanted == IF capped = 0 THEN 1 ELSE capped
    IN  IF avail > 2
        THEN <<1, IF wanted > avail - 1 THEN avail - 1 ELSE wanted>>
        ELSE IF avail = 2 THEN <<1, 1>> ELSE <<>>

\* The shares of a request that does not fit in what is available.
Fraction(avail, inter, intra) ==
    IF inter > 0 /\ intra > 0
    THEN <<Round(inter * avail, inter + intra), Round(intra * avail, inter + intra)>>
    ELSE IF inter > 0 THEN <<avail, 0>> ELSE <<0, avail>>

\* Faulty variant: the missing thread is not taken from the other kind.
AtLeastOneForFree(p) == <<1, IF p[2] = 0 THEN 1 ELSE p[2]>>

\* One thread of each kind at least, and one inter thread at most: the
\* surplus of inter threads is dropped (inter is set to 1 before intra takes
\* inter - 1).
AtLeastOne(p) ==
    LET a == IF p[1] = 0 THEN <<1, p[2] - 1>> ELSE p
        b == IF a[2] = 0 THEN <<a[1] - 1, 1>> ELSE a
    IN  IF b[1] > 1 THEN <<1, b[2]>> ELSE b

AlwaysAttend(avail, inter, intra) ==
    IF avail >= 2
    THEN IF inter + intra <= avail
         THEN OneInter(inter, intra)
         ELSE AtLeastOne(Fraction(avail, inter, intra))
    ELSE <<>>

schedule_parallelism(avail, inter, intra, factor) ==
    IF Assignment = "strict" THEN Strict(avail, inter, intra)
    ELSE IF Assignment = "max_prop" THEN MaxProp(avail, intra, factor)
    ELSE AlwaysAttend(avail, inter, intra)

-----------------------------------------------------------------------------
(* The queue arrays.                                                       *)

QueueIds == 0 .. Priorities - 1

\* add_queue_request and add_pending_queue_request: a single queue takes
\* every request, whatever its priority.
QueueOf(priority) == IF Priorities > 1 THEN priority ELSE 0

add_request(queues, priority, data) ==
    [queues EXCEPT ![QueueOf(priority)] = Append(@, data)]

queue_empty(queues) == \A p \in QueueIds : queues[p] = <<>>

\* get_new_request and get_pending_request take the head of this queue.
IsFirstNonEmpty(queues, p) ==
    queues[p] # <<>> /\ \A r \in QueueIds : r < p => queues[r] = <<>>
=============================================================================
