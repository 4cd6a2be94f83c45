---------------------------- MODULE ParallelFor -----------------------------
(* One call of ThreadPool::ParallelForFixedBlockSizeScheduling and the       *)
(* BlockingCounter it waits for: ranges are halved at multiples of the block *)
(* size, each upper half is scheduled in the pool, and the caller returns,   *)
(* and with it goes the counter, when the count of the blocks is zero.       *)
EXTENDS Integers, FiniteSets

CONSTANT Calls  \* [total, block_size, threads, free]: free threads of the pool
                \* neither wait in a call of their own nor are put to sleep
ASSUME CallsAssumption ==
    Calls \subseteq [total : Nat, block_size : Int, threads : Nat \ {0}, free : Nat]

VARIABLES
    call,             \* the arguments and the pool
    work,             \* the ranges that are scheduled or in hand: see Ranges
    times,            \* times[i]: how many calls of fn had i in their range
    count, waiter,    \* state_ of the counter, and its low bit
    notified, notify, \* notify: threads that brought the count to zero and will notify
    caller
counter == <<count, waiter, notified, notify>>
vars == <<call, work, times, counter, caller>>

Caller == 0
Nobody == -1
Workers == 1..call.free
Units == 0..call.total - 1

\* handle_range(first, last), by a thread or by nobody yet; called: fn has returned.
Ranges == [first : Nat, last : Nat, by : {Nobody, Caller} \cup Workers, called : BOOLEAN]

\* NumShardsUsedByFixedBlockSizeScheduling.
NumShards ==
    IF \/ call.block_size <= 0 \/ call.total <= 1 \/ call.total <= call.block_size
       \/ call.threads = 1
    THEN 1 ELSE (call.total + call.block_size - 1) \div call.block_size

Init ==
    /\ call \in Calls
    /\ work = {}
    /\ times = [i \in Units |-> 0]
    /\ count = 0 /\ waiter = FALSE /\ notified = FALSE /\ notify = {}
    /\ caller = "start"

CallDirectly ==
    /\ caller = "start" /\ NumShards = 1
    /\ times' = [i \in Units |-> times[i] + 1]
    /\ caller' = "returned"
    /\ UNCHANGED <<call, work, counter>>

\* The root of the tree runs on the main thread if every block can have a thread.
RootBy == IF NumShards <= call.threads THEN Caller ELSE Nobody

Start ==
    /\ caller = "start" /\ NumShards # 1
    /\ count' = NumShards
    /\ work' = {[first |-> 0, last |-> call.total, by |-> RootBy, called |-> FALSE]}
    /\ caller' = "working"
    /\ UNCHANGED <<call, times, waiter, notified, notify>>

\* A thread of the pool takes a closure.
Take(t, x) ==
    /\ x.by = Nobody /\ t \notin notify /\ \A y \in work : y.by # t
    /\ work' = (work \ {x}) \cup {[x EXCEPT !.by = t]}
    /\ UNCHANGED <<call, times, counter, caller>>

\* Faulty variant: the midpoint as it comes.
PlainMid(x) == x.first + (x.last - x.first) \div 2
\* Near the midpoint, a multiple of the block size.
Mid(x) ==
    LET half == (x.last - x.first) \div 2
    IN  x.first + ((half + call.block_size - 1) \div call.block_size) * call.block_size

\* Faulty variant: the upper half begins one too late.
UpperHalfLate(x) == [first |-> Mid(x) + 1, last |-> x.last, by |-> Nobody, called |-> FALSE]
UpperHalf(x) == [first |-> Mid(x), last |-> x.last, by |-> Nobody, called |-> FALSE]
LowerHalf(x) == [x EXCEPT !.last = Mid(x)]

Split(x) ==
    /\ x.by # Nobody /\ ~ x.called /\ x.last - x.first > call.block_size
    /\ work' = (work \ {x}) \cup {LowerHalf(x), UpperHalf(x)}
    /\ UNCHANGED <<call, times, counter, caller>>

Run(x) ==
    /\ x.by # Nobody /\ ~ x.called /\ x.last - x.first <= call.block_size
    /\ times' = [i \in Units |-> IF i \in x.first..x.last - 1 THEN times[i] + 1 ELSE times[i]]
    /\ work' = (work \ {x}) \cup {[x EXCEPT !.called = TRUE]}
    /\ UNCHANGED <<call, counter, caller>>

\* Faulty variant: it does not matter whether the caller waits.
NotifiesAtZero == count = 1
\* The count is zero now and the caller waits: v = 1.
Notifies == count = 1 /\ waiter

\* DecrementCount, up to the lock.
DecrementCount(x) ==
    /\ x.called
    /\ work' = work \ {x}
    /\ count' = count - 1
    /\ notify' = IF Notifies THEN notify \cup {x.by} ELSE notify
    /\ UNCHANGED <<call, times, waiter, notified, caller>>

Notify(t) ==
    /\ t \in notify
    /\ notify' = notify \ {t}
    /\ notified' = TRUE
    /\ UNCHANGED <<call, work, times, count, waiter, caller>>

\* Faulty variant: the caller waits without a word.
WaitUnseen ==
    /\ caller = "working" /\ \A x \in work : x.by # Caller
    /\ caller' = IF count = 0 THEN "returned" ELSE "waiting"
    /\ UNCHANGED <<call, work, times, counter>>
\* Wait: the caller has no range in hand any more.
Wait ==
    /\ caller = "working" /\ \A x \in work : x.by # Caller
    /\ waiter' = TRUE
    /\ caller' = IF count = 0 THEN "returned" ELSE "waiting"
    /\ UNCHANGED <<call, work, times, count, notified, notify>>

Wake ==
    /\ caller = "waiting" /\ notified
    /\ caller' = "returned"
    /\ UNCHANGED <<call, work, times, counter>>

InHand(x) == Split(x) \/ Run(x) \/ DecrementCount(x)
CallerStep ==
    \/ CallDirectly \/ Start \/ Wait \/ Wake
    \/ \E x \in work : x.by = Caller /\ InHand(x)
WorkerStep(t) == \E x \in work : Take(t, x) \/ (x.by = t /\ InHand(x))
NotifyStep == \E t \in notify : Notify(t)

Next == CallerStep \/ NotifyStep \/ \E t \in Workers : WorkerStep(t)

Spec == Init /\ [][Next]_vars

\* Every thread runs and every call of fn returns.
FairSpec ==
    /\ Spec
    /\ WF_vars(CallerStep) /\ WF_vars(NotifyStep)
    /\ WF_vars(\E t \in Workers : WorkerStep(t))
=============================================================================
