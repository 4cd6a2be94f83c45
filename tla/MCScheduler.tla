---------------------------- MODULE MCScheduler -----------------------------
(* Workloads on which TLC checks module Scheduler.                          *)
EXTENDS SchedulerProperties

CONSTANTS i0, i1, i2

Execution(i, cores, priority) ==
    [kind |-> "execution", id |-> i, cores |-> cores, priority |-> priority, columns |-> 6]
Update(i, cores, priority) ==
    [kind |-> "update", id |-> i, cores |-> cores, priority |-> priority, columns |-> 6]

\* On 4 cores: i1 waits for i0, i2 fits beside either.
ThreeContainers == <<Execution(i0, 3, 0), Execution(i1, 2, 0), Execution(i2, 2, 0)>>
TwoContainers == <<Execution(i0, 3, 0), Execution(i1, 2, 0)>>

\* On 5 cores and under always_attend: i1 asks for more than the machine has,
\* gets less than what is reserved for it and is raised later; the updates of i0
\* take what is free, less than they ask for, and give cores back.
Mixed == <<Execution(i0, 2, 0), Execution(i1, 6, 0), Update(i0, 6, 0),
           Execution(i2, 2, 0), Update(i0, 3, 0)>>

\* One container whose update leaves it no intra thread, and a row that is too short.
ToOneCore == <<Execution(i0, 3, 1), Update(i0, 1, 0), [Update(i0, 2, 0) EXCEPT !.columns = 5]>>

\* Containers that ask for more than max_resources_per_container.
Capped == <<Execution(i0, 4, 0), Execution(i1, 6, 0), Execution(i2, 2, 0)>>
=============================================================================
