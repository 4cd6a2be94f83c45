------------------------ MODULE SchedulerProperties -------------------------
(***************************************************************************)
(* What makes the scheduler of module Scheduler correct.                   *)
(***************************************************************************)
EXTENDS Scheduler, Totals

AttentionPcs ==
    {"check", "check2", "towait", "wait", "finish", "join", "reassign", "lockList", "give",
     "given", "giveback", "pend", "new", "take", "schedule", "accept", "register",
     "registerName", "updating", "excess", "excessWrite", "post", "postWrite", "relock", "occ",
     "done", "dead"}

ClientPcs ==
    {"none", "init", "loop", "removeName", "removeLost", "end", "done", "failRead", "failLost",
     "failMark", "failLock", "failFree", "failQueue", "failNotify", "spin", "died"}

AttentionLocals ==
    [pc : AttentionPcs, phase : {"pending", "new"}, request : Request, granted : Int,
     give : [inter : Int, intra : Int, cost : Int], ok : BOOLEAN, avail : Int,
     q_aux : [QueueIds -> Seq(Request)], idx : Nat, share : Int, factor : (Nat \ {0}) \X Nat,
     attemps : Nat, tmp : Int, joining : Containers, after : {"pend", "occ"}]

ClientLocals == [pc : ClientPcs, peer : Containers, inter : Nat, intra : Nat, tmp : Int,
                 zombie : BOOLEAN]

\* The types of the shared state and of the locals of every thread; the
\* parallelism of a container is never negative.
TypeOK ==
    /\ cores_used \in Int
    /\ queue_array \in [QueueIds -> Seq(Request)]
    /\ queue_pending_array \in [QueueIds -> Seq(Request)]
    /\ q_finish_container \in Seq([cores : Nat, id : Containers])
    /\ execInfo_list \in Seq(Containers)
    /\ info \in [Containers -> ExecutionInfo]
    /\ containerName_list \subseteq Containers
    /\ held \subseteq Locks
    /\ notified \in BOOLEAN
    /\ rows \in Seq(Row)
    /\ gen \in {"read", "notify", "done", "dead"}
    /\ creation_requests_terminate \in BOOLEAN
    /\ att \in AttentionLocals
    /\ docker \in [Containers -> {"none", "boot", "up", "finished", "leaving", "exited"}]
    /\ cpus \in [Containers -> Int]
    /\ backlog \in Seq(Containers)
    /\ dict_client_threads \in [Containers -> -1 .. MaxFaults]
    /\ cl \in [Threads -> ClientLocals]

-----------------------------------------------------------------------------
(* Why the scheduler never accounts for more cores than there are: the     *)
(* inductive invariant behind NoOvercommit.                                *)

\* The cores that a request for fewer cores has already returned, and takes
\* back (with the sign of att.granted) if it is not served.
Refund == IF att.granted < 0 THEN att.granted ELSE 0

Scheduling == att.pc \in {"schedule", "accept", "register", "registerName", "updating",
                          "excess", "excessWrite"}
InFlight == Scheduling \/ att.pc = "post"

AttentionHolds ==
    \/ att.pc = "take"
    \/ att.pc = "reassign" /\ att.after = "occ"
    \/ att.pc = "post" /\ att.phase = "pending" /\ att.granted = 0

\* mutex_systemInfo keeps the attention thread and the failing client threads
\* from holding a stale copy of the ledger at the same time, except where the
\* attention thread frees without it.  The pending loop keeps the lock while it
\* handles a request only if nothing was reserved for it.
SystemInfoLock ==
    /\ Scheduling => att.granted # 0
    /\ AttentionHolds => "systemInfo" \in held
    /\ \A t \in Threads : cl[t].pc = "failFree" => "systemInfo" \in held /\ ~ AttentionHolds
    /\ \A t, u \in Threads : cl[t].pc = "failFree" /\ cl[u].pc = "failFree" => t = u

\* Every value that cores_used can take next is within bounds: the value it
\* has, the one with the refund undone, and the copies that threads hold.
LedgerBounds ==
    /\ cores_used <= Cores
    /\ InFlight => cores_used - Refund <= Cores
    /\ att.pc \in {"excessWrite", "postWrite"} => att.tmp - Refund <= Cores
    /\ att.pc \in {"excess", "excessWrite"} => att.give.cost < att.granted
    /\ att.pc = "giveback" => att.avail > 0
    /\ \A t \in Threads : cl[t].pc = "failFree" =>
          cl[t].tmp <= Cores /\ (InFlight => cl[t].tmp - Refund <= Cores)

\* What a launch is going to be registered with is natural.
LaunchGive ==
    att.pc \in {"accept", "register"} => att.give.inter \in Nat /\ att.give.intra \in Nat

IInv == TypeOK /\ LaunchGive /\ SystemInfoLock /\ LedgerBounds

-----------------------------------------------------------------------------
(* The ledger of cores.                                                    *)

\* The scheduler never accounts for more cores than the machine has, whatever
\* fails and however the threads interleave: the exception of attentionRequest
\* (scheduler.py:1172) is never raised.
NoOvercommit == cores_used <= Cores

Running(i) == docker[i] \in {"boot", "up", "finished", "leaving"}

\* The --cpus of the containers that run never add up to more than the cores
\* of the machine.
NoOversubscription == Total([i \in {i \in Containers : Running(i)} |-> cpus[i]]) <= Cores

\* The cores of the containers that have ended, by their place in the queue of the
\* attention thread.
Finished(i) ==
    [k \in {k \in DOMAIN q_finish_container : q_finish_container[k].id = i} |->
        q_finish_container[k].cores]

\* The cores of a container: those of its record, and once it has left the list
\* those that the attention thread has still to free.
Allotted ==
    [i \in Containers |->
        (IF Listed(i) /\ info[i].state # "failed" THEN Parallelism(info[i]) ELSE 0)
        + Total(Finished(i))]

\* The cores that a client thread has still to free, of a container that failed.
Failing ==
    [t \in {t \in Threads : cl[t].pc \in {"failLock", "failFree"}} |-> cl[t].inter + cl[t].intra]

\* Between two rounds of the attention thread the cores in use are exactly the
\* ones of the containers, listed, ended or failing: no core is lost and none is
\* given twice.
LedgerExact ==
    att.pc \in {"check", "check2", "towait", "wait"} =>
        cores_used = Total(Allotted) + Total(Failing)

Abstract == INSTANCE CoreLedger WITH used <- cores_used, allotted <- Allotted

\* While no container fails, every step of every thread is one of the ledger: what is
\* reserved for a launch, an update or a reassignment goes to containers or back, and
\* nothing is reserved before the last reservation is settled.
ImplementsLedger == Abstract!Spec

-----------------------------------------------------------------------------
(* The life of a container.                                                *)

\* The attention thread joins the thread of a finished container only when
\* that thread is past the removal of the container: it never waits for a
\* container that was started again under the same name.
JoinOnlyFinishing ==
    att.pc = "join" =>
        \E t \in Threads : /\ t = <<att.joining, dict_client_threads[att.joining]>>
                           /\ cl[t].pc \in {"removeName", "end", "done"}

\* When a launch is scheduled no container of that name is left: docker run
\* finds the name free, also for a container that is started again.
NameIsFree ==
    att.pc = "schedule" /\ IsLaunch(att.request) => docker[att.request.id] = "none"

\* When the attention thread ends no container is listed, none runs, no thread
\* is going to queue another restart and nothing is pending.
NothingLeftAtEnd ==
    att.pc = "done" =>
        /\ queue_empty(queue_pending_array)
        /\ execInfo_list = <<>>
        /\ \A i \in Containers : docker[i] \notin {"boot", "up", "finished"}
        /\ \A t \in Threads : cl[t].pc \notin {"init", "loop", "failRead", "failMark", "failLock",
                                             "failFree", "failQueue"}

\* A container that was marked as failed stays so until a Restart registers it
\* again: neither an update nor a reassignment that had looked at its state
\* before makes it eligible for cores.
FailedUntilRestarted ==
    [][\A i \in Containers : info[i].state = "failed" /\ info'[i].state # "failed" =>
          att.pc = "register" /\ att.request.kind = "Restart" /\ att.request.id = i]_vars

-----------------------------------------------------------------------------
(* Liveness.                                                               *)

\* Once woken, the attention thread gets back to where it waits, or ends.
RoundEnds == (att.pc \in {"finish", "pend"}) ~> (att.pc \in {"towait", "wait", "done"})

\* The thread of a container that has sent its exit message ends.
ClientEnds == \A t \in Threads : (cl[t].pc = "removeName") ~> (cl[t].pc = "done")

-----------------------------------------------------------------------------
(* What documents and comments say and the code does not do.               *)

\* scheduler.py:69: an order in a queue wakes the attention thread.
OrdersWakeAttention ==
    (att.pc = "wait" /\ (q_finish_container # <<>> \/ ~ queue_empty(queue_array)))
        ~> (att.pc # "wait")
=============================================================================
