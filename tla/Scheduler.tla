----------------------------- MODULE Scheduler ------------------------------
(***************************************************************************)
(* The scheduler process (Scheduler-host/scheduler.py): the thread that    *)
(* reads the workload, the attention thread that gives cores to requests,  *)
(* one client thread per running container, and the docker containers as   *)
(* far as these threads see them.                                          *)
(*                                                                         *)
(* A step ends where another thread can see or change what it has touched: *)
(* at a lock that is taken or released, at a read or a write of shared     *)
(* state outside its lock, and at every call that takes time (docker,      *)
(* accept, join).                                                          *)
(***************************************************************************)
EXTENDS Reassignment, SystemInfo, SequencesExt

CONSTANTS
    Containers,      \* the instances the workload names
    Workload,        \* the rows of the requests file, in order
    MaxFaults,       \* bound: how many times one container can fail
    Crashes,         \* BOOLEAN: a container can die without a word
    SlowContainers,  \* BOOLEAN: accept() can time out
    MemoryPressure,  \* BOOLEAN: memory_usage() can be 80 % or more
    DockerErrors,    \* BOOLEAN: docker run can fail for reasons of its own
    TFOutlivesRegistration  \* BOOLEAN: no training ends, and no container is
                            \* given up, before its launch is registered

\* The attempts of schedule_request at accepting a connection.
MaxAttempts == 5

Row == [kind : {"execution", "update"}, id : Containers, cores : Nat \ {0},
        priority : QueueIds, columns : {5, 6}]

ASSUME SchedulerAssumption ==
    /\ Containers # {} /\ IsFiniteSet(Containers)
    /\ Workload \in Seq(Row)
    /\ \A a, b \in DOMAIN Workload :
          Workload[a].kind = "execution" /\ Workload[b].kind = "execution"
             /\ Workload[a].id = Workload[b].id => a = b
    /\ MaxFaults \in Nat
    /\ {Crashes, SlowContainers, MemoryPressure, DockerErrors,
        TFOutlivesRegistration} \subseteq BOOLEAN

VARIABLES
    cores_used,                  \* system_info
    queue_array,                 \* new requests, one queue per priority
    queue_pending_array,         \* requests that could not be served
    q_finish_container,          \* cores and name of every finished container
    execInfo_list,               \* the containers listed, oldest first
    info,                        \* the ExecutionInfo of each of them
    containerName_list,
    held,                        \* the locks some thread holds
    notified,                    \* cv_attention: the waiter has been woken
    rows, gen,                   \* the request thread: rows left and its pc
    creation_requests_terminate,
    att,                         \* the attention thread: its pc and locals
    docker, cpus,                \* each container of docker, and its --cpus
    backlog,                     \* connections that accept() will return
    dict_client_threads,         \* the number of each container's last thread
    cl                           \* the client threads: their pcs and locals

generator == <<rows, gen, creation_requests_terminate>>
lists     == <<execInfo_list, info, containerName_list>>
queues    == <<queue_array, queue_pending_array>>
world     == <<docker, cpus, backlog>>
clients   == <<dict_client_threads, cl>>
vars == <<cores_used, queues, q_finish_container, lists, held, notified,
          generator, att, world, clients>>

Locks == {"systemInfo", "execInfo", "containerList", "requests"}
Free(lock) == lock \notin held
Threads == Containers \X (0 .. MaxFaults)

Request == [kind : {"Start", "Update", "Restart"}, id : Containers,
            inter : Nat, intra : Nat, priority : QueueIds]

NoRequest == [kind |-> "Start", id |-> CHOOSE c \in Containers : TRUE,
              inter |-> 0, intra |-> 0, priority |-> 0]

IsLaunch(r) == r.kind \in {"Start", "Restart"}
Listed(i) == \E k \in DOMAIN execInfo_list : execInfo_list[k] = i

\* cv_attention.notify() is lost when the attention thread does not wait.
Notify == notified' = (notified \/ att.pc = "wait")

-----------------------------------------------------------------------------
(* The request thread: read_requests, and creation_requests, whose rows    *)
(* are the ones it draws.  A row without its sixth column ends the thread. *)

\* Faulty variant: two inter threads for every request.
RequestOfTwo(row) ==
    [kind |-> IF row.kind = "execution" THEN "Start" ELSE "Update",
     id |-> row.id, inter |-> 2, intra |-> row.cores - 2, priority |-> row.priority]

RequestOf(row) ==
    [kind |-> IF row.kind = "execution" THEN "Start" ELSE "Update",
     id |-> row.id, inter |-> 1, intra |-> row.cores - 1, priority |-> row.priority]

ReadRow ==
    /\ gen = "read" /\ rows # <<>> /\ Head(rows).columns = 6
    /\ Free("requests")
    /\ queue_array' = add_request(queue_array, Head(rows).priority, RequestOf(Head(rows)))
    /\ rows' = Tail(rows)
    /\ gen' = "notify"
    /\ UNCHANGED <<cores_used, queue_pending_array, q_finish_container, lists, held, notified,
                   creation_requests_terminate, att, world, clients>>

ReadShortRow ==
    /\ gen = "read" /\ rows # <<>> /\ Head(rows).columns < 6
    /\ gen' = "dead"
    /\ UNCHANGED <<cores_used, queues, q_finish_container, lists, held, notified, rows,
                   creation_requests_terminate, att, world, clients>>

NotifyRow ==
    /\ gen = "notify"
    /\ Notify
    /\ gen' = "read"
    /\ UNCHANGED <<cores_used, queues, q_finish_container, lists, held, rows,
                   creation_requests_terminate, att, world, clients>>

\* The flag is set after the last notification, and nobody is told.
EndRequests ==
    /\ gen = "read" /\ rows = <<>>
    /\ creation_requests_terminate' = TRUE
    /\ gen' = "done"
    /\ UNCHANGED <<cores_used, queues, q_finish_container, lists, held, notified, rows,
                   att, world, clients>>

Generator == ReadRow \/ ReadShortRow \/ NotifyRow \/ EndRequests

-----------------------------------------------------------------------------
(* The attention thread, attentionRequest: waiting, and finish requests.   *)

\* is_finish_attention looks at the queues first, at the flag and at the list
\* of names afterwards; the request thread may act in between.
IsFinishQueues ==
    /\ att.pc = "check" /\ Free("containerList")
    /\ IF queue_empty(queue_pending_array) /\ queue_empty(queue_array)
       THEN /\ att' = [att EXCEPT !.pc = "check2"]
            /\ held' = held \cup {"containerList"}
       ELSE /\ att' = [att EXCEPT !.pc = "towait"]
            /\ UNCHANGED held
    /\ UNCHANGED <<cores_used, queues, q_finish_container, lists, notified, generator, world, clients>>

\* Faulty variant: containers that run are forgotten.
RequestsFinished == creation_requests_terminate
AllFinished == creation_requests_terminate /\ containerName_list = {}

\* Faulty variant: the lock is not released.
IsFinishRestLocked ==
    /\ att.pc = "check2"
    /\ att' = [att EXCEPT !.pc = IF AllFinished THEN "done" ELSE "towait"]
    /\ UNCHANGED <<cores_used, queues, q_finish_container, lists, held, notified, generator,
                   world, clients>>

IsFinishRest ==
    /\ att.pc = "check2"
    /\ att' = [att EXCEPT !.pc = IF AllFinished THEN "done" ELSE "towait"]
    /\ held' = held \ {"containerList"}
    /\ UNCHANGED <<cores_used, queues, q_finish_container, lists, notified, generator, world, clients>>

Wait ==
    /\ att.pc = "towait"
    /\ att' = [att EXCEPT !.pc = "wait"]
    /\ UNCHANGED <<cores_used, queues, q_finish_container, lists, held, notified, generator,
                   world, clients>>

Wake ==
    /\ att.pc = "wait" /\ notified
    /\ notified' = FALSE
    /\ att' = [att EXCEPT !.pc = IF q_finish_container = <<>> THEN "pend" ELSE "finish"]
    /\ UNCHANGED <<cores_used, queues, q_finish_container, lists, held, generator, world, clients>>

FinishRequest ==
    /\ att.pc = "finish" /\ q_finish_container # <<>> /\ Free("systemInfo")
    /\ cores_used' = free_resources(cores_used, Head(q_finish_container).cores)
    /\ att' = [att EXCEPT !.pc = "join", !.joining = Head(q_finish_container).id]
    /\ q_finish_container' = Tail(q_finish_container)
    /\ UNCHANGED <<queues, lists, held, notified, generator, world, clients>>

\* join() of the last thread started for that name.
Join ==
    /\ att.pc = "join"
    /\ \E t \in Threads : /\ t = <<att.joining, dict_client_threads[att.joining]>>
                          /\ cl[t].pc \in {"done", "died"}
    /\ att' = [att EXCEPT !.pc = IF q_finish_container = <<>> THEN "reassign" ELSE "finish",
                          !.after = "pend"]
    /\ UNCHANGED <<cores_used, queues, q_finish_container, lists, held, notified, generator,
                   world, clients>>

-----------------------------------------------------------------------------
(* Reassignment, after finish requests and at the end of every round.      *)

\* The free cores are reserved as a whole.  At the end of a round the lock is
\* already held.  maxprop_reassigment looks whether the list is empty before
\* it takes the lock of the list.
Reassign ==
    /\ att.pc = "reassign" /\ (att.after = "pend" => Free("systemInfo"))
    /\ LET avail == check_resources(cores_used)
       IN  IF avail > 0
           THEN /\ cores_used' = apply_resources(cores_used, avail)
                /\ att' = [att EXCEPT !.avail = avail,
                                      !.pc = IF Assignment = "max_prop" /\ execInfo_list = <<>>
                                             THEN "giveback" ELSE "lockList"]
           ELSE /\ att' = [att EXCEPT !.pc = att.after]
                /\ UNCHANGED cores_used
    /\ held' = held \ {"systemInfo"}
    /\ UNCHANGED <<queues, q_finish_container, lists, notified, generator, world, clients>>

\* With several priorities the loop compares the priority of the LAST
\* container of the list with the highest one, whichever container it is at.
SkipsEverybody ==
    /\ Priorities > 1
    /\ \E k \in DOMAIN execInfo_list :
          info[execInfo_list[k]].priority > info[Last(execInfo_list)].priority

\* maxprop_reassigment divides by the length of a list that may be empty now.
LockList ==
    /\ att.pc = "lockList" /\ Free("execInfo")
    /\ IF Assignment = "max_prop" /\ execInfo_list = <<>>
       THEN att' = [att EXCEPT !.pc = "dead"]
       ELSE att' = [att EXCEPT !.pc = "give",
                               !.idx = IF SkipsEverybody THEN Len(execInfo_list) + 1 ELSE 1,
                               !.share = IF Assignment = "max_prop"
                                         THEN maxprop_factor(att.avail, Len(execInfo_list))
                                         ELSE 0]
    /\ held' = held \cup {"execInfo"}
    /\ UNCHANGED <<cores_used, queues, q_finish_container, lists, notified, generator, world, clients>>

\* docker update of a container that docker no longer has only prints an error.
DockerUpdate(i, parallelism) ==
    cpus' = [cpus EXCEPT ![i] = IF docker[i] = "none" THEN @ ELSE parallelism]

\* One container of the list: its state is read and docker is updated.
GiveNext ==
    /\ att.pc = "give" /\ att.idx \in DOMAIN execInfo_list
    /\ LET i == execInfo_list[att.idx]
           d == Decision(info[i], att.avail, att.share)
       IN  IF d = Nothing
           THEN /\ att' = [att EXCEPT !.idx = @ + 1]
                /\ UNCHANGED cpus
           ELSE /\ att' = [att EXCEPT !.pc = "given", !.give = d]
                /\ DockerUpdate(i, new_parallelism(info[i], d.inter, d.intra))
    /\ UNCHANGED <<cores_used, queues, q_finish_container, lists, held, notified, generator,
                   docker, backlog, clients>>

\* The message to the container is sent and its record is written.
\* maxprop_reassigment leaves the container in the state "update".
GiveWrite ==
    /\ att.pc = "given" /\ att.idx \in DOMAIN execInfo_list
    /\ LET i == execInfo_list[att.idx]
           c == update_parallelism(info[i], att.give.inter, att.give.intra)
       IN  info' = [info EXCEPT ![i] = IF Assignment = "max_prop"
                                       THEN [c EXCEPT !.state = "update"] ELSE c]
    /\ att' = [att EXCEPT !.pc = "give", !.idx = @ + 1, !.avail = @ - att.give.cost]
    /\ UNCHANGED <<cores_used, queues, q_finish_container, execInfo_list, containerName_list,
                   held, notified, generator, world, clients>>

\* Faulty variant: the lock is released only when cores are left over.
GiveEndLocked ==
    /\ att.pc = "give" /\ att.idx \notin DOMAIN execInfo_list
    /\ held' = IF att.avail > 0 THEN held \ {"execInfo"} ELSE held
    /\ att' = [att EXCEPT !.pc = IF att.avail > 0 THEN "giveback" ELSE att.after]
    /\ UNCHANGED <<cores_used, queues, q_finish_container, lists, notified, generator, world, clients>>

GiveEnd ==
    /\ att.pc = "give" /\ att.idx \notin DOMAIN execInfo_list
    /\ held' = held \ {"execInfo"}
    /\ att' = [att EXCEPT !.pc = IF att.avail > 0 THEN "giveback" ELSE att.after]
    /\ UNCHANGED <<cores_used, queues, q_finish_container, lists, notified, generator, world, clients>>

GiveBack ==
    /\ att.pc = "giveback" /\ Free("systemInfo")
    /\ cores_used' = free_resources(cores_used, att.avail)
    /\ att' = [att EXCEPT !.pc = att.after, !.avail = 0]
    /\ UNCHANGED <<queues, q_finish_container, lists, held, notified, generator, world, clients>>

-----------------------------------------------------------------------------
(* Pending and new requests: what is reserved for a request.               *)

\* calculate_factor_prop: the launches it adds up are the ones of the only
\* queue, or of the LAST of the two first non-empty queues.  The division by
\* the cores available is kept as a pair.
QueueRank(q) == IF queue_empty(q) THEN -1
                ELSE CHOOSE p \in QueueIds : IsFirstNonEmpty(q, p)

FactorQueue ==
    LET new == QueueRank(queue_array)
        pending == QueueRank(queue_pending_array)
        p == IF Priorities = 1 THEN 0 ELSE IF new > pending THEN new ELSE pending
    IN  IF p = -1 THEN <<>> ELSE queue_pending_array[p] \o queue_array[p]

RequestedTotal ==
    LET Add(r, total) == IF IsLaunch(r) THEN total + r.inter + r.intra ELSE total
    IN  FoldSeq(Add, 0, FactorQueue)

calculate_factor_prop(avail) ==
    IF RequestedTotal \in Nat \ {0} THEN <<RequestedTotal, avail>> ELSE <<1, 1>>

\* For an Update it calls a method that ExecutionInfo does not have.
FactorRaises ==
    /\ execInfo_list # <<>>
    /\ \E k \in DOMAIN FactorQueue : FactorQueue[k].kind = "Update"

\* Pending requests are looked at when some core is free.  Under max_prop the
\* queues stay locked until the end of the round.
Pending ==
    /\ att.pc = "pend" /\ Free("systemInfo")
    /\ LET avail == check_resources(cores_used)
           locks == IF Assignment = "max_prop" THEN {"requests"} ELSE {}
       IN  /\ \A l \in locks : Free(l)
           /\ Assignment = "max_prop" /\ avail > 0 => Free("execInfo")
           /\ IF Assignment = "max_prop" /\ avail > 0 /\ FactorRaises
              THEN /\ att' = [att EXCEPT !.pc = "dead"]
                   /\ held' = held \cup {"requests", "systemInfo", "execInfo"}
              ELSE IF avail > 0
              THEN /\ att' = [att EXCEPT !.pc = "take", !.phase = "pending", !.avail = avail,
                                         !.factor = IF Assignment = "max_prop"
                                                    THEN calculate_factor_prop(avail) ELSE @]
                   /\ held' = held \cup locks \cup {"systemInfo"}
              ELSE /\ att' = [att EXCEPT !.pc = "new"]
                   /\ held' = held \cup locks
    /\ UNCHANGED <<cores_used, queues, q_finish_container, lists, notified, generator, world, clients>>

New ==
    /\ att.pc = "new" /\ Free("systemInfo")
    /\ held' = held \cup {"systemInfo"}
    /\ LET avail == check_resources(cores_used)
       IN  att' = IF avail > 0
                  THEN [att EXCEPT !.pc = "take", !.phase = "new", !.avail = avail]
                  ELSE [att EXCEPT !.pc = "reassign", !.after = "occ"]
    /\ UNCHANGED <<cores_used, queues, q_finish_container, lists, notified, generator, world, clients>>

Requested(r) ==
    IF r.kind = "Start" THEN r.inter + r.intra
    ELSE IF ~ Listed(r.id) THEN 0
    ELSE IF r.kind = "Restart" THEN Parallelism(info[r.id])
    ELSE IF info[r.id].state = "start" THEN r.inter + r.intra - Parallelism(info[r.id])
    ELSE 0

\* Faulty variant: what is available is not looked at.
schedule_everything(r, avail) == Requested(r)

\* What schedule_resources returns: the cores it reserved, or minus the cores
\* it freed.
schedule_resources(r, avail) ==
    LET q == Requested(r)
    IN  IF q > 0 /\ (q > avail \/ Assignment = "max_prop") THEN avail ELSE q

\* The request at the head of the first non-empty queue.  In the pending loop
\* the lock is kept when there is nothing to schedule.
TakeRequest ==
    /\ att.pc = "take"
    /\ \E p \in QueueIds :
          LET q == IF att.phase = "pending" THEN queue_pending_array ELSE queue_array
              r == Head(q[p])
              granted == schedule_resources(r, att.avail)
          IN  /\ IsFirstNonEmpty(q, p)
              /\ IF att.phase = "pending"
                 THEN /\ queue_pending_array' = [q EXCEPT ![p] = Tail(@)]
                      /\ UNCHANGED queue_array
                 ELSE /\ queue_array' = [q EXCEPT ![p] = Tail(@)]
                      /\ UNCHANGED queue_pending_array
              /\ cores_used' = IF granted > 0 THEN apply_resources(cores_used, granted)
                               ELSE free_resources(cores_used, -granted)
              /\ held' = IF att.phase = "new" \/ granted # 0 THEN held \ {"systemInfo"} ELSE held
              /\ att' = [att EXCEPT !.pc = IF granted # 0 THEN "schedule" ELSE "post",
                                    !.request = r, !.granted = granted, !.ok = FALSE]
    /\ UNCHANGED <<q_finish_container, lists, notified, generator, world, clients>>

\* The pending queues are empty when the requests put aside go back to them.
PendingEnd ==
    /\ att.pc = "take" /\ att.phase = "pending" /\ queue_empty(queue_pending_array)
    /\ queue_pending_array' = att.q_aux
    /\ held' = held \ {"systemInfo"}
    /\ att' = [att EXCEPT !.pc = "new", !.q_aux = [p \in QueueIds |-> <<>>]]
    /\ UNCHANGED <<cores_used, queue_array, q_finish_container, lists, notified, generator,
                   world, clients>>

NewEnd ==
    /\ att.pc = "take" /\ att.phase = "new" /\ queue_empty(queue_array)
    /\ att' = [att EXCEPT !.pc = "reassign", !.after = "occ"]
    /\ UNCHANGED <<cores_used, queues, q_finish_container, lists, held, notified, generator,
                   world, clients>>

-----------------------------------------------------------------------------
(* schedule_request, updateExecutionInstance and what follows them.        *)

\* docker container prune removes every container that has stopped.
Pruned(d) == [i \in Containers |-> IF d[i] = "exited" THEN "none" ELSE d[i]]

\* docker stop and the prune that follows it.  Faulty variant: only the prune.
OnlyPrune(i) == Pruned(docker)
StopContainer(i) == Pruned([docker EXCEPT ![i] = "none"])

\* Faulty variant: the excess is kept.
AfterScheduleKeep(give) == "post"

\* Excess cores are given back before anything else is done with the request.
AfterSchedule(give) ==
    IF give.cost # 0 /\ give.cost < att.granted THEN "excess" ELSE "post"

\* A Start or a Restart: what it gets, and docker run.  An error of docker run
\* (the name is in use, for one) ends the thread.
ScheduleLaunch ==
    /\ att.pc = "schedule" /\ IsLaunch(att.request)
    /\ LET r == att.request
           p == schedule_parallelism(att.granted, r.inter, r.intra, att.factor)
       IN  \/ /\ p = <<>> \/ MemoryPressure
              /\ att' = [att EXCEPT !.pc = "post"]
              /\ UNCHANGED <<docker, cpus>>
           \/ /\ p # <<>> /\ docker[r.id] = "none"
              /\ docker' = [docker EXCEPT ![r.id] = "boot"]
              /\ cpus' = [cpus EXCEPT ![r.id] = p[1] + p[2]]
              /\ att' = [att EXCEPT !.pc = "accept", !.attemps = 0,
                                    !.give = Give(p[1], p[2], p[1] + p[2])]
           \/ /\ p # <<>> /\ (docker[r.id] # "none" \/ DockerErrors)
              /\ docker' = StopContainer(r.id)
              /\ att' = [att EXCEPT !.pc = "dead"]
              /\ UNCHANGED cpus
    /\ UNCHANGED <<cores_used, queues, q_finish_container, lists, held, notified, generator,
                   backlog, clients>>

\* accept() returns the oldest connection, whichever container opened it, and
\* the client thread starts.
Accept ==
    /\ att.pc = "accept" /\ backlog # <<>>
    /\ \E n \in 0 .. MaxFaults :
          LET i == att.request.id
          IN  /\ n = dict_client_threads[i] + 1
              /\ dict_client_threads' = [dict_client_threads EXCEPT ![i] = n]
              /\ cl' = [cl EXCEPT ![<<i, n>>].pc = "init", ![<<i, n>>].peer = Head(backlog)]
    /\ backlog' = Tail(backlog)
    /\ att' = [att EXCEPT !.pc = "register"]
    /\ UNCHANGED <<cores_used, queues, q_finish_container, lists, held, notified, generator,
                   docker, cpus>>

\* After the last timeout the container is left running.
AcceptTimeout ==
    /\ att.pc = "accept" /\ SlowContainers /\ backlog = <<>>
    /\ att' = [att EXCEPT !.attemps = @ + 1,
                          !.pc = IF att.attemps + 1 = MaxAttempts THEN AfterSchedule(att.give) ELSE @]
    /\ UNCHANGED <<cores_used, queues, q_finish_container, lists, held, notified, generator,
                   world, clients>>

\* A restarted container keeps its record; update_info takes no lock.
RegisterRestart ==
    /\ att.pc = "register" /\ att.request.kind = "Restart"
    /\ LET i == att.request.id
       IN  info' = [info EXCEPT ![i] = IF Listed(i)
                                       THEN [@ EXCEPT !.inter = att.give.inter,
                                                      !.intra = att.give.intra,
                                                      !.state = "start"]
                                       ELSE @]
    /\ att' = [att EXCEPT !.ok = TRUE, !.pc = AfterSchedule(att.give)]
    /\ UNCHANGED <<cores_used, queues, q_finish_container, execInfo_list, containerName_list,
                   held, notified, generator, world, clients>>

RegisterStart ==
    /\ att.pc = "register" /\ att.request.kind = "Start" /\ Free("execInfo")
    /\ LET r == att.request
       IN  /\ execInfo_list' = Append(execInfo_list, r.id)
           /\ info' = [info EXCEPT ![r.id] =
                         [inter_user |-> r.inter, intra_user |-> r.intra,
                          inter |-> att.give.inter, intra |-> att.give.intra,
                          state |-> "start", priority |-> r.priority]]
    /\ att' = [att EXCEPT !.pc = "registerName"]
    /\ UNCHANGED <<cores_used, queues, q_finish_container, containerName_list, held, notified,
                   generator, world, clients>>

RegisterName ==
    /\ att.pc = "registerName" /\ Free("containerList")
    /\ containerName_list' = containerName_list \cup {att.request.id}
    /\ att' = [att EXCEPT !.ok = TRUE, !.pc = AfterSchedule(att.give)]
    /\ UNCHANGED <<cores_used, queues, q_finish_container, execInfo_list, info, held, notified,
                   generator, world, clients>>

\* Faulty variant: the whole update is written whatever was reserved for it.
UpdateGiveAll(r, c) == <<Give(r.inter, r.intra, r.inter + r.intra - Parallelism(c))>>

\* What updateExecutionInstance hands to update_parallelism, and the cores it
\* reports: with fewer cores the new values, otherwise the old values plus
\* what the policy gives of the difference; <<>> when it gives nothing.
UpdateGive(r, c) ==
    LET p == schedule_parallelism(att.granted, r.inter - c.inter, r.intra - c.intra, att.factor)
    IN  IF att.granted < 0
        THEN <<Give(r.inter, r.intra, r.inter + r.intra - Parallelism(c))>>
        ELSE IF p = <<>> THEN <<>>
        ELSE <<Give(IF p[1] # 0 THEN c.inter + p[1] ELSE 0,
                    IF p[1] # 0 /\ p[2] = 0 THEN 0 ELSE c.intra + p[2],
                    p[1] + p[2])>>

ScheduleUpdate ==
    /\ att.pc = "schedule" /\ att.request.kind = "Update"
    /\ LET r == att.request
           c == info[r.id]
           g == UpdateGive(r, c)
       IN  IF ~ Listed(r.id)
           THEN /\ att' = [att EXCEPT !.pc = "post"]
                /\ UNCHANGED <<held, cpus>>
           ELSE /\ Free("execInfo")
                /\ IF c.state # "start" \/ g = <<>>
                   THEN /\ att' = [att EXCEPT !.pc = "post"]
                        /\ UNCHANGED <<held, cpus>>
                   ELSE /\ att' = [att EXCEPT !.pc = "updating", !.give = g[1]]
                        /\ held' = held \cup {"execInfo"}
                        /\ DockerUpdate(r.id, new_parallelism(c, g[1].inter, g[1].intra))
    /\ UNCHANGED <<cores_used, queues, q_finish_container, lists, notified, generator,
                   docker, backlog, clients>>

UpdateWrite ==
    /\ att.pc = "updating"
    /\ info' = [info EXCEPT ![att.request.id] =
                   update_parallelism(@, att.give.inter, att.give.intra)]
    /\ held' = held \ {"execInfo"}
    /\ att' = [att EXCEPT !.ok = TRUE, !.pc = AfterSchedule(att.give)]
    /\ UNCHANGED <<cores_used, queues, q_finish_container, execInfo_list, containerName_list,
                   notified, generator, world, clients>>

\* The message of update_parallelism goes to a container that has stopped: the
\* thread ends with the lock of the list held.
SendFails ==
    /\ \/ att.pc = "updating" /\ docker[att.request.id] \in {"none", "exited"}
       \/ /\ att.pc = "given" /\ att.idx \in DOMAIN execInfo_list
          /\ docker[execInfo_list[att.idx]] \in {"none", "exited"}
    /\ att' = [att EXCEPT !.pc = "dead"]
    /\ UNCHANGED <<cores_used, queues, q_finish_container, lists, held, notified, generator,
                   world, clients>>

\* free_resources outside mutex_systemInfo: a read, and a write later.
ExcessRead ==
    /\ att.pc = "excess"
    /\ att' = [att EXCEPT !.pc = "excessWrite", !.tmp = cores_used]
    /\ UNCHANGED <<cores_used, queues, q_finish_container, lists, held, notified, generator,
                   world, clients>>

ExcessWrite ==
    /\ att.pc = "excessWrite"
    /\ cores_used' = free_resources(att.tmp, att.granted - att.give.cost)
    /\ att' = [att EXCEPT !.pc = "post", !.tmp = 0]
    /\ UNCHANGED <<queues, q_finish_container, lists, held, notified, generator, world, clients>>

\* The pending loop goes on under the lock, which it kept if nothing was
\* reserved.  A request that was not served is put aside.
PostPending ==
    /\ att.pc = "post" /\ att.phase = "pending"
    /\ att.granted # 0 => Free("systemInfo")
    /\ held' = held \cup {"systemInfo"}
    /\ cores_used' = IF att.ok THEN cores_used ELSE free_resources(cores_used, att.granted)
    /\ att' = [att EXCEPT !.pc = "take", !.avail = check_resources(cores_used'),
                          !.request = NoRequest, !.granted = 0, !.give = Nothing, !.ok = FALSE,
                          !.q_aux = IF att.ok THEN @
                                    ELSE add_request(@, att.request.priority, att.request)]
    /\ UNCHANGED <<queues, q_finish_container, lists, notified, generator, world, clients>>

\* A new request that was not served becomes pending, or is dropped when the
\* machine is too small for it; its reservation is freed outside the lock.
PostNew ==
    /\ att.pc = "post" /\ att.phase = "new"
    /\ IF att.ok
       THEN /\ att' = [att EXCEPT !.pc = "relock"]
            /\ UNCHANGED queue_pending_array
       ELSE /\ att' = [att EXCEPT !.pc = "postWrite", !.tmp = cores_used]
            /\ queue_pending_array' =
                  IF att.request.inter + att.request.intra > Cores THEN queue_pending_array
                  ELSE add_request(queue_pending_array, att.request.priority, att.request)
    /\ UNCHANGED <<cores_used, queue_array, q_finish_container, lists, held, notified, generator,
                   world, clients>>

PostWrite ==
    /\ att.pc = "postWrite"
    /\ cores_used' = free_resources(att.tmp, att.granted)
    /\ att' = [att EXCEPT !.pc = "relock", !.tmp = 0]
    /\ UNCHANGED <<queues, q_finish_container, lists, held, notified, generator, world, clients>>

Relock ==
    /\ att.pc = "relock" /\ Free("systemInfo")
    /\ held' = held \cup {"systemInfo"}
    /\ att' = [att EXCEPT !.pc = "take", !.avail = check_resources(cores_used),
                          !.request = NoRequest, !.granted = 0, !.give = Nothing, !.ok = FALSE]
    /\ UNCHANGED <<cores_used, queues, q_finish_container, lists, notified, generator, world, clients>>

\* Every round assigns its locals before it reads them; factor_prop belongs to
\* the policy object and stays.
AttentionAt(pc, factor) ==
    [pc |-> pc, phase |-> "pending", request |-> NoRequest, granted |-> 0, give |-> Nothing,
     ok |-> FALSE, avail |-> 0, q_aux |-> [p \in QueueIds |-> <<>>], idx |-> 1, share |-> 0,
     factor |-> factor, attemps |-> 0, tmp |-> 0, joining |-> NoRequest.id, after |-> "occ"]

\* The end of a round: the occupation must not exceed 100 %.
Occupation ==
    /\ att.pc = "occ" /\ Free("systemInfo")
    /\ IF over_occupied(cores_used)
       THEN /\ att' = [att EXCEPT !.pc = "dead"]
            /\ held' = held \cup {"systemInfo"}
       ELSE /\ att' = AttentionAt("check", att.factor)
            /\ held' = IF Assignment = "max_prop" THEN held \ {"requests"} ELSE held
    /\ UNCHANGED <<cores_used, queues, q_finish_container, lists, notified, generator, world, clients>>

Finishing == FinishRequest \/ Join
Reassigning == Reassign \/ LockList \/ GiveNext \/ GiveWrite \/ GiveEnd \/ GiveBack
Launching == ScheduleLaunch \/ Accept \/ RegisterRestart \/ RegisterStart \/ RegisterName
Updating == ScheduleUpdate \/ UpdateWrite
Serving == \/ Pending \/ New \/ TakeRequest \/ PendingEnd \/ NewEnd \/ ExcessRead \/ ExcessWrite
           \/ PostPending \/ PostNew \/ PostWrite \/ Relock \/ Occupation
Attention == \/ IsFinishQueues \/ IsFinishRest \/ Wait \/ Wake \/ Finishing \/ Reassigning
             \/ Launching \/ Updating \/ Serving

-----------------------------------------------------------------------------
(* The client threads, container_client.  A thread is a container and the  *)
(* number of times it was launched before; its peer is the container at    *)
(* the other end of its connection.                                        *)

\* A thread may run between its start and the registration of its container.
Registering(t) == att.pc \in {"register", "registerName"} /\ att.request.id = t[1]

ClientInit(t) ==
    /\ cl[t].pc = "init" /\ docker[cl[t].peer] = "up"
    /\ cl' = [cl EXCEPT ![t].pc = "loop"]
    /\ UNCHANGED <<cores_used, queues, q_finish_container, lists, held, notified, generator, att,
                   world, dict_client_threads>>

\* The exit message arrives: remove_container takes the record out of the list
\* and leaves its cores to the attention thread.
ClientExit(t) ==
    /\ cl[t].pc = "loop" /\ docker[cl[t].peer] = "finished" /\ Free("execInfo")
    /\ docker' = [docker EXCEPT ![cl[t].peer] = "leaving"]
    /\ cl' = [cl EXCEPT ![t].pc = IF Listed(t[1]) THEN "removeName" ELSE "removeLost"]
    /\ IF Listed(t[1])
       THEN /\ \E k \in DOMAIN execInfo_list :
                  /\ execInfo_list[k] = t[1]
                  /\ execInfo_list' = RemoveAt(execInfo_list, k)
            /\ q_finish_container' =
                  Append(q_finish_container, [cores |-> Parallelism(info[t[1]]), id |-> t[1]])
            /\ Notify
       ELSE UNCHANGED <<execInfo_list, q_finish_container, notified>>
    /\ UNCHANGED <<cores_used, queues, info, containerName_list, held, generator, att, cpus,
                   backlog, dict_client_threads>>

\* The name goes too, and the container is told that it may leave.
ClientRemoveName(t) ==
    /\ cl[t].pc = "removeName" /\ Free("containerList") /\ t[1] \in containerName_list
    /\ containerName_list' = containerName_list \ {t[1]}
    /\ docker' = [docker EXCEPT ![cl[t].peer] = IF @ = "leaving" THEN "exited" ELSE @]
    /\ cl' = [cl EXCEPT ![t].pc = "end"]
    /\ UNCHANGED <<cores_used, queues, q_finish_container, execInfo_list, info, held, notified,
                   generator, att, cpus, backlog, dict_client_threads>>

\* A name that is not in the list raises inside the lock, which stays held.  A
\* record that was not in the list raises when the name is gone already.
\* Either way the thread goes back to wait for messages.
ClientRemoveRaises(t) ==
    /\ Free("containerList")
    /\ \/ /\ cl[t].pc \in {"removeName", "removeLost"} /\ t[1] \notin containerName_list
          /\ held' = held \cup {"containerList"}
          /\ UNCHANGED containerName_list
       \/ /\ cl[t].pc = "removeLost" /\ t[1] \in containerName_list
          /\ containerName_list' = containerName_list \ {t[1]}
          /\ UNCHANGED held
    /\ cl' = [cl EXCEPT ![t].pc = "loop"]
    /\ UNCHANGED <<cores_used, queues, q_finish_container, execInfo_list, info, notified,
                   generator, att, world, dict_client_threads>>

\* The thread waits for a message.  Faulty variant: also after the last one.
StillWatching(t) == cl[t].pc \in {"init", "loop", "removeName", "end"}
Watching(t) == cl[t].pc \in {"init", "loop"}

\* container_failed_attention: no message for too long and no "live" in answer
\* to the probe (an exit message in its place counts as none, and a container
\* that waits to leave does not answer), or no first message at all; in that
\* case the thread goes on reading afterwards.
ClientFail(t) ==
    /\ Watching(t) /\ t[2] < MaxFaults
    /\ docker[cl[t].peer] \in {"up", "finished", "leaving"}
    /\ TFOutlivesRegistration => ~ Registering(t)
    /\ docker' = StopContainer(t[1])
    /\ cl' = [cl EXCEPT ![t].pc = "failRead", ![t].zombie = (cl[t].pc = "init")]
    /\ UNCHANGED <<cores_used, queues, q_finish_container, lists, held, notified, generator, att,
                   cpus, backlog, dict_client_threads>>

\* The record is read without its lock.
FailRead(t) ==
    /\ cl[t].pc = "failRead"
    /\ cl' = [cl EXCEPT ![t].pc = IF Listed(t[1]) THEN "failMark" ELSE "failLost",
                        ![t].inter = info[t[1]].inter, ![t].intra = info[t[1]].intra]
    /\ UNCHANGED <<cores_used, queues, q_finish_container, lists, held, notified, generator, att,
                   world, dict_client_threads>>

\* Without a record the thread raises inside mutex_systemInfo, which stays held.
FailRaises(t) ==
    /\ cl[t].pc = "failLost" /\ Free("systemInfo")
    /\ held' = held \cup {"systemInfo"}
    /\ cl' = [cl EXCEPT ![t].pc = "died"]
    /\ UNCHANGED <<cores_used, queues, q_finish_container, lists, notified, generator, att, world,
                   dict_client_threads>>

FailMark(t) ==
    /\ cl[t].pc = "failMark"
    /\ info' = [info EXCEPT ![t[1]].state = "failed"]
    /\ cl' = [cl EXCEPT ![t].pc = "failLock"]
    /\ UNCHANGED <<cores_used, queues, q_finish_container, execInfo_list, containerName_list,
                   held, notified, generator, att, world, dict_client_threads>>

\* free_resources inside mutex_systemInfo, still a read and a write.
FailLock(t) ==
    /\ cl[t].pc = "failLock" /\ Free("systemInfo")
    /\ held' = held \cup {"systemInfo"}
    /\ cl' = [cl EXCEPT ![t].pc = "failFree", ![t].tmp = cores_used]
    /\ UNCHANGED <<cores_used, queues, q_finish_container, lists, notified, generator, att, world,
                   dict_client_threads>>

FailFree(t) ==
    /\ cl[t].pc = "failFree"
    /\ cores_used' = free_resources(cl[t].tmp, cl[t].inter + cl[t].intra)
    /\ held' = held \ {"systemInfo"}
    /\ cl' = [cl EXCEPT ![t].pc = "failQueue", ![t].tmp = 0]
    /\ UNCHANGED <<queues, q_finish_container, lists, notified, generator, att, world,
                   dict_client_threads>>

FailQueue(t) ==
    /\ cl[t].pc = "failQueue" /\ Free("requests")
    /\ queue_array' = add_request(queue_array, info[t[1]].priority,
                         [kind |-> "Restart", id |-> t[1], inter |-> cl[t].inter,
                          intra |-> cl[t].intra, priority |-> info[t[1]].priority])
    /\ cl' = [cl EXCEPT ![t].pc = "failNotify", ![t].inter = 0, ![t].intra = 0]
    /\ UNCHANGED <<cores_used, queue_pending_array, q_finish_container, lists, held, notified,
                   generator, att, world, dict_client_threads>>

FailNotify(t) ==
    /\ cl[t].pc = "failNotify"
    /\ Notify
    /\ cl' = [cl EXCEPT ![t].pc = IF cl[t].zombie THEN "spin" ELSE "end"]
    /\ UNCHANGED <<cores_used, queues, q_finish_container, lists, held, generator, att, world,
                   dict_client_threads>>

ClientEnd(t) ==
    /\ cl[t].pc = "end"
    /\ docker' = Pruned(docker)
    /\ Notify
    /\ cl' = [cl EXCEPT ![t].pc = "done"]
    /\ UNCHANGED <<cores_used, queues, q_finish_container, lists, held, generator, att, cpus,
                   backlog, dict_client_threads>>

FailAttention(t) == \/ FailRead(t) \/ FailRaises(t) \/ FailMark(t) \/ FailLock(t)
                    \/ FailFree(t) \/ FailQueue(t) \/ FailNotify(t)
Client(t) == \/ ClientInit(t) \/ ClientExit(t) \/ ClientRemoveName(t) \/ ClientRemoveRaises(t)
             \/ FailAttention(t) \/ ClientEnd(t)

-----------------------------------------------------------------------------
(* The containers.                                                         *)

ContainerConnects(i) ==
    /\ docker[i] = "boot"
    /\ docker' = [docker EXCEPT ![i] = "up"]
    /\ backlog' = Append(backlog, i)
    /\ UNCHANGED <<cores_used, queues, q_finish_container, lists, held, notified, generator, att,
                   cpus, clients>>

\* The training ends and the exit message is sent.
TrainingEnds(i) ==
    /\ docker[i] = "up"
    /\ \E t \in Threads : /\ cl[t].pc = "loop" /\ cl[t].peer = i
                          /\ TFOutlivesRegistration => ~ Registering(t)
    /\ docker' = [docker EXCEPT ![i] = "finished"]
    /\ UNCHANGED <<cores_used, queues, q_finish_container, lists, held, notified, generator, att,
                   cpus, backlog, clients>>

\* The container dies; its thread reads the end of the stream forever.
Crash(i) ==
    /\ Crashes /\ docker[i] = "up"
    /\ docker' = [docker EXCEPT ![i] = "exited"]
    /\ UNCHANGED <<cores_used, queues, q_finish_container, lists, held, notified, generator, att,
                   cpus, backlog, clients>>

-----------------------------------------------------------------------------
Init ==
    /\ cores_used = 0
    /\ queue_array = [p \in QueueIds |-> <<>>]
    /\ queue_pending_array = [p \in QueueIds |-> <<>>]
    /\ q_finish_container = <<>>
    /\ execInfo_list = <<>>
    /\ info = [i \in Containers |-> [inter_user |-> 0, intra_user |-> 0, inter |-> 0, intra |-> 0,
                                     state |-> "start", priority |-> 0]]
    /\ containerName_list = {}
    /\ held = {}
    /\ notified = FALSE
    /\ rows = Workload /\ gen = "read" /\ creation_requests_terminate = FALSE
    /\ att = AttentionAt("check", <<1, 1>>)
    /\ docker = [i \in Containers |-> "none"]
    /\ cpus = [i \in Containers |-> 0]
    /\ backlog = <<>>
    /\ dict_client_threads = [i \in Containers |-> -1]
    /\ cl = [t \in Threads |-> [pc |-> "none", peer |-> t[1], inter |-> 0, intra |-> 0,
                                tmp |-> 0, zombie |-> FALSE]]

Next ==
    \/ Generator
    \/ Attention
    \/ AcceptTimeout \/ SendFails
    \/ \E t \in Threads : Client(t) \/ ClientFail(t)
    \/ \E i \in Containers : ContainerConnects(i) \/ TrainingEnds(i) \/ Crash(i)

Spec == Init /\ [][Next]_vars

\* Every thread that can go on does, docker starts what it is told to start and
\* every training ends; nothing has to fail.
FairSpec ==
    /\ Spec
    /\ WF_vars(Generator) /\ WF_vars(Attention)
    /\ \A t \in Threads : WF_vars(Client(t))
    /\ \A i \in Containers : WF_vars(ContainerConnects(i)) /\ WF_vars(TrainingEnds(i))
=============================================================================
