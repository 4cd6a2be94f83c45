# A TLA+ model of the TensorFlow container scheduler

The repository is a fork of TensorFlow with a scheduler of its own under
`src/scheduler`: a process that reads requests for trainings from a file, starts a docker
container for each one when there are cores for it, and changes the threads of the
containers while they run. In a container, `client.py` starts the training and passes the
changes on to it; the fork changes the executor of TensorFlow. This directory models the
scheduler, the conversation with a container, one step of the executor and one parallel
loop of its thread pool, checks them with TLC on small instances, and proves with TLAPS,
for every instance, properties of the scheduler, its policies, the conversation and the
parallel loop.

Line numbers without a file name refer to
`src/scheduler/Scheduler-host/scheduler.py`.

## 1. Inventory

| part | state it keeps | operations |
|---|---|---|
| Core ledger, `system.py` | `cores`, `cores_used` | `check_resources`, `apply_resources`, `free_resources`, `system_occupation` |
| Policies and queues, `scheduling_policy.py` | one or five queues of new and of pending requests, `factor_prop` | `schedule_parallelism` (strict, max_prop, always_attend), `add_*`/`get_*`, `*_empty`, `calculate_factor_prop` |
| Requests, `request.py` | name, inter and intra threads, priority | none: Start, Update, Restart (Pause, Resume, Finish are never queued) |
| Execution records, `execution_info.py` | threads asked for, threads granted, state, priority, socket | `update_parallelism`, `update_info`, `set_state`; pause and resume have no caller that runs |
| Request thread, 679-792 | the rows left, `creation_requests_terminate` | queue a request, notify |
| Attention thread, 1012-1228 | locals of a round, `q_finish_container`, `execInfo_list`, `containerName_list` | finish requests, reassignment, pending and new requests |
| Client threads, 794-1010 | a socket per container | first message, exit, probe, failure and restart |
| Container side, `Client/client.py` | threads file, semaphore `cv_update`, `finalize`, `inter_up`, `intra_up` | progressive update, live control, exit |
| Framing, `Commons/json_data_socket.py` | none | `_send` (two sends), `_recv` (the length byte by byte, then the data) |
| Executor, `executor.cc`, `pending_counts.h` | frames, iterations, pending counts, ready queues, counters of the step | `Process`, `PropagateOutputs`, `ActivateNodes`, `NodeDone`, `ScheduleReady`, `Finish` |
| Thread pool, `threadpool.cc`, `blocking_counter.h` | ranges, the count on the stack of the caller | `ParallelForFixedBlockSizeScheduling`, `DecrementCount`, `Wait` |
| Occupation sampler, signal handler, main | `finish_execution` | start and join of the threads |
| Trace log, epoch files, plots, drivers | output only | none that decides anything |

How the parts interact. All the threads of the scheduler share one process. They use four
locks that matter: `mutex_systemInfo` (the ledger), `mutex_execInfo` (the list of
records), `mutex_containerList` (the list of names) and `scheduling_requests` (the
queues), and the condition `cv_attention`, on which only the attention thread waits. The
request thread and failing client threads queue requests; client threads of finished
containers queue the cores to free; the attention thread does everything else. Docker
containers connect to one listening socket, and `accept()` returns the oldest connection.
Each container then talks to its client thread over that connection; the attention thread
sends its updates on it too. In the container `client.py` has a main thread that handles
signals and three more, and tells the training about its threads with a file and a
signal. The training runs steps of the executor, whose kernels use the thread pool.

What is hard. The ledger is reserved in one place, corrected in three others and freed by
two kinds of threads, not always under its lock. Several facts are read under one lock
and used under another or under none. A container can fail, be given up, finish or be
restarted at any point of a round of the attention thread, and between any two messages.
Two threads write on each end of a connection. Notifications are not counted. In the
executor counts of nodes, iterations and frames are lowered under different locks, and
each is what keeps something alive. `PROJECT.json` lists each of these places under
`hazards`.

What makes each part correct:

- *ledger*: it never exceeds the machine (`NoOvercommit`), and between rounds it equals
  what the containers have (`LedgerExact`); every step of the scheduler is one of an
  abstract ledger (`ImplementsLedger`);
- *policies*: a launch fits in what was reserved for it (`AlwaysAttendFits`,
  `MaxPropFits`), and a reassignment deducts what it hands out (`StrictReassignmentPaid`,
  `MaxPropReassignmentPaid`);
- *containers*: those that run never have more cores than the machine
  (`NoOversubscription`); a name is free when it is used again (`NameIsFree`); a failed
  container gets nothing before it is restarted (`FailedUntilRestarted`);
- *threads*: `join()` is called on the right thread (`JoinOnlyFinishing`), a round ends
  (`RoundEnds`), a container that says it has ended is released (`ClientEnds`), and
  nothing is left when the attention thread ends (`NothingLeftAtEnd`);
- *conversation*: an update is not forgotten and the last one wins (`NoUpdateForgotten`,
  `LatestApplied`); an answer belongs to its probe (`AnswersMatch`); the acknowledgement
  comes after the removal and in one piece (`EndsAfterRemoval`, `AckInOnePiece`); who
  answers is kept (`LiveKept`), who ends is attended (`ExitAttended`, `AckEndsClient`);
- *executor*: it fires what the graph allows (`ImplementsDataflow`), its counts are exact
  (`CountExact`, `OpsExact`), what a node needs is alive and whole (`IterationAlive`,
  `InputsWhole`), at most `max_parallel_iterations` overlap (`ParallelIterations`), the
  step ends once, with everything computed (`FinishOnce`, `Complete`, `StepEnds`), and what
  threads still do with a step that is deleted is limited (`OnlyEntryAfterDelete`);
- *parallel loop*: every unit is done once, in whole blocks (`ExactlyOnce`,
  `FixedBlocks`), nobody uses the stack of a caller that has returned
  (`NoUseAfterReturn`), and it returns (`Returns`).

## 2. The modules

| module | models |
|---|---|
| `Totals` | the sum of a function, as the number of its units |
| `SystemInfo` | the ledger as operators on `cores_used` |
| `SchedulingPolicy` | `schedule_parallelism`, rounding, and the queue arrays |
| `Reassignment` | the record of a container, `update_parallelism`, and what each reassignment decides for one container |
| `PolicyTheorems` | lemmas about the policies, the reassignments and their rounding |
| `Scheduler` | all the threads of the scheduler, with their program counters, locks and shared state |
| `CoreLedger` | abstract: cores are set aside for one decision, allotted, given back, returned |
| `SchedulerProperties` | properties of `Scheduler`, its inductive invariant, its mapping to `CoreLedger` |
| `SchedulerProofs` | theorems: types, the bounds of the ledger; orders, threads, names, failures and the end |
| `LedgerProofs` | theorems: the exact ledger, the shares of docker, the refinement of `CoreLedger` |
| `ContainerProtocol` | one container against its client thread and the attention thread |
| `ContainerProtocolProperties`, `ContainerProtocolProofs` | its properties, inductive invariants and theorems |
| `DataflowGraph` | a graph as `ExecutorImpl::Initialize` prepares it |
| `Dataflow` | abstract: which nodes of a graph with loops may fire, from what has fired |
| `Executor` | one step of `ExecutorState`, thread by thread |
| `ExecutorProperties` | its properties and its mapping to `Dataflow` |
| `ExecutorFrameProofs` | theorems: frames, iterations and their counts |
| `ExecutorProofs` | theorems: the count of the step and its end |
| `ParallelFor` | one call of `ParallelForFixedBlockSizeScheduling` with its `BlockingCounter` |
| `ParallelForProperties`, `ParallelForProofs` | its properties, inductive invariant and theorems |
| `MCPolicy`, `PolicyProofs` | a walk over the inputs of the policies up to a bound, and the theorems about it for every bound |
| `MCScheduler`, `MCProtocol`, `MCExecutor`, `MCParallelFor` | workloads, worlds, graphs and calls for TLC |

`Scheduler` extends `Reassignment` and `SystemInfo`; `Reassignment` extends
`SchedulingPolicy`. The pure algorithms are operators of their own so that the run
`policy` can compare them with what a policy owes, and the proofs can cite lemmas about
them. `Scheduler` and `ContainerProtocol` meet in `container_client`: `Scheduler` has all
the containers and locks but takes a message as one event of its container;
`ContainerProtocol` has one container, every part of a message, and both ends.

### Scheduler: state

`cores_used`, the queue arrays, `q_finish_container`, `execInfo_list` and
`containerName_list` are the variables of the code. The records are split from the list:
`info[i]` is the record of container `i`, and it keeps its last value after the record
has left the list, because client threads go on using it. `held` is the set of locks that
are held; a lock whose holder died stays in it. `notified` says that the waiter of
`cv_attention` was woken; a notification without a waiter changes nothing. `att` is the
attention thread: its program counter and the locals that are live at it. Locals that the
code does not read again are reset, so that two states that behave the same are the same
state. `cl` holds the client threads, one for each launch of a container; `peer` is the
container at the other end of its connection, which need not be the one the thread was
started for. `docker`, `cpus` and `backlog` are the world: the state of each container,
its `--cpus`, and the connections that wait for `accept()`.

### Scheduler: steps

A step ends wherever another thread can see or change what it touched: where a lock is
taken or released, where shared state is read or written outside its lock, and at each
call that takes time. What happens inside a lock that every other user of the data takes
too is one step. Reads and writes without the lock are steps of their own: `ExcessRead`
and `ExcessWrite` (370), `PostNew` and `PostWrite` (1134), `FailLock` and `FailFree`
(849-851, whose read and write are apart because 370 and 1134 may fall between), `FailRead`
and `FailMark` (840-847), `GiveNext` and `GiveWrite` (a decision and its write, with
docker update in between). `IsFinishQueues` and `IsFinishRest` split the conjunction in
118. An exception inside a lock leaves it held: `FactorRaises`, `LockList`, `SendFails`,
`ClientRemoveRaises`, `FailRaises`.

`mutex_eventlogs`, `mutex_dict_client_threads`, `mutex_numberThread` and
`mutex_containersFailed` are left out: nobody takes another lock or waits for another
thread while holding one, except that the attention thread joins with
`mutex_dict_client_threads`, which no other thread takes.

### Scheduler: bounds and switches

- `Containers`, `Workload`: the containers and the rows of the file.
- `MaxFaults`: how often one container can fail; the program has no limit.
- `MaxAttempts` = 5 is the limit of the code (251).
- `Crashes`, `SlowContainers`, `MemoryPressure`, `DockerErrors`: whether a container can
  die without a word, `accept()` time out, the memory be 80 % full, `docker run` fail.
- `TFOutlivesRegistration`: no training ends, and no container is given up, between the
  start of its client thread and its registration, some lines of `schedule_request`
  (262-312). It is a fact about times that holds for any training worth the name; the
  run `restarts` drops it.

Every row of the workload has its own container for `execution`, as the file does: the
name is `instance` plus the number of the row's instance. Rows may carry five columns
(`columns`), and then end the request thread.

### Scheduler: arithmetic

Cores and threads are small integers, so Python's are exact. Quotients are not: the code
rounds `inter/(inter+intra)*available` in floating point and truncates `intra/factor_prop`.
The model computes both over exact rationals (`Round`, and `factor` as a pair). Compared
for all values up to the bounds of the runs the results agree; above them a product that
is a tie or an integer in exact arithmetic can come out on the other side by one (for
instance a rounded share with inter 7, intra 15 and 11 available). `int()` truncates
towards zero and `\div` towards minus infinity: the arguments are never negative.

### CoreLedger

The abstract ledger knows two things, how many cores are used and how many each container
is allotted. Cores are reserved only when the last reservation is settled, a container is
allotted at most what is reserved, and the rest is given back. `SchedulerProperties` maps
it: `used` is `cores_used`, and a container is allotted what its record says, and what
`q_finish_container` says once the record is gone (`Allotted`). The mapping needs no
history. It holds while no container fails; with failures the release that `lost_update`
loses is no step of the abstract ledger.

### ContainerProtocol

A direction of the connection is a sequence of parts: a message is a part `len` and a part
`data`, sent by two calls of `_send`, and a thread may fall between them. A reader that
finds the wrong part raises an exception, and each thread does with it what its handler
does: the client thread of the scheduler goes on reading with the parts off by one
(`garbled`) or ends, `attention_socket` ends. `sched`, `att` are the client thread and the
attention thread of the scheduler; `main`, `sock`, `upd`, `live` the main thread with its
signal handler, `attention_socket`, `attentionUpdate` and `live_control`. `cv_update` is
the semaphore, `waiting` says whether `live_control` waits on its condition, `file` is
`tf_parallelism.txt`.

A world (`Worlds`) fixes whether TensorFlow is malleable, whether timeouts are prompt,
whether the container may crash, whether the file of the epochs is missing, and how many
updates come. *Prompt* means that a read of 20 seconds times out only when nothing more
was going to come (`Quiet`); in the other worlds it times out whenever nothing is there.
`MaxProbes` bounds the probes of a training that runs; a training that has stopped is
probed without a bound.

### Executor

`th[t]` is what a thread of the pool does: a closure of `Process` with its inline queue,
or the callback of an asynchronous kernel or of a deferred operation. One action is one
critical section: the propagation under the lock of a frame, the look for a child frame
and its creation under the lock of the step (two actions, as the code releases the lock
in between), the entry into the child under the lock of the child, the count of an
iteration, the deletion of a frame and the count it lowers in its parent, and the counts
of the step. A graph is prepared by `DataflowGraph` as `Initialize` does. The state has
two histories, `fired` and `closed`, which only the mapping to `Dataflow` reads.

The steps that may be run (`Runs`) must have graphs that are `WellFormed`: loops are
entered by Enters from one frame and left by Exits to it, and every other edge stays in its
frame, as the loops that TensorFlow builds do (`RunsAssumption`, which TLC evaluates for
the graphs of the run). The asynchronous kernels that run are a bag, as are the closures of
the pool. The loop of `CleanupIterations` is written in closed form: the iteration that
ends frees its place, the one that waits in `next_iter_roots` starts, of which there is at
most one, and then all those end that come next and have nothing outstanding (`DoneFrom`).
Which outputs of a node that ends well have a value (`HasValue`) is part of the graph: one
of a switch's, and none of a Recv in `no_value`, whose Send was dead; `ProcessOutputs` lets
no other kernel leave an output without a value.

`Dataflow` says what a graph with conditionals and loops computes, with neither threads
nor counts: a node fires, dead or live, when the tokens on its edges allow it, once in
each iteration of each frame; a frame closes when nothing in it can fire.

With `Args::inter_threadpool`, the malleable pool of the fork, `ScheduleReady` asks
`CheckSleep` whether the thread may go on; the answer is any (`not_sleep_thread`).

### ParallelFor

`work` holds the ranges that are scheduled or in hand, each with the thread that has it;
`Take`, `Split`, `Run` and `DecrementCount` are what a thread does with one, and `Notify`
is what the last one does with the counter after lowering it. `times` counts the calls of
`fn` for each unit.

## 3. Runs

Every run sets `CHECK_DEADLOCK FALSE`: the systems stop when all is done, and the
scheduler may stop before (section 6).

| run | instance | what it shows |
|---|---|---|
| `policy` | every input with up to 7 cores, 1-3 inter threads and a total of up to 9 | a launch fits in its reservation, a reassignment deducts what it hands out; 7 is above every tie and every limit of the algorithms |
| `ledger` | `Mixed`: 3 containers, 2 updates, 5 cores, always_attend, fair | `LedgerExact`, `NoOversubscription` and `ImplementsLedger` with partial launches, an excess given back, an update that gets part of what it asks for, a decrease and reassignment; `RoundEnds`, `ClientEnds` |
| `max_prop` | 3 containers, 4 cores, max_prop | `NoOversubscription` and `ImplementsLedger` when a launch reserves all that is free |
| `faults` | 2 containers, 4 cores, strict, one failure each | `NoOversubscription`, `JoinOnlyFinishing`, `NameIsFree`, `NothingLeftAtEnd`, with failures at every step |
| `restarts` | 1 container, 2 priorities, an update to one core, a short row, all switches on, two failures | `TypeOK`, `NoOvercommit` and `FailedUntilRestarted` over three lives of a container |
| `protocol` | three worlds: malleable with two updates, missing epochs, and hostile (crashes, arbitrary timeouts, not malleable); one probe; fair | the seven properties of the conversation |
| `executor` | 17 steps: a fan, a race for a merge, conditionals, a Recv without a value, loops with one and two parallel iterations, overlapping iterations, dead loops, nested loops, failures; two threads; fair | the properties of the executor, the refinement of `Dataflow`, and that the step ends |
| `parallel_for` | every call of up to 7 units in blocks of up to 3 on up to 3 threads, some of them busy; fair | the properties of the parallel loop |

The instances are chosen so that what each property is about happens: with 4 cores and
requests of 3, 2 and 2 a request waits for another one to finish; in `Mixed` a
launch is partial, returns a core that rounding left over, and grows later. One failure
per container is enough for a restart to meet every step of the attention thread; two (in
`restarts`) let a second client thread fail while the first one is still a zombie. Two
updates are the fewest that can be merged by `attention_socket`, interrupt a change that
is under way, or reach the update thread with its semaphore raised twice; one probe is
enough to cross every other message, since `sched.probing` is all that a probe leaves
behind. Three iterations with two in parallel use each place of the array twice. Seven
units in blocks of three are cut twice and leave a last block of one.

`LedgerExact` and `ImplementsLedger` are not checked in `faults` because they do not hold
there (run `lost_update`).

Four runs show where the code does something else than its comments say; `PROJECT.json`
quotes the lines under `findings`.

| run | property violated | what happens |
|---|---|---|
| `lost_wakeup` | `OrdersWakeAttention` | an order queued between the check and the wait wakes nobody |
| `lost_update` | `LedgerExact` | 1134 writes back a value that a failing client thread has changed |
| `capped` | `NoOversubscription` | 453 limits what is deducted, 477 grants what was asked for |
| `finished_restarted` | `RestartOnlyDead` | the exit message of a training that ends while it is probed is taken for a bad answer |

### Fairness

*Scheduler.* `FairSpec` has weak fairness for each thread and, for the world, for a
container that boots (it connects) and for a training that runs (it ends). Threads of a
process are scheduled, locks are held for bounded times, and a training has a number of
epochs. Failures, timeouts, crashes and errors are never forced. `ClientFail` is not part
of the fair steps: a container that lives never has to fail.

*ContainerProtocol.* Each thread goes on, a read of the scheduler that gets nothing times
out (`socket.setdefaulttimeout(20)` in main), and an update that has been started is sent
to its end. Nothing forces an update, the end of a training, or a
crash.

*Executor.* A thread that is not idle takes steps, the pool gives its closures to some
thread that is idle, and kernels and deferred operations that can end do end, except
those that wait for a tensor that never comes (`never` in a graph), which only an abort
ends. The first of these is weak fairness of `Step(t)` with its condition written out,
because TLC would otherwise compute each step twice: every action of a thread that is not
idle is enabled, so "always eventually idle or stepping" says the same.

*ParallelFor.* The caller, the threads of the pool that are free and the thread that
notifies go on. `Returns` is promised of calls that find a free thread.

## 4. Faulty variants

Some definitions are preceded by a *faulty variant* with the same parameters: the
definition with a slip a programmer could make (a lock that is not taken, a share
that is not deducted, an excess that is kept). Nothing in the model uses them. Put in the
place of the definition, each one makes TLC find a violation of the property it is paired
with in `PROJECT.json`: the property does depend on that code.

## 5. Proofs

All theorems hold for every value of the constants that the named assumptions allow:
natural numbers where the code counts, a finite set of containers, rows as the file has
them, one of the three policies. Hypotheses beyond these are said below. Each inductive
invariant was checked with TLC on the instances of the runs before it was proved, and
each is proved preserved action by action, with one lemma for each part that an action
can disturb.

### SchedulerProofs: types and bounds

- `TypeCorrect == Spec => []TypeOK`. The content is in three places: the policies answer
  with natural numbers for any launch (`RoundNat`, `GrantNat`) and with integers for any
  update (`GrantInt`), which may ask for a negative number of threads of one kind; what a
  launch is registered with is natural (`LaunchGive`, part of the invariant); and
  `update_parallelism` keeps a record natural whatever it is given (`ReassignType`).
- `LedgerCorrect == Spec => []NoOvercommit`, so that the exception in 1172 is never
  raised.

The inductive invariant is `IInv == TypeOK /\ LaunchGive /\ SystemInfoLock /\
LedgerBounds`. `cores_used <= Cores` is not inductive. The attention thread frees with a
stale copy of the ledger (`att.tmp`), and so does a failing client thread (`cl[t].tmp`), so
`LedgerBounds` bounds every copy. A request for fewer cores returns them before it is
served and takes them back if it is not (`free_resources` of a negative number), so the
bounds must also hold with that refund undone (`Refund`). That no copy is older than such
a refund follows from who holds `mutex_systemInfo` when (`SystemInfoLock`): a client thread
between its read and its write excludes the attention thread from the places where it
reserves.

A consequence worth noting: the unlocked writes of 370 and 1134 can lose a release of
cores, which the run `lost_update` shows, but never create one.

### PolicyTheorems and PolicyProofs

The four properties of the run `policy` for every number of cores:

- `AlwaysAttendCorrect`: both shares are rounded to the nearest, so that they could add up
  to one more than the reservation. They do so only when both are ties, which Python rounds
  to even numbers: then the first share is at least two, and the cut to one inter thread
  makes up for it (`SharesAddUp`, `AlwaysAttendFitsAll`).
- `MaxPropCorrect`: the share is cut by what is available and by the maximum per
  container, and is at least one thread of each kind.
- `StrictReassignmentCorrect`, `MaxPropReassignmentCorrect`: the first deducts what it adds
  while the maximum per container does not cut what is required (the run `capped` shows
  the other case); the second deducts at least what it adds.

`MCPolicy` declares the bound of the walk a natural number (`BoundAssumption`); the lemmas
behind the theorems need no bound at all, and `LedgerProofs` uses them in the scheduler.

### SchedulerProofs: lives

- `OneOrder == Spec => []Orders`, without hypotheses: of each container there is at most
  one order for a launch. It is a row of the file, in one of the queues, in the hands of
  the attention thread, or in a client thread that may still ask for a restart, and never
  in two of these places; of the threads of a container only the last one works. Every
  other result about lives rests on it.
- `FailedStaysFailed`: under strict and always_attend a failed container gets nothing
  before its restart. max_prop is excluded because the claim is false there:
  `maxprop_reassigment` writes the state `update` over the mark (550).
- `OrderlyLife`: lists, threads and docker agree (`Life`). Who is listed has a working
  thread and a name; a thread that ends has left the list, and its name is joined once;
  the peer of a thread is its own container; a launch that waits finds nothing of its
  container in docker; and when the attention thread has ended nothing is left.
- `JoinsWhoEnds`, `NamesFree`, `NothingLeft` follow from it, for any number of failures
  and restarts.

The last four have the hypothesis `Timely`: no training ends, and no container is given
up, before its launch is registered, and `accept()` does not time out. Both parts are
needed. With a late connection a thread is started for the container of another launch
(254), its name is taken when the request is retried, and `docker run` fails. A container
that ends before it is registered is not in the list of names when it wants to leave
it, `remove` raises (820), and the lock of that list is held for ever.

### LedgerProofs

- `LedgerIsExact`, `NeverOversubscribed`, `LedgerImplemented`: the three properties of the
  run `ledger` for any number of containers, any workload, policy and machine.
- `SettledAlways == Spec => []Settled` is the inductive invariant: what is allotted to
  the containers and what the attention thread holds for the decision at hand (`Reserved`)
  add up to `cores_used` (`Exact`); what is on its way to a container is paid for
  (`Granting`, `Sharing`); a container runs on no more than its allotment and what is on
  its way to it (`Within`, with `Beyond`); requests, threads and records are of the kinds
  that occur without failures (`RequestsPlain`, `ThreadEnds`, `Records`).

For each step the proof finds who is allotted more or less and compares that with the
change of `cores_used` and `Reserved` (`Kept`); a sum over the containers changes only by
the container at hand. The shares of docker (`cpus`) follow an allotment at another step
than the ledger, which `FitsStep` accounts for. For the refinement `TakeRequest`
and the reassignment step are `Reserve`; the registration of a launch and the writes of an
update or of a share are `Allot`; the release of an excess, of a smaller request and of
what a pending request does not need are `GiveBack`; `FinishRequest` is `Return`; all other
steps change neither of the two variables.

The hypothesis is `Faultless`, and each part of it excludes a behaviour of the code in
which the claim is false:

- no container fails (`MaxFaults = 0`): the run `lost_update` shows the release that is
  lost otherwise;
- `Timely`, as above: a container whose launch is given up goes on running on cores that
  the ledger gave back;
- `Uncapped`: no maximum per container cuts what a reassignment hands out. Under max_prop
  it deducts too much (547), under strict too little (run `capped`);
- no update to fewer than two cores: `update_parallelism` takes its zero intra threads for
  "no change" (`execution_info.py:115`), and the container keeps what the ledger frees.

`Crashes`, `MemoryPressure` and `DockerErrors` stay free: a container that dies without a
word keeps its share of the ledger, and an attention thread that has died hands out
nothing any more.

### ContainerProtocolProofs

For any set of worlds, any updates, any number of them and of probes
(`ProtocolAssumption` only says that these are natural numbers):

`ProtocolCorrect == Spec => [](TypeOK /\ NoUpdateForgotten /\ EndsAfterRemoval /\
AckInOnePiece)`, and `AcknowledgementWhole` for the last part alone. The invariant is
`IInv == TypeOK /\ SemaphoreCounts /\ RemovedFirst /\ AckParts`.

- `SemaphoreCounts`: while the semaphore is down and the socket thread is not between
  storing an update and raising it (`Announced`), a flag that the update thread has
  passed (`Passed`) is not set. The update thread looks at the inter threads first, so a
  flag can be *passed* while the other one has still to be looked at; the invariant
  speaks of each flag at each place of that thread, and of the first change, which is not
  an update and takes no mutex.
- `RemovedFirst`: only after the removal does the acknowledgement exist anywhere, in the
  stream or in the hands of the socket thread, and after the removal the attention thread
  is not within an update. This is what `remove_container` gains by taking
  `mutex_execInfo`.
- `AckParts`: a first part of the acknowledgement is followed by the second, or is the last
  part of the stream while the client thread is about to send the second.

`AnswersBelong == Spec => []AnswersMatch`, with `IInv /\ Probes`. A probe moves from the
client thread to the stream, the socket thread, `live_control` and back as its answer;
`OneProbe` says that it is in one of these places at most, `NoProbe` that it is in none
while the scheduler waits for the exit message, and `AnswerParts` that the two parts of
an answer stay together. It holds in every world: with late timeouts an answer
that is not awaited any more can only come to a thread that has given the container up.

`LivesKept == Spec => []LiveKept`, with `IInv /\ Probes /\ Lives`. `ProbeKept` says at
which of its places the probe of a training that runs is, and that `live_control` waits
for it, so that a read that gets nothing has something coming (`OnItsWay`) and a prompt
timeout does not strike; `RunsOn` says what cannot have happened while a training runs.

`LatestWins == Spec => []LatestApplied`, with `IInv /\ Changes`. For each kind of threads
(`LastWins`) the record of the scheduler is the newest update in the stream; if
there is none, it is the one in the hands of the socket thread; if there is none, what
`inter_up` or `intra_up` holds; and otherwise what the file says. `ChangeKept` adds that
a change by halves goes from the value in the file to the one asked for, under the mutex
that keeps `attention_socket` from replacing it in between.

### ParallelForProofs

`ParallelForCorrect == Spec => [](TypeOK /\ ExactlyOnce /\ NoUseAfterReturn /\ FixedBlocks
/\ CounterChecks)`, for any calls (`CallsAssumption`); `UnitsDoneOnce` and `BlocksWhole`
state two parts of it alone.

The argument: the ranges that are scheduled or in hand are disjoint (`Disjoint`) and cut
where blocks begin (`AllCut`). So each block begins in at most one of them, and the count
is the number of the blocks that begin in one (`CountExact`, with `Covered`): a cut does
not change that set, and a range of one block that is done takes one block out of it,
which is what `DecrementCount` lowers. When the count is zero no block is covered, and as
every range begins with a block no range is left (`ZeroIsAll`). What a unit has seen
follows from whether a pending range holds it (`TimesExact`), and `Handshake` says who may
still notify. The hard lemma is `MidCuts`: the midpoint, rounded up to a multiple of the
block size, is inside the range and at the beginning of a block; rounding anywhere else
would make more ranges than `NumShards` counted.

### ExecutorFrameProofs and ExecutorProofs

For every graph that is `WellFormed`, any trips of its loops, kernels that fail or never
end, every `max_parallel_iterations` and any finite set of threads (`RunsAssumption`,
`ThreadsAssumption`, nothing else).

`SaneAlways == Spec => []Sane` is the inductive invariant of the frames. None of
`IterationAlive`, `OpsExact` and `ParallelIterations` is inductive, and they need each
other: an iteration is alive because its count is above zero, and a count says something
only of an iteration that has its place.

- `Typed`, with `Window`: the outstanding iterations are an interval that ends with the
  newest one, and each is at its number modulo the size of the ring. As the ring has one
  place more than iterations may be outstanding, the next one finds its place free
  (`PlaceDistinct`, `BeginNext`).
- `OpsCover`: the count of an iteration is at least the number of its nodes that are
  ready, run asynchronously or are with a thread. It is exactly that while nothing has
  failed: a failed node never lowers it, so that its frame stays to the end of the step.
- `SubCover`: the same of the frames entered from an iteration, with those that have been
  erased while the thread that erased them has still to tell the parent (`Told`).
- `DeletersOK`: one thread at most is deleting a frame, which has no iteration left; no
  node can become ready in it any more, and the frame that a thread is about to enter is
  there.
- `EnterOnce` and `InputsCount`: an Enter may become ready, is outstanding or has fired,
  and only one of these at a time. So a frame waits for exactly its Enters that have not
  fired, is not done before the last of them is, and is not made a second time when it
  was closed. This is what makes the second lookup of `FindOrCreateChildFrame` enough.

The steps are of two kinds. Most move nodes between the pool, the kernels and a thread
(`QuietKeeps`). The others are critical sections of a frame, and are composed of small
moves (`Moves`, `Lowers`): an edge that makes a node ready raises the count by one and
takes the node from those that may still become ready (`EdgeMoves`); a step over all edges
and all deferred roots is the composition of such moves (`AllMove`, `LoopInvMoves`), and so
are a new iteration (`IncrementMoves`) and the end of one (`CleanupLowers`).

The prover takes no theorem with an operator as its parameter, but it does take one with
a set: that a function over an interval exists and what its last value is follows from the
well-founded order of the numbers and sets of numbers (`NatMin`, `NatInd`, `FoldExists`).
The loops of the code are such functions.

`LedgerAlways == Spec => []Ledger` is the invariant of the end of the step, on top of it:
`num_outstanding_ops` is what the bags and the threads have (`CountExact`), and at most
one thread ends the step, after the last unit is gone (`EndsOnce`). That thread calls
`done_cb_`, or leaves it to the deferred operations; then none of them has ended the step
yet and the last one does. A deferred operation begins only while its node is
counted, so none begins after the last unit is gone.

`IterationAliveAlways`, `OpsExactAlways`, `ParallelIterationsAlways`, `CountExactAlways`,
`FinishOnceAlways` and `OnlyEntryAfterDeleteAlways` state the six properties of the run, and
`CountersNaturalAlways` that no counter is lowered below zero.

### Only model-checked

- Liveness (`RoundEnds`, `ClientEnds`, `ExitAttended`, `AckEndsClient`, `Returns`,
  `StepEnds`): liveness under fairness is outside what the prover can do here.
- Of the executor `TypeOK` (for the packed counts of the inputs of a node), `InputsWhole`,
  `Complete` and the refinement of `Dataflow`. They are not true of every well-formed
  graph. An Exit that is live in two iterations gives its destination two values; a merge
  with a dead Enter and a live one runs twice. No loop that TensorFlow builds does
  either, but what excludes it is how switches, merges and NextIterations are tied
  together, and that a node in the body is dead when its switch is.
- The ledger where containers fail, beyond the bounds of `LedgerCorrect`:
  `NoOversubscription` in the run `faults`.

## 6. What the model contains and no run states

These behaviours are in the modules, and a reader of the code should know of them.

Scheduler:

- The request thread can queue its last row between the reading of the queues and of its
  flag in the conjunction of 118: the attention thread ends with a request in a queue.
- When the last container leaves between 524 and 531 the division by the number of
  containers ends the attention thread, with `mutex_execInfo` held.
- An update of a running container under max_prop ends the attention thread:
  `calculate_factor_prop` calls a method `ExecutionInfo` does not have
  (`scheduling_policy.py:219`, action `Pending`).
- A row with the five columns of the guide ends the request thread without its flag (748,
  `ReadShortRow`).
- An update to one core frees cores that the container keeps (`execution_info.py:115`).
- `maxprop_reassigment` deducts the whole maximum per container (547), which the ledger
  never gets back, and leaves containers in the state `update`, in which they are never
  given cores again.
- With several priorities the reassignment loops look at the last container of the list
  instead of the one they are at (440, 538, `SkipsEverybody`).
- always_attend attends nothing with a single free core (`scheduling_policy.py:126`), and
  smaller requests overtake larger ones under every policy.
- A launch that is given up after five timeouts leaves its container running (275). The
  retry then fails on the name and ends the attention thread (245).
- A container that dies is never noticed: `_recv` loops on the end of the stream
  (`json_data_socket.py:21`).
- A training that ends or fails before its launch is registered leaves
  `mutex_containerList` (820) or `mutex_systemInfo` (850) held for ever.

Container:

- If the acknowledgement is handled before `finalize` is set (`client.py:62`), or
  `live_control` tests `finalize` and waits after the last notification, a thread of the
  client sleeps for ever. `AckEndsClient` is about the other orders.
- The client thread and the attention thread can mix the parts of a probe and of an
  update, and the signal handler and `live_control` those of the exit message and of an
  answer. The reader of a mixed message in the container is lost, because its exception
  clause names `None` (`client.py:204`); the probes that follow are not answered and the
  container is restarted although it runs.
- A missing epoch file loses the exit message (913); the next probe restarts the training.
- With late answers (not `prompt`) a training that runs is restarted.
- Halving can pass below the target: from 7 to 5 threads the file says 3 in between
  (`client.py:79-126`), and the last line brings it back to 5.

Executor:

- A thread whose `fetch_sub` (2400) was not the last one enters `ScheduleReady` (2407) also
  with nothing ready, and there reads the member `inter_threadpool` (2417) before the return
  for an empty list (2448). Another thread may have ended the step and deleted it in between
  (2698, 2717, 2728). With the malleable pool the thread then locks a mutex of the deleted
  step, too. The model reaches both. `OnlyEntryAfterDelete` does not say that a deleted step
  is not used, which is false, but that this is the only use, by a thread that has no other
  node and does not end the step itself.
- A merge with a control edge and a dead Enter that comes first waits for ever; the loops
  that TensorFlow builds have no such merge.

## 7. Not modelled

- Pause, resume and expropriation (568-585, 637-676, 1177-1211): nothing starts or reaches
  them in this commit.
- `SystemControl`, the handler of SIGTSTP and `main`. The sampler takes
  `mutex_systemInfo` for one read of the ledger; the handler sets `finish_execution`,
  which only the sampler reads in a thread that runs, and wakes the attention thread once
  more; main joins the threads. An attention thread that died with `mutex_systemInfo` held
  or without setting `finish_execution` keeps main in `control_thread.join()`: that is
  visible in the code and adds no interleaving. The branch of main that exits with an
  error needs the exception of 1172, which `LedgerCorrect` excludes.
- The trace log, the epoch files, plots and drivers: they decide nothing.
- `json_data_socket.py`: a `recv` that returns less than the message. The messages are some
  tens of bytes.
- `client.py`: a SIGUSR1 that comes before its handler is installed, and a log that does
  not exist yet, which ends `live_control`.
- The executor: statistics, tracing, rendezvous keys, reference inputs, device contexts;
  the signal handling that the fork adds (`executor.cc:1820-1843` uses names that no scope
  declares and 1478 initialises a member that does not exist), `ExecutorBarrier`.
- `ThreadPool::NumShardsUsedByFixedBlockSizeScheduling` computes the number of blocks in 64
  bits and returns an `int`; the model has it exact, which is right for fewer than 2^30
  blocks: the counter keeps the `int` shifted by one bit.
- The queues of Eigen's pool: a full queue runs a closure at once; the adaptive strategy.
- TensorFlow otherwise and the third-party code, which are nearly all of the repository's
  lines: upstream code that this program runs.

## 8. Plan

What is left, most useful first:

1. The loops that TensorFlow builds as a condition on graphs, and under it `InputsWhole` and
   the refinement of `Dataflow` as theorems.
2. The ledger where containers fail: which releases can be lost, and that no other can.
3. `Scheduler` composed with one `ContainerProtocol` per container, for the orders in
   which a container fails while another one is updated.
