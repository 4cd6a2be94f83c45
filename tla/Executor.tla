----------------------------- MODULE Executor ------------------------------
(* One step of the dataflow executor of the TensorFlow fork that runs in a  *)
(* container: ExecutorState of executor.cc, whose threads propagate the     *)
(* outputs of nodes under the lock of each frame, start and delete the      *)
(* iterations of loops, and end the step when no node is outstanding.  An   *)
(* action is what one thread does in one critical section.                  *)
EXTENDS DataflowGraph, Bags

CONSTANTS
    Runs,     \* the steps that may be run: [graph, inter_threadpool]
    Threads   \* threads that run closures and callbacks

ASSUME ThreadsAssumption == IsFiniteSet(Threads)
ASSUME RunsAssumption ==
    \A r \in Runs : WellFormed(Initialize(r.graph)) /\ r.inter_threadpool \in BOOLEAN

VARIABLES
    inter_threadpool,     \* Args::inter_threadpool is given: the malleable pool of the fork
    frames,               \* outstanding_frames_: from names to FrameStates
    num_outstanding_ops,
    status,               \* status_.ok()
    aborted,              \* StartAbort() and StartCancel() have been called
    pool,                 \* closures given to runner_ that no thread has taken
    asyncs,               \* asynchronous kernels that run
    num_deferred_ops, finish_when_deferred_ops_done,
    deleted,              \* delete this
    done_calls,           \* the status of each call of done_cb_
    th,                   \* what each thread is doing
    fired, closed         \* history: the nodes that gave their outputs, the frames that ended

state == <<frames, num_outstanding_ops, status, aborted, pool, asyncs>>
deferral == <<num_deferred_ops, finish_when_deferred_ops_done>>
ending == <<deleted, done_calls>>
history == <<fired, closed>>
run == <<graph, inter_threadpool>>
vars == <<run, state, deferral, ending, th, history>>

NoIteration == [iter |-> -1]
NoNode == [node |-> "", frame |-> <<>>, iter |-> 0, dead |-> FALSE]

IterationState(name, iter) ==
    [iter |-> iter, outstanding_ops |-> 0, outstanding_frame_count |-> 0,
     pending |-> [n \in NodesOf(name) |-> graph.pending[n]],
     dead_count |-> [n \in NodesOf(name) |-> 0],
     input_tensors |-> {}]

FrameState(name, parallel_iters) ==
    [max_parallel_iterations |-> parallel_iters,
     num_pending_inputs |-> IF name = Root THEN 0 ELSE graph.input_count[name],
     iteration_count |-> 0, num_outstanding_iterations |-> 1,
     iterations |-> [k \in 0..parallel_iters |-> IF k = 0 THEN IterationState(name, 0) ELSE NoIteration],
     next_iter_roots |-> <<>>, inv_values |-> <<>>, dead_exits |-> <<>>]

Slot(fs, iter) == iter % (fs.max_parallel_iterations + 1)
GetIteration(fs, iter) == fs.iterations[Slot(fs, iter)]
SetIteration(fs, iter, is) == [fs EXCEPT !.iterations[Slot(fs, iter)] = is]

----------------------------------------------------------------------------
\* The operators below work on [fs, ready]: a FrameState under its lock, and the
\* nodes that became ready.  An output is [node, iter, live]: where it comes from
\* and which of its slots have a value.

Output(t) == [node |-> t.node, iter |-> t.iter,
              live |-> {s \in 0..1 : ~ t.dead /\ HasValue(t.node, t.iter, s)}]

\* PendingCounts: the counts of a node that is ready do not change any more.
increment_dead_count(is, n, dead) ==
    IF dead /\ is.pending[n] # 0 THEN [is EXCEPT !.dead_count[n] = @ + 1] ELSE is
\* Faulty variant: a live input leaves the low bit of the count.
mark_nothing(is, n) == is
\* Faulty variant: takes one from the count whether or not the low bit is set.
mark_again(is, n) == [is EXCEPT !.pending[n] = @ - 1]
mark_live(is, n) == [is EXCEPT !.pending[n] = @ - (@ % 2)]

\* One edge of a node: what it does to the counts of its destination, and whether
\* the destination becomes ready, is dead, and needs this value.
ActivateMerge(is, out, e, from_enter) ==
    LET live == e.slot \in out.live
        count == is.pending[e.to]
        next == CASE e.slot = Control -> [is EXCEPT !.pending[e.to] = @ - 2]
                  [] live -> mark_live(is, e.to)
                  [] OTHER -> increment_dead_count(is, e.to, TRUE)
        all_dead == next.dead_count[e.to] = graph.num_inputs[e.to]
    IN  IF e.slot = Control
        THEN [is |-> next, dead |-> all_dead, need |-> FALSE,
              ready |-> next.pending[e.to] = 0 \/ (next.pending[e.to] = 1 /\ all_dead)]
        ELSE IF live
        THEN [is |-> next, dead |-> FALSE, need |-> count % 2 = 1, ready |-> count = 1]
        ELSE [is |-> next, dead |-> all_dead \/ from_enter, need |-> FALSE,
              ready |-> next.pending[e.to] = 1 /\ (all_dead \/ from_enter)]

\* Faulty variant: dead only when all data inputs are.
AllDead(is, n) == is.dead_count[n] >= graph.num_inputs[n] /\ Kind(n) # "control_trigger"
IsDead(is, n) == is.dead_count[n] > 0 /\ Kind(n) # "control_trigger"

ActivateOther(is, out, e, is_dead) ==
    LET missing == e.slot # Control /\ e.slot \notin out.live
        next == [increment_dead_count(is, e.to, is_dead \/ missing) EXCEPT !.pending[e.to] = @ - 1]
    IN  [is |-> next, need |-> e.slot \in out.live, ready |-> next.pending[e.to] = 0,
         dead |-> IsDead(next, e.to)]

\* The value an edge brings: where it is put, and where it comes from.
\* Faulty variant: the number of the output is taken for that of the input.
EntryBySlot(out, e) == [node |-> e.to, at |-> e.slot, from |-> out.node, iter |-> out.iter]
Entry(out, e) == [node |-> e.to, at |-> e.at, from |-> out.node, iter |-> out.iter]

\* The destination takes the value that it needs, and runs when it is ready.
Arrive(a, frame, iter, out, e, r) ==
    LET filled == IF r.need THEN [r.is EXCEPT !.input_tensors = @ \union {Entry(out, e)}] ELSE r.is
    IN  IF r.ready
        THEN [fs |-> SetIteration(a.fs, iter, [filled EXCEPT !.outstanding_ops = @ + 1]),
              ready |-> Append(a.ready, [node |-> e.to, frame |-> frame, iter |-> iter, dead |-> r.dead])]
        ELSE [a EXCEPT !.fs = SetIteration(a.fs, iter, filled)]

ActivateEdge(a, frame, iter, out, is_dead, e) ==
    LET is == GetIteration(a.fs, iter)
    IN  IF Kind(e.to) = "sink" THEN a
        ELSE Arrive(a, frame, iter, out, e,
                    IF Kind(e.to) = "merge" THEN ActivateMerge(is, out, e, IsEnter(out.node))
                                            ELSE ActivateOther(is, out, e, is_dead))

ActivateNodes(acc, frame, iter, out, is_dead) ==
    LET edges == graph.out[out.node]
        after[k \in 0..Len(edges)] ==
            IF k = 0 THEN acc ELSE ActivateEdge(after[k - 1], frame, iter, out, is_dead, edges[k])
    IN  after[Len(edges)]

\* A deferred root or a loop invariant is dead when its value is missing.
ActivateAll(acc, frame, iter, outs) ==
    LET after[k \in 0..Len(outs)] ==
            IF k = 0 THEN acc
            ELSE ActivateNodes(after[k - 1], frame, iter, outs[k], outs[k].live = {})
    IN  after[Len(outs)]

IncrementIteration(acc, frame) ==
    LET next_iter == acc.fs.iteration_count + 1
        started == [SetIteration(acc.fs, next_iter, IterationState(FrameInfo(frame), next_iter))
                      EXCEPT !.iteration_count = next_iter,
                             !.num_outstanding_iterations = @ + 1,
                             !.dead_exits = <<>>, !.next_iter_roots = <<>>]
        nexts == ActivateAll([acc EXCEPT !.fs = started], frame, next_iter, acc.fs.next_iter_roots)
    IN  ActivateAll(nexts, frame, next_iter, started.inv_values)

\* The value goes to the iterations up to the newest one.
AddLoopInv(acc, frame, out) ==
    LET after[k \in 0..(acc.fs.iteration_count + 1)] ==
            IF k = 0 THEN [acc EXCEPT !.fs.inv_values = Append(@, out)]
            ELSE ActivateNodes(after[k - 1], frame, k - 1, out, out.live = {})
    IN  after[acc.fs.iteration_count + 1]

\* Faulty variant: an iteration may end before the frames it has entered.
NothingRuns(fs, iter) == GetIteration(fs, iter).outstanding_ops = 0
NothingOutstanding(fs, iter) ==
    /\ GetIteration(fs, iter).outstanding_ops = 0
    /\ GetIteration(fs, iter).outstanding_frame_count = 0

IsIterationDone(fs, iter) ==
    /\ NothingOutstanding(fs, iter)
    /\ IF iter = 0 THEN fs.num_pending_inputs = 0
                   ELSE GetIteration(fs, iter - 1) = NoIteration

IsFrameDone(fs) == fs.num_pending_inputs = 0 /\ fs.num_outstanding_iterations = 0

Free(fs, iters) ==
    [fs EXCEPT !.iterations = [k \in DOMAIN @ |-> IF @[k].iter \in iters THEN NoIteration ELSE @[k]],
               !.num_outstanding_iterations = @ - Cardinality(iters)]

\* The iterations that end one after the other when the one before them has ended.
DoneFrom(fs, iter) ==
    {i \in iter..fs.iteration_count : \A j \in iter..i : NothingOutstanding(fs, j)}

\* The iteration that ends makes room for the one that waits in next_iter_roots, of
\* which there is at most one; those after it may end too.
CleanupIterations(acc, frame, iter) ==
    LET freed == [acc EXCEPT !.fs = Free(@, {iter})]
        next == IF freed.fs.next_iter_roots = <<>> THEN freed ELSE IncrementIteration(freed, frame)
    IN  IF iter > acc.fs.iteration_count \/ ~ IsIterationDone(acc.fs, iter) THEN acc
        ELSE [next EXCEPT !.fs = Free(@, DoneFrom(@, iter + 1))]

\* The frame is done only if this thread looked: an iteration that goes on is not
\* cleaned up.
Looked(c) == [fs |-> c.fs, ready |-> c.ready, done |-> IsFrameDone(c.fs)]
DecrementOutstandingOps(acc, frame, iter) ==
    LET fs == SetIteration(acc.fs, iter, [GetIteration(acc.fs, iter) EXCEPT !.outstanding_ops = @ - 1])
    IN  IF GetIteration(fs, iter).outstanding_ops # 0
        THEN [fs |-> fs, ready |-> acc.ready, done |-> FALSE]
        ELSE Looked(CleanupIterations([acc EXCEPT !.fs = fs], frame, iter))

----------------------------------------------------------------------------
Idle == [pc |-> "idle", inline_ready |-> <<>>, tagged_node |-> NoNode, ready |-> <<>>,
         failed |-> FALSE, callback |-> FALSE, completed |-> FALSE, frame |-> <<>>]

At(t, pc) == th[t].pc = pc
Node(t) == th[t].tagged_node.node
InputFrame(t) == th[t].tagged_node.frame
InputIter(t) == th[t].tagged_node.iter
Dead(t) == th[t].tagged_node.dead
Goto(t, pc) == th' = [th EXCEPT ![t].pc = pc]

\* RunAsync has handed the root nodes to the threads.
Init ==
    /\ \E r \in Runs : graph = Initialize(r.graph) /\ inter_threadpool = r.inter_threadpool
    /\ frames = [f \in {<<>>} |-> [FrameState(Root, 1) EXCEPT
                                    !.iterations[0].outstanding_ops = Cardinality(graph.roots)]]
    /\ num_outstanding_ops = Cardinality(graph.roots)
    /\ status = TRUE /\ aborted = FALSE
    /\ pool = SetToBag({[node |-> n, frame |-> <<>>, iter |-> 0, dead |-> FALSE] : n \in graph.roots})
    /\ asyncs = EmptyBag
    /\ num_deferred_ops = 0 /\ finish_when_deferred_ops_done = FALSE
    /\ deleted = FALSE /\ done_calls = <<>>
    /\ th = [t \in Threads |-> Idle]
    /\ fired = {} /\ closed = {}

\* A thread runs a closure given to runner_.
Take(t) ==
    /\ At(t, "idle")
    /\ \E x \in BagToSet(pool) :
         /\ pool' = pool (-) SetToBag({x})
         /\ th' = [th EXCEPT ![t] = [Idle EXCEPT !.pc = "loop", !.inline_ready = <<x>>]]
    /\ UNCHANGED <<run, frames, num_outstanding_ops, status, aborted, asyncs, deferral, ending, history>>

ClearInputs(x) ==
    LET is == GetIteration(frames[x.frame], x.iter)
        cleared == [is EXCEPT !.input_tensors = {e \in @ : e.node # x.node}]
    IN  [frames EXCEPT ![x.frame] = SetIteration(@, x.iter, cleared)]

\* Process: the next node of the thread.  A dead node does not compute, unless it
\* has to send that it is dead, and keeps the Status of the node before it.
Process(t) ==
    LET x == Head(th[t].inline_ready)
        skipped == x.dead /\ Kind(x.node) # "transfer"
        launched == x.node \in graph.async /\ ~ skipped
        failed == IF skipped THEN th[t].failed ELSE x.node \in graph.fails
    IN  /\ At(t, "loop") /\ th[t].inline_ready # <<>>
        /\ IF launched
           THEN /\ asyncs' = asyncs (+) SetToBag({x})
                /\ th' = [th EXCEPT ![t].inline_ready = Tail(@), ![t].failed = FALSE]
                /\ UNCHANGED <<frames, num_deferred_ops>>
           ELSE /\ frames' = ClearInputs(x)
                /\ num_deferred_ops' = num_deferred_ops +
                                       IF x.node \in graph.defers /\ ~ skipped THEN 1 ELSE 0
                /\ th' = [th EXCEPT ![t].inline_ready = Tail(@), ![t].tagged_node = x,
                                    ![t].failed = failed,
                                    ![t].pc = IF failed THEN "node_done" ELSE "propagate"]
                /\ UNCHANGED asyncs
        /\ UNCHANGED <<run, num_outstanding_ops, status, aborted, pool,
                       finish_when_deferred_ops_done, ending, history>>

\* Process: no node is left.
Leave(t) ==
    /\ At(t, "loop") /\ th[t].inline_ready = <<>>
    /\ th' = [th EXCEPT ![t] = IF @.completed THEN [@ EXCEPT !.pc = "schedule_finish"] ELSE Idle]
    /\ UNCHANGED <<run, state, deferral, ending, history>>

\* The done callback of an asynchronous kernel.  A kernel whose input never comes
\* ends when the step is aborted, with an error.
AsyncDone(t) ==
    /\ At(t, "idle")
    /\ \E x \in BagToSet(asyncs) :
         LET failed == x.node \in graph.fails \union graph.never
         IN  /\ x.node \in graph.never => aborted
             /\ asyncs' = asyncs (-) SetToBag({x})
             /\ frames' = ClearInputs(x)
             /\ th' = [th EXCEPT ![t] = [Idle EXCEPT !.tagged_node = x, !.callback = TRUE,
                                                     !.failed = failed,
                                                     !.pc = IF failed THEN "node_done" ELSE "propagate"]]
    /\ UNCHANGED <<run, num_outstanding_ops, status, aborted, pool, deferral, ending, history>>

----------------------------------------------------------------------------
\* PropagateOutputs.  Each critical section starts from [fs, ready] of a frame.
Locked(t, frame) == [fs |-> frames[frame], ready |-> th[t].ready]
Fire(t) == fired' = fired \union {th[t].tagged_node}

\* The decrement of the outstanding ops of the frame of the node ends it.
Decremented(t, d) ==
    /\ frames' = [frames EXCEPT ![InputFrame(t)] = d.fs]
    /\ th' = [th EXCEPT ![t].ready = d.ready, ![t].frame = InputFrame(t),
                        ![t].pc = IF d.done THEN "delete_frame" ELSE "node_done"]

PropagateNode(t) ==
    LET acc == ActivateNodes([Locked(t, InputFrame(t)) EXCEPT !.ready = <<>>],
                             InputFrame(t), InputIter(t), Output(th[t].tagged_node), Dead(t))
    IN  /\ Kind(Node(t)) \notin {"enter", "const_enter", "exit", "next_iteration"}
        /\ Decremented(t, DecrementOutstandingOps(acc, InputFrame(t), InputIter(t)))

PropagateDeadExit(t) ==
    LET f == frames[InputFrame(t)]
        acc == [fs |-> IF InputIter(t) = f.iteration_count
                       THEN [f EXCEPT !.dead_exits = Append(@, Node(t))] ELSE f,
                ready |-> <<>>]
    IN  /\ Kind(Node(t)) = "exit" /\ Dead(t)
        /\ Decremented(t, DecrementOutstandingOps(acc, InputFrame(t), InputIter(t)))

\* Faulty variant: the count of this frame is not lowered.
PropagateExitKeepingCount(t) ==
    LET parent == ParentFrame(InputFrame(t))
        acc == ActivateNodes([Locked(t, parent) EXCEPT !.ready = <<>>], parent,
                             ParentIter(InputFrame(t)), Output(th[t].tagged_node), FALSE)
    IN  /\ Kind(Node(t)) = "exit" /\ ~ Dead(t)
        /\ frames' = [frames EXCEPT ![parent] = acc.fs]
        /\ th' = [th EXCEPT ![t].ready = acc.ready, ![t].pc = "node_done"]

\* The value goes to the parent frame, and only then is this frame's count lower.
PropagateExit(t) ==
    LET parent == ParentFrame(InputFrame(t))
        acc == ActivateNodes([Locked(t, parent) EXCEPT !.ready = <<>>], parent,
                             ParentIter(InputFrame(t)), Output(th[t].tagged_node), FALSE)
    IN  /\ Kind(Node(t)) = "exit" /\ ~ Dead(t)
        /\ frames' = [frames EXCEPT ![parent] = acc.fs]
        /\ th' = [th EXCEPT ![t].ready = acc.ready, ![t].pc = "decrement"]

\* Faulty variant: one iteration too many.
OverFull(f) == f.num_outstanding_iterations > f.max_parallel_iterations
Full(f) == f.num_outstanding_iterations = f.max_parallel_iterations

\* A dead NextIteration stops; a live one starts an iteration, or waits for one to
\* end when max_parallel_iterations are outstanding.
PropagateNextIteration(t) ==
    LET f == frames[InputFrame(t)]
        out == Output(th[t].tagged_node)
        newest == InputIter(t) = f.iteration_count
        open == [fs |-> f, ready |-> <<>>]
        acc == IF Dead(t) THEN open
               ELSE IF newest /\ Full(f) THEN [open EXCEPT !.fs.next_iter_roots = Append(@, out)]
               ELSE ActivateNodes(IF newest THEN IncrementIteration(open, InputFrame(t)) ELSE open,
                                  InputFrame(t), InputIter(t) + 1, out, FALSE)
    IN  /\ Kind(Node(t)) = "next_iteration"
        /\ Decremented(t, DecrementOutstandingOps(acc, InputFrame(t), InputIter(t)))

Propagate(t) ==
    /\ At(t, "propagate")
    /\ \/ PropagateNode(t)
       \/ PropagateDeadExit(t)
       \/ PropagateExit(t)
       \/ PropagateNextIteration(t)
    /\ Fire(t)
    /\ UNCHANGED <<run, num_outstanding_ops, status, aborted, pool, asyncs, deferral, ending, closed>>

\* FindOrCreateChildFrame: the lookup under mu_ ...
Child(t) == MakeFrameName(InputFrame(t), InputIter(t), graph.enters[Node(t)])
FindChildFrame(t) ==
    /\ At(t, "propagate") /\ IsEnter(Node(t))
    /\ Goto(t, IF Child(t) \in DOMAIN frames THEN "enter" ELSE "create")
    /\ UNCHANGED <<run, state, deferral, ending, history>>

\* ... and, after the frame was made without a lock, a second one.
CreateChildFrame(t) ==
    LET f == frames[InputFrame(t)]
        is == GetIteration(f, InputIter(t))
        name == graph.enters[Node(t)]
    IN  /\ At(t, "create")
        /\ frames' = IF Child(t) \in DOMAIN frames THEN frames
                     ELSE [g \in DOMAIN frames \union {Child(t)} |->
                             CASE g = Child(t) -> FrameState(name, graph.parallel[name])
                               [] g = InputFrame(t) ->
                                    SetIteration(f, InputIter(t), [is EXCEPT !.outstanding_frame_count = @ + 1])
                               [] OTHER -> frames[g]]
        /\ Goto(t, "enter")
        /\ UNCHANGED <<run, num_outstanding_ops, status, aborted, pool, asyncs, deferral, ending, history>>

PropagateEnter(t) ==
    LET out == Output(th[t].tagged_node)
        open == [fs |-> frames[Child(t)], ready |-> <<>>]
        acc == IF Kind(Node(t)) = "const_enter" THEN AddLoopInv(open, Child(t), out)
               ELSE ActivateNodes(open, Child(t), 0, out, Dead(t))
    IN  /\ At(t, "enter")
        /\ frames' = [frames EXCEPT ![Child(t)] = [acc.fs EXCEPT !.num_pending_inputs = @ - 1]]
        /\ th' = [th EXCEPT ![t].ready = acc.ready, ![t].pc = "decrement"]
        /\ Fire(t)
        /\ UNCHANGED <<run, num_outstanding_ops, status, aborted, pool, asyncs, deferral, ending, closed>>

Decrement(t) ==
    /\ At(t, "decrement")
    /\ Decremented(t, DecrementOutstandingOps(Locked(t, InputFrame(t)), InputFrame(t), InputIter(t)))
    /\ UNCHANGED <<run, num_outstanding_ops, status, aborted, pool, asyncs, deferral, ending, history>>

\* DeleteFrame gives the dead exits of the last iteration to the parent frame.
DeadExits(t, parent) ==
    LET exits == frames[th[t].frame].dead_exits
    IN  ActivateAll(Locked(t, parent), parent, ParentIter(th[t].frame),
                    [k \in DOMAIN exits |-> [node |-> exits[k], iter |-> 0, live |-> {}]])

DeleteFrame(t) ==
    LET frame == th[t].frame
        parent == ParentFrame(frame)
    IN  /\ At(t, "delete_frame")
        /\ IF frame = <<>>
           THEN /\ Goto(t, "erase_frame")
                /\ UNCHANGED frames
           ELSE /\ frames' = [frames EXCEPT ![parent] = DeadExits(t, parent).fs]
                /\ th' = [th EXCEPT ![t].ready = DeadExits(t, parent).ready, ![t].pc = "erase_frame"]
        /\ closed' = closed \union {frame}
        /\ UNCHANGED <<run, num_outstanding_ops, status, aborted, pool, asyncs, deferral, ending, fired>>

EraseFrame(t) ==
    /\ At(t, "erase_frame")
    /\ frames' = [f \in DOMAIN frames \ {th[t].frame} |-> frames[f]]
    /\ Goto(t, IF th[t].frame = <<>> THEN "node_done" ELSE "cleanup")
    /\ UNCHANGED <<run, num_outstanding_ops, status, aborted, pool, asyncs, deferral, ending, history>>

\* The end of a frame may end the iteration of its parent, and so on.
CleanupFramesIterations(t) ==
    LET parent == ParentFrame(th[t].frame)
        iter == ParentIter(th[t].frame)
        f == frames[parent]
        fs == SetIteration(f, iter, [GetIteration(f, iter) EXCEPT !.outstanding_frame_count = @ - 1])
        acc == CleanupIterations([fs |-> fs, ready |-> th[t].ready], parent, iter)
    IN  /\ At(t, "cleanup")
        /\ frames' = [frames EXCEPT ![parent] = acc.fs]
        /\ th' = [th EXCEPT ![t].ready = acc.ready, ![t].frame = parent,
                            ![t].pc = IF IsFrameDone(acc.fs) THEN "delete_frame" ELSE "node_done"]
        /\ UNCHANGED <<run, num_outstanding_ops, status, aborted, pool, asyncs, deferral, ending, history>>

----------------------------------------------------------------------------
\* NodeDone: the first error of the step is kept, and aborts what waits.
NodeFailed(t) ==
    /\ At(t, "node_done") /\ th[t].failed
    /\ status' = FALSE
    /\ Goto(t, IF status THEN "abort" ELSE "count")
    /\ UNCHANGED <<run, frames, num_outstanding_ops, aborted, pool, asyncs, deferral, ending, history>>

\* Faulty variant: nobody is told of the error.
AbortNothing(t) ==
    /\ At(t, "abort")
    /\ Goto(t, "count")
    /\ UNCHANGED <<run, state, deferral, ending, history>>

StartAbort(t) ==
    /\ At(t, "abort")
    /\ aborted' = TRUE
    /\ Goto(t, "count")
    /\ UNCHANGED <<run, frames, num_outstanding_ops, status, pool, asyncs, deferral, ending, history>>

\* After its last use of the step, the thread of a callback or of Process goes on.
Resume(r) ==
    IF ~ r.callback THEN [r EXCEPT !.pc = "loop", !.tagged_node = NoNode, !.frame = <<>>]
    ELSE IF r.completed THEN [Idle EXCEPT !.pc = "schedule_finish"] ELSE Idle

\* Faulty variant: the nodes that the node before the failed one made ready count again.
NothingReady(t) == th[t].ready = <<>>
\* A node that failed leaves nothing ready: `ready' is still that of the one before.
LeavesNothing(t) == th[t].failed \/ th[t].ready = <<>>

\* Faulty variant: compares what fetch_sub leaves, not what it returns.
ReachesOne(t) == LeavesNothing(t) /\ num_outstanding_ops = 2
Completed(t) == LeavesNothing(t) /\ num_outstanding_ops = 1

\* A node with successors passes its unit of the count on to them.
CountNode(t) ==
    LET r == [th[t] EXCEPT !.completed = Completed(t)]
    IN  /\ At(t, "count") \/ (At(t, "node_done") /\ ~ th[t].failed)
        /\ num_outstanding_ops' = num_outstanding_ops - 1 + IF LeavesNothing(t) THEN 0 ELSE Len(th[t].ready)
        /\ th' = [th EXCEPT ![t] = IF th[t].failed THEN Resume(r)
                                   ELSE [r EXCEPT !.pc = "schedule_ready"]]
        /\ UNCHANGED <<run, frames, status, aborted, pool, asyncs, deferral, ending, history>>

Cheap(x) == x.dead \/ x.node \notin graph.expensive

\* The cheap nodes stay with the thread.  An expensive one waits for the next one, and
\* the last of them stays if nothing else does.
DispatchNode(d, x) ==
    IF Cheap(x) THEN [d EXCEPT !.inline = Append(@, x)]
    ELSE [d EXCEPT !.expensive = <<x>>, !.given = @ \o d.expensive]
Dispatch(inline_ready, ready) ==
    LET after[k \in 0..Len(ready)] ==
            IF k = 0 THEN [inline |-> inline_ready, expensive |-> <<>>, given |-> <<>>]
            ELSE DispatchNode(after[k - 1], ready[k])
        d == after[Len(ready)]
    IN  IF d.inline = <<>> THEN [inline |-> d.expensive, given |-> d.given]
        ELSE [inline |-> d.inline, given |-> d.given \o d.expensive]

\* runner_ gets a closure for each node.
Given(nodes) ==
    LET after[k \in 0..Len(nodes)] == IF k = 0 THEN pool ELSE after[k - 1] (+) SetToBag({nodes[k]})
    IN  after[Len(nodes)]

\* A callback gives all that is ready to the pool, and so does a thread that the
\* malleable pool wants to sleep.
ScheduleReady(t) ==
    /\ At(t, "schedule_ready")
    /\ \E not_sleep_thread \in IF inter_threadpool THEN BOOLEAN ELSE {TRUE} :
         LET d == IF th[t].callback \/ ~ not_sleep_thread
                  THEN [inline |-> th[t].inline_ready, given |-> th[t].ready]
                  ELSE Dispatch(th[t].inline_ready, th[t].ready)
         IN  /\ pool' = Given(d.given)
             /\ th' = [th EXCEPT ![t] = Resume([@ EXCEPT !.inline_ready = d.inline])]
    /\ UNCHANGED <<run, frames, num_outstanding_ops, status, aborted, asyncs, deferral, ending, history>>

\* Faulty variant: goes on to Finish after leaving it to the deferred operations.
ScheduleFinishTwice(t) ==
    /\ At(t, "schedule_finish")
    /\ finish_when_deferred_ops_done' = (num_deferred_ops > 0)
    /\ Goto(t, "finish")
    /\ UNCHANGED <<run, state, num_deferred_ops, ending, history>>

ScheduleFinish(t) ==
    /\ At(t, "schedule_finish")
    /\ IF num_deferred_ops > 0
       THEN /\ finish_when_deferred_ops_done' = TRUE
            /\ th' = [th EXCEPT ![t] = Idle]
       ELSE /\ Goto(t, "finish")
            /\ UNCHANGED finish_when_deferred_ops_done
    /\ UNCHANGED <<run, state, num_deferred_ops, ending, history>>

\* The callback of a deferred operation of the device.
DecNumDeferredOps(t) ==
    /\ At(t, "idle") /\ num_deferred_ops > 0
    /\ num_deferred_ops' = num_deferred_ops - 1
    /\ num_deferred_ops = 1 /\ finish_when_deferred_ops_done => Goto(t, "finish")
    /\ ~ (num_deferred_ops = 1 /\ finish_when_deferred_ops_done) => UNCHANGED th
    /\ UNCHANGED <<run, state, finish_when_deferred_ops_done, ending, history>>

\* The device may report an error of its own when the step ends well.
Finish(t) ==
    /\ At(t, "finish")
    /\ deleted' = TRUE
    /\ \E device_ok \in BOOLEAN : done_calls' = Append(done_calls, status /\ device_ok)
    /\ th' = [th EXCEPT ![t] = Idle]
    /\ UNCHANGED <<run, state, deferral, history>>

Step(t) ==
    \/ Process(t) \/ Leave(t) \/ Propagate(t) \/ FindChildFrame(t) \/ CreateChildFrame(t)
    \/ PropagateEnter(t) \/ Decrement(t) \/ DeleteFrame(t) \/ EraseFrame(t)
    \/ CleanupFramesIterations(t) \/ NodeFailed(t) \/ StartAbort(t) \/ CountNode(t)
    \/ ScheduleReady(t) \/ ScheduleFinish(t) \/ Finish(t)

Next == \E t \in Threads : Take(t) \/ AsyncDone(t) \/ DecNumDeferredOps(t) \/ Step(t)

Spec == Init /\ [][Next]_vars

\* The threads go on, the pool gives them its closures, and kernels and deferred
\* operations end.  The first conjunct is WF_vars(Step(t)) with its ENABLED written
\* out: a thread that is not idle can take a step.
FairSpec ==
    /\ Spec
    /\ \A t \in Threads : []<>At(t, "idle") \/ []<><<Step(t)>>_vars
    /\ WF_vars(\E t \in Threads : Take(t))
    /\ WF_vars(\E t \in Threads : AsyncDone(t))
    /\ WF_vars(\E t \in Threads : DecNumDeferredOps(t))
=============================================================================
