------------------------- MODULE ExecutorProperties ------------------------
(* What one step of the executor must do, and what it must never do.        *)
EXTENDS Executor, Totals

D == INSTANCE Dataflow

\* Where a thread is between the start of a node and its place in the count of
\* the step, and before its place in the count of its frame.
Counted == {"propagate", "create", "enter", "decrement", "delete_frame", "erase_frame", "cleanup",
            "node_done", "abort", "count"}
InFrame == {"propagate", "create", "enter", "decrement"}

\* `ready' is left as it was when the node of the thread has been handed on or failed.
Ready(t) == IF th[t].pc \in Counted \union {"schedule_ready"} /\ ~ th[t].failed
               /\ ~ At(t, "propagate") /\ ~ At(t, "create") /\ ~ At(t, "enter")
            THEN th[t].ready ELSE <<>>

\* The nodes that are ready or wait in a queue, and those that a thread works on.
Elements(s) == {s[k] : k \in DOMAIN s}
Waiting == BagToSet(pool) \union BagToSet(asyncs) \union
           UNION {Elements(th[t].inline_ready) \union Elements(Ready(t)) : t \in Threads}
Working == {th[t].tagged_node : t \in {u \in Threads : th[u].pc \in InFrame}}

\* How many of them are in M, with the threads that are at one of these places.
Among(s, M) == Cardinality({k \in DOMAIN s : s[k] \in M})
Copies(b, M) == Total([x \in DOMAIN b |-> IF x \in M THEN b[x] ELSE 0])
Held(t, M, places) == Among(th[t].inline_ready, M) + Among(Ready(t), M) +
                      (IF th[t].pc \in places /\ th[t].tagged_node \in M THEN 1 ELSE 0)
Outstanding(M, places) ==
    Copies(pool, M) + Copies(asyncs, M) + Total([t \in Threads |-> Held(t, M, places)])
NodesIn(frame, iter) == [node : DOMAIN graph.kind, frame : {frame}, iter : {iter}, dead : BOOLEAN]

IterationStates(fs) == {k \in DOMAIN fs.iterations : fs.iterations[k] # NoIteration}

TypeOK ==
    /\ num_outstanding_ops \in Nat /\ num_deferred_ops \in Nat
    /\ \A f \in DOMAIN frames :
         /\ frames[f].num_pending_inputs \in Nat
         /\ frames[f].iteration_count \in Nat
         /\ \A k \in IterationStates(frames[f]) :
              LET is == frames[f].iterations[k]
              IN  /\ is.outstanding_ops \in Nat /\ is.outstanding_frame_count \in Nat
                  /\ \A n \in DOMAIN is.pending : is.pending[n] \in Nat

\* The counter that ends the step (NodeDone) counts the nodes that are queued,
\* that run and that a thread has not yet handed on.
CountExact ==
    num_outstanding_ops =
        Total(pool) + Total(asyncs) +
        Total([t \in Threads |->
                 Len(th[t].inline_ready) + (IF th[t].pc \in Counted THEN 1 ELSE 0) +
                 (IF At(t, "schedule_ready") THEN Len(th[t].ready) ELSE 0)])

\* While no node has failed, the count of every iteration is that of its nodes: no
\* iteration is deleted early (CleanupIterations) and none is kept for ever.
OpsExact ==
    status /\ (\A t \in Threads : ~ th[t].failed) =>
       \A f \in DOMAIN frames : \A k \in IterationStates(frames[f]) :
          LET is == frames[f].iterations[k]
          IN  is.outstanding_ops = Outstanding(NodesIn(f, is.iter), InFrame)

\* A node that is ready or runs has its frame and its iteration: neither is freed,
\* nor is its place taken by a later iteration (GetIteration is modulo).  The frame
\* of a loop has the iteration it was entered from.
IterationAlive ==
    /\ \A x \in Waiting \union Working :
         x.frame \in DOMAIN frames /\ GetIteration(frames[x.frame], x.iter).iter = x.iter
    /\ \A f \in DOMAIN frames : frames[f].num_pending_inputs > 0 =>
                                  GetIteration(frames[f], 0).iter = 0
    /\ \A f \in DOMAIN frames \ {<<>>} :
         /\ ParentFrame(f) \in DOMAIN frames
         /\ GetIteration(frames[ParentFrame(f)], ParentIter(f)).iter = ParentIter(f)

\* At most max_parallel_iterations are outstanding, and they are the latest ones.
ParallelIterations ==
    \A f \in DOMAIN frames :
       LET fs == frames[f]
           iters == {fs.iterations[k].iter : k \in IterationStates(fs)}
       IN  /\ fs.num_outstanding_iterations = Cardinality(iters)
           /\ fs.num_outstanding_iterations <= fs.max_parallel_iterations
           /\ iters = (fs.iteration_count - fs.num_outstanding_iterations + 1)..fs.iteration_count
           /\ fs.next_iter_roots # <<>> => fs.num_outstanding_iterations = fs.max_parallel_iterations

\* A live node finds in every slot one value, from the node and the iteration it
\* must come from: the arrays are written without a lock of the node's own.
InputsWhole ==
    \A x \in Waiting :
       LET entries == {e \in GetIteration(frames[x.frame], x.iter).input_tensors : e.node = x.node}
           data == {e \in graph.in[x.node] : e.edge.slot # Control}
           From(e) == CASE Kind(e.from) = "next_iteration" -> {x.iter - 1}
                        [] IsEnter(e.from) -> {ParentIter(x.frame)}
                        [] Kind(e.from) = "exit" -> Nat
                        [] OTHER -> {x.iter}
       IN  ~ x.dead /\ Kind(x.node) # "control_trigger" =>
             IF Kind(x.node) = "merge"
             THEN /\ Cardinality(entries) = 1
                  /\ \E e \in data, v \in entries :
                        v.from = e.from /\ v.at = e.edge.at /\ v.iter \in From(e)
             ELSE /\ Cardinality(entries) = Cardinality(data)
                  /\ \A e \in data : \E v \in entries :
                        v.from = e.from /\ v.at = e.edge.at /\ v.iter \in From(e)

\* done_cb_ is called at most once, and when nothing of the step is left.
FinishOnce ==
    /\ Len(done_calls) <= 1
    /\ done_calls # <<>> => /\ num_outstanding_ops = 0 /\ num_deferred_ops = 0
                            /\ Waiting = {} /\ Working = {}

\* A step that ends well has computed everything: nothing in its graph may fire.
Complete ==
    done_calls # <<>> /\ status =>
       /\ DOMAIN frames = {}
       /\ D!Quiet(<<>>, D!Entered, D!Reached)

\* What a thread still does with the step: ScheduleReady uses it whatever is ready, since
\* it reads the member inter_threadpool first.
UsesStep(t) ==
    \/ th[t].pc \notin {"idle", "loop"}
    \/ At(t, "loop") /\ (th[t].inline_ready # <<>> \/ th[t].completed)

\* A thread whose fetch_sub was not the last one enters ScheduleReady with nothing ready,
\* and has nothing to do with the step after that.
EntersForNothing(t) ==
    /\ At(t, "schedule_ready") /\ th[t].ready = <<>>
    /\ th[t].inline_ready = <<>> /\ ~ th[t].completed

\* When Finish has deleted the step, the only use that threads still make of it is to
\* enter ScheduleReady with nothing ready, each as its last one.  That use is made: the
\* code does not keep it from the deleted step, with inter_threadpool or without.
OnlyEntryAfterDelete ==
    deleted => \A t \in Threads : UsesStep(t) => EntersForNothing(t)

\* The executor fires what the graph allows and closes the frames that are done.
ImplementsDataflow == D!Spec

\* The caller of RunAsync is always told: also when a node fails while another
\* waits for a tensor that never comes (StartAbort) and when deferred operations
\* outlive the nodes.
StepEnds == <>(done_calls # <<>>)
=============================================================================
