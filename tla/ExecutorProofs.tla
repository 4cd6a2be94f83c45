--------------------------- MODULE ExecutorProofs ---------------------------
(***************************************************************************)
(* A step of the executor as a whole: the count of its nodes is exact, and *)
(* it ends once, for every graph, every limit of parallel iterations and   *)
(* any number of threads.                                                  *)
(***************************************************************************)
EXTENDS ExecutorFrameProofs

-----------------------------------------------------------------------------
(* The invariant of the end of the step.                                   *)

\* What a thread has of the nodes that the step waits for.
Own(r) == Len(r.inline_ready) + (IF r.pc \in Counted THEN 1 ELSE 0) +
          (IF r.pc = "schedule_ready" THEN Len(r.ready) ELSE 0)

\* One thread at most ends the step, once no node is left; it waits for the deferred
\* operations, whose last callback goes on for it, or calls done_cb_.
Ends(r) == r.completed \/ r.pc \in {"schedule_finish", "finish"}
Deferred == finish_when_deferred_ops_done /\ num_deferred_ops > 0
EndsOnce ==
    /\ num_deferred_ops \in Nat /\ finish_when_deferred_ops_done \in BOOLEAN
    /\ Len(done_calls) <= 1 /\ (deleted <=> done_calls # <<>>) /\ done_calls \in Seq(BOOLEAN)
    /\ \A t, u \in Threads : Ends(th[t]) /\ Ends(th[u]) => t = u
    /\ \A t \in Threads : Ends(th[t]) => num_outstanding_ops = 0 /\ done_calls = <<>> /\ ~ Deferred
    /\ \A t \in Threads : At(t, "finish") => num_deferred_ops = 0
    /\ finish_when_deferred_ops_done => num_outstanding_ops = 0
    /\ Deferred => done_calls = <<>>
    /\ done_calls # <<>> => num_outstanding_ops = 0 /\ num_deferred_ops = 0

-----------------------------------------------------------------------------
(* The count of the step.                                                  *)

\* A thread goes on; the other threads stay.
Turn(t) == \A u \in Threads : u # t => th'[u] = th[u]

\* The three ways in which a thread goes on with its node.
LEMMA GoesTo ==
    ASSUME Typed, NEW t \in Threads, NEW pc, Goto(t, pc)
    PROVE  Turn(t) /\ th'[t].inline_ready = th[t].inline_ready /\ th'[t].completed = th[t].completed
           /\ th'[t].pc = pc
<1>1. th \in [Threads -> ThreadStates] /\ th[t] \in ThreadStates
  BY TypedParts
<1>2. Turn(t) /\ th'[t] = [th[t] EXCEPT !.pc = pc]
  BY <1>1 DEF Goto, Turn
<1> QED
  BY <1>1, <1>2 DEF ThreadStates

\* A step that changes what its thread has made ready.
LEMMA GoesWith ==
    ASSUME Typed, NEW t \in Threads, NEW pc, NEW ready, th' = [th EXCEPT ![t].ready = ready, ![t].pc = pc]
    PROVE  Turn(t) /\ th'[t].inline_ready = th[t].inline_ready /\ th'[t].completed = th[t].completed
           /\ th'[t].pc = pc
<1>1. th \in [Threads -> ThreadStates] /\ th[t] \in ThreadStates
  BY TypedParts
<1>2. Turn(t) /\ th'[t] = [[th[t] EXCEPT !.ready = ready] EXCEPT !.pc = pc]
  BY <1>1 DEF Turn
<1> QED
  BY <1>1, <1>2 DEF ThreadStates

\* A step that changes what its thread has made ready, and its frame.
LEMMA GoesInto ==
    ASSUME Typed, NEW t \in Threads, NEW pc, NEW ready, NEW frame,
           th' = [th EXCEPT ![t].ready = ready, ![t].frame = frame, ![t].pc = pc]
    PROVE  Turn(t) /\ th'[t].inline_ready = th[t].inline_ready /\ th'[t].completed = th[t].completed
           /\ th'[t].pc = pc
<1>1. th \in [Threads -> ThreadStates] /\ th[t] \in ThreadStates
  BY TypedParts
<1>2. Turn(t) /\ th'[t] = [[[th[t] EXCEPT !.ready = ready] EXCEPT !.frame = frame] EXCEPT !.pc = pc]
  BY <1>1 DEF Turn
<1> QED
  BY <1>1, <1>2 DEF ThreadStates

\* Until its place in the count (NodeDone), the thread of a node changes no count of the step.
WithNode(t) ==
    \/ Propagate(t) \/ FindChildFrame(t) \/ CreateChildFrame(t) \/ PropagateEnter(t) \/ Decrement(t)
    \/ DeleteFrame(t) \/ EraseFrame(t) \/ CleanupFramesIterations(t) \/ NodeFailed(t) \/ StartAbort(t)
StepStays == UNCHANGED <<pool, asyncs, num_outstanding_ops, num_deferred_ops,
                         finish_when_deferred_ops_done, deleted, done_calls>>
Keeping(t) ==
    /\ Turn(t) /\ th'[t].inline_ready = th[t].inline_ready /\ th'[t].completed = th[t].completed
    /\ th[t].pc \in Counted /\ th'[t].pc \in Counted

\* A decrement of the ops of a frame, whatever it decrements.
LEMMA DecrementedGoes ==
    ASSUME Typed, NEW t \in Threads, NEW d, Decremented(t, d)
    PROVE  Turn(t) /\ th'[t].inline_ready = th[t].inline_ready /\ th'[t].completed = th[t].completed
           /\ th'[t].pc \in {"delete_frame", "node_done"}
<1> DEFINE ready == d.ready
           frame == InputFrame(t)
           pc == IF d.done THEN "delete_frame" ELSE "node_done"
<1>1. th' = [th EXCEPT ![t].ready = ready, ![t].frame = frame, ![t].pc = pc]
  BY Zenon DEF Decremented
<1>2. pc \in {"delete_frame", "node_done"}
  OBVIOUS
<1> HIDE DEF ready, frame, pc
<1>3. Turn(t) /\ th'[t].inline_ready = th[t].inline_ready /\ th'[t].completed = th[t].completed /\ th'[t].pc = pc
  BY <1>1, GoesInto, Zenon
<1> QED
  BY <1>2, <1>3

\* Propagate goes on with its node.
LEMMA PropagateGoes ==
    ASSUME Typed, NEW t \in Threads, Propagate(t)
    PROVE  Keeping(t)
<1>0. th[t].pc = "propagate"
  BY DEF Propagate, At
<1>1. CASE PropagateNode(t)
  <2>1. PICK d : Decremented(t, d)
    BY <1>1, Zenon DEF PropagateNode
  <2> QED
    BY <1>0, <2>1, DecrementedGoes DEF Keeping, Counted
<1>2. CASE PropagateDeadExit(t)
  <2>1. PICK d : Decremented(t, d)
    BY <1>2, Zenon DEF PropagateDeadExit
  <2> QED
    BY <1>0, <2>1, DecrementedGoes DEF Keeping, Counted
<1>3. CASE PropagateExit(t)
  <2>1. PICK ready : th' = [th EXCEPT ![t].ready = ready, ![t].pc = "decrement"]
    BY <1>3, Zenon DEF PropagateExit
  <2> QED
    BY <1>0, <2>1, GoesWith DEF Keeping, Counted
<1>4. CASE PropagateNextIteration(t)
  <2>1. PICK d : Decremented(t, d)
    BY <1>4, Zenon DEF PropagateNextIteration
  <2> QED
    BY <1>0, <2>1, DecrementedGoes DEF Keeping, Counted
<1> QED
  BY <1>1, <1>2, <1>3, <1>4 DEF Propagate

\* The steps with a node in hand keep it, and leave num_outstanding_ops alone.
LEMMA WithNodeKeeps ==
    ASSUME Typed, NEW t \in Threads, WithNode(t)
    PROVE  Keeping(t) /\ StepStays
<1>1. CASE Propagate(t)
  <2>1. StepStays
    BY <1>1, Zenon DEF Propagate, StepStays, deferral, ending
  <2> QED
    BY <1>1, <2>1, PropagateGoes
<1>2. CASE FindChildFrame(t)
  <2>1. StepStays
    BY <1>2, Zenon DEF FindChildFrame, StepStays, state, deferral, ending
  <2>2. PICK pc \in {"enter", "create"} : Goto(t, pc)
    BY <1>2 DEF FindChildFrame
  <2>3. th[t].pc = "propagate"
    BY <1>2 DEF FindChildFrame, At
  <2> QED
    BY <2>1, <2>2, <2>3, GoesTo DEF Keeping, Counted
<1>3. CASE CreateChildFrame(t)
  <2>1. StepStays
    BY <1>3, Zenon DEF CreateChildFrame, StepStays, deferral, ending
  <2>2. Goto(t, "enter") /\ th[t].pc = "create"
    BY <1>3, Zenon DEF CreateChildFrame, At
  <2> QED
    BY <2>1, <2>2, GoesTo DEF Keeping, Counted
<1>4. CASE PropagateEnter(t)
  <2>1. StepStays
    BY <1>4, Zenon DEF PropagateEnter, StepStays, deferral, ending
  <2>2. PICK ready : th' = [th EXCEPT ![t].ready = ready, ![t].pc = "decrement"]
    BY <1>4, Zenon DEF PropagateEnter
  <2>3. th[t].pc = "enter"
    BY <1>4, Zenon DEF PropagateEnter, At
  <2> QED
    BY <2>1, <2>2, <2>3, GoesWith DEF Keeping, Counted
<1>5. CASE Decrement(t)
  <2>1. StepStays
    BY <1>5, Zenon DEF Decrement, StepStays, deferral, ending
  <2>2. PICK d : Decremented(t, d)
    BY <1>5, Zenon DEF Decrement
  <2>3. th[t].pc = "decrement"
    BY <1>5, Zenon DEF Decrement, At
  <2> QED
    BY <2>1, <2>2, <2>3, DecrementedGoes DEF Keeping, Counted
<1>6. CASE DeleteFrame(t)
  <2>1. StepStays
    BY <1>6, Zenon DEF DeleteFrame, StepStays, deferral, ending
  <2>2. th[t].pc = "delete_frame"
    BY <1>6, Zenon DEF DeleteFrame, At
  <2>3. CASE th[t].frame = <<>>
    <3>1. Goto(t, "erase_frame")
      BY <1>6, <2>3 DEF DeleteFrame
    <3> QED
      BY <2>1, <2>2, <3>1, GoesTo DEF Keeping, Counted
  <2>4. CASE th[t].frame # <<>>
    <3>1. PICK ready : th' = [th EXCEPT ![t].ready = ready, ![t].pc = "erase_frame"]
      BY <1>6, <2>4, Zenon DEF DeleteFrame
    <3> QED
      BY <2>1, <2>2, <3>1, GoesWith DEF Keeping, Counted
  <2> QED
    BY <2>3, <2>4
<1>7. CASE EraseFrame(t)
  <2>1. StepStays
    BY <1>7, Zenon DEF EraseFrame, StepStays, deferral, ending
  <2>2. PICK pc \in {"node_done", "cleanup"} : Goto(t, pc)
    BY <1>7 DEF EraseFrame
  <2>3. th[t].pc = "erase_frame"
    BY <1>7, Zenon DEF EraseFrame, At
  <2> QED
    BY <2>1, <2>2, <2>3, GoesTo DEF Keeping, Counted
<1>8. CASE CleanupFramesIterations(t)
  <2>1. StepStays
    BY <1>8, Zenon DEF CleanupFramesIterations, StepStays, deferral, ending
  <2> DEFINE iter == ParentIter(th[t].frame)
             parent == ParentFrame(th[t].frame)
             f == frames[parent]
             fs == SetIteration(f, iter, [GetIteration(f, iter) EXCEPT !.outstanding_frame_count = @ - 1])
             acc == CleanupIterations([fs |-> fs, ready |-> th[t].ready], parent, iter)
             ready == acc.ready
             pc == IF IsFrameDone(acc.fs) THEN "delete_frame" ELSE "node_done"
  <2>2. th' = [th EXCEPT ![t].ready = ready, ![t].frame = parent, ![t].pc = pc]
    BY <1>8, Zenon DEF CleanupFramesIterations
  <2>3. pc \in Counted
    BY DEF Counted
  <2>4. th[t].pc = "cleanup"
    BY <1>8, Zenon DEF CleanupFramesIterations, At
  <2> HIDE DEF pc, ready, parent
  <2>5. Turn(t) /\ th'[t].inline_ready = th[t].inline_ready /\ th'[t].completed = th[t].completed /\ th'[t].pc = pc
    BY <2>2, GoesInto, Zenon
  <2> QED
    BY <2>1, <2>3, <2>4, <2>5 DEF Keeping, Counted
<1>9. CASE NodeFailed(t)
  <2>1. StepStays
    BY <1>9, Zenon DEF NodeFailed, StepStays, deferral, ending
  <2>2. PICK pc \in {"abort", "count"} : Goto(t, pc)
    BY <1>9 DEF NodeFailed
  <2>3. th[t].pc = "node_done"
    BY <1>9, Zenon DEF NodeFailed, At
  <2> QED
    BY <2>1, <2>2, <2>3, GoesTo DEF Keeping, Counted
<1>10. CASE StartAbort(t)
  <2>1. StepStays
    BY <1>10, Zenon DEF StartAbort, StepStays, deferral, ending
  <2>2. Goto(t, "count") /\ th[t].pc = "abort"
    BY <1>10, Zenon DEF StartAbort, At
  <2> QED
    BY <2>1, <2>2, GoesTo DEF Keeping, Counted
<1> QED
  BY <1>1, <1>2, <1>3, <1>4, <1>5, <1>6, <1>7, <1>8, <1>9, <1>10 DEF WithNode

\* What is counted is a number, and the queues are those of the sums above.
LEMMA OwnIs ==
    ASSUME NEW r \in ThreadStates
    PROVE  /\ Own(r) \in Nat /\ Len(r.inline_ready) \in Nat /\ Len(r.ready) \in Nat
           /\ r.pc \in Counted => Own(r) = Len(r.inline_ready) + 1
           /\ r.pc = "schedule_ready" => Own(r) = Len(r.inline_ready) + Len(r.ready)
           /\ r.pc \in {"idle", "loop", "schedule_finish", "finish"} => Own(r) = Len(r.inline_ready)
<1>1. Len(r.inline_ready) \in Nat /\ Len(r.ready) \in Nat
  <2>1. r.inline_ready \in Seq(Tagged) /\ r.ready \in Seq(Tagged)
    BY DEF ThreadStates
  <2> QED
    BY <2>1, SeqOf
<1> DEFINE a == Len(r.inline_ready)
           b == Len(r.ready)
<1>2. Own(r) = a + (IF r.pc \in Counted THEN 1 ELSE 0) + (IF r.pc = "schedule_ready" THEN b ELSE 0)
  BY DEF Own
<1>3. a \in Nat /\ b \in Nat
  BY <1>1
<1>4. r.pc \in Counted => r.pc # "schedule_ready"
  BY DEF Counted
<1>5. r.pc \in {"idle", "loop", "schedule_finish", "finish"} => r.pc \notin Counted /\ r.pc # "schedule_ready"
  BY DEF Counted
<1> HIDE DEF a, b
<1>6. CASE r.pc \in Counted
  <2>1. Own(r) = a + 1
    BY <1>2, <1>3, <1>4, <1>6
  <2>2. Own(r) \in Nat
    BY <1>3, <2>1
  <2> QED
    BY <1>3, <1>4, <1>5, <1>6, <2>1, <2>2, Zenon DEF a, b
<1>7. CASE r.pc = "schedule_ready"
  <2>1. Own(r) = a + b
    BY <1>2, <1>3, <1>4, <1>7
  <2>2. Own(r) \in Nat
    BY <1>3, <2>1
  <2> QED
    BY <1>3, <1>4, <1>5, <1>7, <2>1, <2>2, Zenon DEF a, b
<1>8. CASE r.pc \notin Counted /\ r.pc # "schedule_ready"
  <2>1. Own(r) = a
    BY <1>2, <1>3, <1>8
  <2>2. Own(r) \in Nat
    BY <1>3, <2>1
  <2> QED
    BY <1>3, <1>8, <2>1, <2>2, Zenon DEF a, b
<1> QED
  BY <1>6, <1>7, <1>8

\* The parts of num_outstanding_ops are numbers.
LEMMA SumsAre ==
    ASSUME NEW p, BagOver(p), NEW a, BagOver(a), NEW h \in [Threads -> ThreadStates]
    PROVE  /\ Total(p) \in Nat /\ Total(a) \in Nat /\ Total([t \in Threads |-> Own(h[t])]) \in Nat
           /\ \A t \in Threads : Own(h[t]) \in Nat /\ Own(h[t]) <= Total([u \in Threads |-> Own(h[u])])
<1>1. ASSUME NEW b, BagOver(b) PROVE Total(b) \in Nat
  <2>1. IsFiniteSet(DOMAIN b) /\ b \in [DOMAIN b -> Int]
    BY <1>1 DEF BagOver
  <2> QED
    BY <2>1, UnitsFinite
<1> DEFINE own == [t \in Threads |-> Own(h[t])]
<1>2. \A t \in Threads : Own(h[t]) \in Nat
  BY OwnIs
<1>3. own \in [Threads -> Nat] /\ \A t \in Threads : own[t] = Own(h[t])
  BY <1>2
<1> HIDE DEF own
<1>4. Total(own) \in Nat
  <2>1. own \in [Threads -> Int]
    BY <1>3
  <2> QED
    BY <2>1, ThreadsAssumption, UnitsFinite
<1>5. \A t \in Threads : own[t] <= Total(own)
  BY <1>3, ThreadsAssumption, TotalChanges
<1>6. \A t \in Threads : Own(h[t]) \in Nat /\ Own(h[t]) <= Total(own)
  BY <1>2, <1>3, <1>5
<1> QED
  BY <1>1, <1>4, <1>6 DEF own

\* A node that is queued, that runs or that a thread has is counted.
LEMMA NothingLeft ==
    ASSUME Typed, CountExact
    PROVE  /\ num_outstanding_ops \in Nat
           /\ \A t \in Threads : Own(th[t]) \in Nat /\ Own(th[t]) <= num_outstanding_ops
           /\ num_outstanding_ops = 0 => /\ Total(pool) = 0 /\ Total(asyncs) = 0
                                         /\ \A t \in Threads : Own(th[t]) = 0
<1> DEFINE own == [u \in Threads |-> Own(th[u])]
<1>1. /\ Total(pool) \in Nat /\ Total(asyncs) \in Nat /\ Total(own) \in Nat
      /\ \A t \in Threads : Own(th[t]) \in Nat /\ Own(th[t]) <= Total(own)
  BY TypedParts, SumsAre
<1>2. num_outstanding_ops = Total(pool) + Total(asyncs) + Total(own)
  BY DEF CountExact, Own, At
<1> HIDE DEF own
<1>3. num_outstanding_ops \in Nat /\ Total(own) <= num_outstanding_ops
  BY <1>1, <1>2
<1>4. num_outstanding_ops = 0 => Total(pool) = 0 /\ Total(asyncs) = 0 /\ Total(own) = 0
  BY <1>1, <1>2
<1>5. ASSUME NEW t \in Threads
      PROVE  /\ Own(th[t]) \in Nat /\ Own(th[t]) <= num_outstanding_ops
             /\ num_outstanding_ops = 0 => Own(th[t]) = 0
  <2>1. Own(th[t]) \in Nat /\ Own(th[t]) <= Total(own)
    BY <1>1
  <2> QED
    BY <1>1, <1>3, <2>1
<1> QED
  BY <1>3, <1>4, <1>5

\* What one thread does with what it has, with the queues and with the count.
Typing == /\ th \in [Threads -> ThreadStates] /\ BagOver(pool) /\ BagOver(asyncs)
          /\ th' \in [Threads -> ThreadStates] /\ BagOver(pool') /\ BagOver(asyncs')
\* The count follows the bags and the thread of a step.
LEMMA TurnCounts ==
    ASSUME Typing, CountExact, NEW t \in Threads, Turn(t),
           num_outstanding_ops' = num_outstanding_ops + (Total(pool') - Total(pool))
                                     + (Total(asyncs') - Total(asyncs)) + (Own(th'[t]) - Own(th[t]))
    PROVE  CountExact'
<1> DEFINE own == [u \in Threads |-> Own(th[u])]
           next == [u \in Threads |-> Own(th'[u])]
<1>1. /\ Total(pool) \in Nat /\ Total(asyncs) \in Nat /\ Total(own) \in Nat
      /\ \A u \in Threads : Own(th[u]) \in Nat
  BY SumsAre DEF Typing
<1>2. /\ Total(pool') \in Nat /\ Total(asyncs') \in Nat /\ Total(next) \in Nat
      /\ \A u \in Threads : Own(th'[u]) \in Nat
  BY SumsAre DEF Typing
<1>3. own \in [Threads -> Nat] /\ next \in [Threads -> Nat]
  BY <1>1, <1>2
<1>4. \A u \in Threads : u # t => next[u] = own[u]
  BY DEF Turn
<1>5. own[t] = Own(th[t]) /\ next[t] = Own(th'[t])
  OBVIOUS
<1>6. num_outstanding_ops = Total(pool) + Total(asyncs) + Total(own)
  BY DEF CountExact, Own, At
<1>7. CountExact' <=> num_outstanding_ops' = Total(pool') + Total(asyncs') + Total(next)
  BY DEF CountExact, Own, At
<1> HIDE DEF own, next
<1>8. Total(next) = Total(own) - own[t] + next[t]
  BY <1>3, <1>4, ThreadsAssumption, TotalChanges
<1>9. own[t] \in Nat /\ next[t] \in Nat
  BY <1>3
<1>10. num_outstanding_ops' = Total(pool') + Total(asyncs') + Total(next)
  <2>1. num_outstanding_ops' = num_outstanding_ops + (Total(pool') - Total(pool))
                                     + (Total(asyncs') - Total(asyncs)) + (next[t] - own[t])
    BY <1>5
  <2> QED
    BY <1>1, <1>2, <1>6, <1>8, <1>9, <2>1
<1> QED
  BY <1>7, <1>10

\* The types that the accounts use, on both sides of a step.
LEMMA TypingIs ==
    ASSUME Sane, Sane', graph' = graph
    PROVE  Typing
<1>1. Typed /\ Typed'
  BY DEF Sane
<1>2. th \in [Threads -> ThreadStates] /\ BagOver(pool) /\ BagOver(asyncs)
  BY <1>1, TypedParts
<1>3. th' \in [Threads -> ThreadStates'] /\ BagOver(pool)' /\ BagOver(asyncs)'
  BY <1>1 DEF Typed
<1>4. ThreadStates' = ThreadStates /\ Tagged' = Tagged
  BY SameGraph
<1>5. BagOver(pool') /\ BagOver(asyncs')
  BY <1>3, <1>4 DEF BagOver
<1> QED
  BY <1>2, <1>3, <1>4, <1>5 DEF Typing

\* The queues, without regard to what is in them.
LEMMA TotalTakes ==
    ASSUME NEW b, BagOver(b), NEW x \in DOMAIN b
    PROVE  LET c == b (-) SetToBag({x})
           IN  BagOver(c) /\ Total(b) \in Nat /\ Total(c) \in Nat /\ Total(b) = Total(c) + 1
<1> DEFINE c == b (-) SetToBag({x})
<1>1. BagOver(c) /\ DOMAIN c \in SUBSET DOMAIN b /\ Copies(b, Tagged) = Copies(c, Tagged) + IfIn(x, Tagged)
  BY BagTakes
<1>2. DOMAIN b \in SUBSET Tagged
  BY DEF BagOver
<1> HIDE DEF c
<1>3. Copies(b, Tagged) = Total(b) /\ Copies(c, Tagged) = Total(c) /\ IfIn(x, Tagged) = 1
  BY <1>1, <1>2, CopiesAll DEF IfIn
<1>4. Copies(b, Tagged) \in Nat /\ Copies(c, Tagged) \in Nat
  BY <1>1, CopiesIs
<1> QED
  BY <1>1, <1>3, <1>4 DEF c

\* A bag with one copy more.
LEMMA TotalAdds ==
    ASSUME NEW b, BagOver(b), NEW x \in Tagged
    PROVE  LET c == b (+) SetToBag({x})
           IN  BagOver(c) /\ Total(b) \in Nat /\ Total(c) \in Nat /\ Total(c) = Total(b) + 1
<1> DEFINE c == b (+) SetToBag({x})
<1>1. BagOver(c) /\ Copies(c, Tagged) = Copies(b, Tagged) + IfIn(x, Tagged)
  BY BagAdds
<1>2. DOMAIN b \in SUBSET Tagged
  BY DEF BagOver
<1> HIDE DEF c
<1>3. DOMAIN c \in SUBSET Tagged
  BY <1>1 DEF BagOver
<1>4. Copies(b, Tagged) = Total(b) /\ Copies(c, Tagged) = Total(c) /\ IfIn(x, Tagged) = 1
  BY <1>1, <1>2, <1>3, CopiesAll DEF IfIn
<1>5. Copies(b, Tagged) \in Nat /\ Copies(c, Tagged) \in Nat
  BY <1>1, CopiesIs
<1> QED
  BY <1>1, <1>4, <1>5 DEF c

\* The pool has as many closures more as were given.
LEMMA TotalGiven ==
    ASSUME BagOver(pool), NEW nodes \in Seq(Tagged)
    PROVE  LET c == Given(nodes)
           IN  BagOver(c) /\ Total(pool) \in Nat /\ Total(c) \in Nat /\ Total(c) = Total(pool) + Len(nodes)
<1> DEFINE c == Given(nodes)
<1>1. BagOver(c) /\ Copies(c, Tagged) = Copies(pool, Tagged) + Among(nodes, Tagged)
  BY GivenKeeps
<1> HIDE DEF c
<1>2. DOMAIN pool \in SUBSET Tagged /\ DOMAIN c \in SUBSET Tagged
  BY <1>1 DEF BagOver
<1>3. Copies(pool, Tagged) = Total(pool) /\ Copies(c, Tagged) = Total(c)
  BY <1>1, <1>2, CopiesAll
<1>4. Among(nodes, Tagged) = Len(nodes)
  BY AmongAll
<1>5. Copies(pool, Tagged) \in Nat /\ Copies(c, Tagged) \in Nat
  BY <1>1, CopiesIs
<1> QED
  BY <1>1, <1>3, <1>4, <1>5 DEF c

\* Dispatch keeps the number of nodes.
LEMMA DispatchLength ==
    ASSUME NEW inline \in Seq(Tagged), NEW nodes \in Seq(Tagged)
    PROVE  LET d == Dispatch(inline, nodes)
           IN  /\ d.inline \in Seq(Tagged) /\ d.given \in Seq(Tagged)
               /\ Len(d.inline) + Len(d.given) = Len(inline) + Len(nodes)
<1> DEFINE d == Dispatch(inline, nodes)
<1>1. /\ d.inline \in Seq(Tagged) /\ d.given \in Seq(Tagged)
      /\ Among(d.inline, Tagged) + Among(d.given, Tagged) = Among(inline, Tagged) + Among(nodes, Tagged)
  BY DispatchKeeps
<1> HIDE DEF d
<1>2. /\ Among(d.inline, Tagged) = Len(d.inline) /\ Among(d.given, Tagged) = Len(d.given)
      /\ Among(inline, Tagged) = Len(inline) /\ Among(nodes, Tagged) = Len(nodes)
  BY <1>1, AmongAll
<1> QED
  BY <1>1, <1>2 DEF d

-----------------------------------------------------------------------------
(* The end of the step.                                                    *)

\* What a step of a thread does to the count, and to the end of the step.
Accounts(t) ==
    num_outstanding_ops' = num_outstanding_ops + (Total(pool') - Total(pool))
                               + (Total(asyncs') - Total(asyncs)) + (Own(th'[t]) - Own(th[t]))
EndStays == UNCHANGED <<num_outstanding_ops, num_deferred_ops, finish_when_deferred_ops_done,
                        deleted, done_calls>>

\* A step that ends nothing keeps EndsOnce.
LEMMA EndsSame ==
    ASSUME EndsOnce, EndStays, NEW t \in Threads, Turn(t),
           Ends(th'[t]) => Ends(th[t]), th'[t].pc = "finish" => th[t].pc = "finish"
    PROVE  EndsOnce'
<1>1. /\ num_outstanding_ops' = num_outstanding_ops /\ num_deferred_ops' = num_deferred_ops
      /\ finish_when_deferred_ops_done' = finish_when_deferred_ops_done
      /\ deleted' = deleted /\ done_calls' = done_calls
  BY DEF EndStays
<1>2. \A u \in Threads : /\ Ends(th'[u]) => Ends(th[u])
                         /\ th'[u].pc = "finish" => th[u].pc = "finish"
  BY DEF Turn
<1>3. Deferred' <=> Deferred
  BY <1>1 DEF Deferred
<1>4. \A u \in Threads : Ends(th[u])' => Ends(th[u])
  BY <1>2 DEF Ends
<1> QED
  BY <1>1, <1>2, <1>3, <1>4, Zenon DEF EndsOnce, At

\* A node is left: the step does not end.
LEMMA NotEnding ==
    ASSUME Typed, CountExact, EndsOnce, NEW t \in Threads, Own(th[t]) >= 1
    PROVE  /\ num_outstanding_ops \in Nat \ {0} /\ ~ finish_when_deferred_ops_done /\ done_calls = <<>> /\ ~ deleted
           /\ \A u \in Threads : ~ Ends(th[u])
<1>1. num_outstanding_ops \in Nat /\ Own(th[t]) \in Nat /\ Own(th[t]) <= num_outstanding_ops
  BY NothingLeft
<1>2. num_outstanding_ops \in Nat \ {0} /\ num_outstanding_ops # 0
  BY <1>1
<1> QED
  BY <1>2, Zenon DEF EndsOnce

\* What a step keeps: what it changes adds up, and the step ends once.
Closes(t) == Turn(t) /\ Accounts(t) /\ EndsOnce'
Before(t) == Typing /\ Typed /\ CountExact /\ EndsOnce /\ t \in Threads
             /\ th[t] \in ThreadStates /\ ThreadOK(th[t], status)

\* The turn of a thread that is given by its record.
LEMMA TurnIs ==
    ASSUME Typing, NEW t \in Threads, NEW r, th' = [th EXCEPT ![t] = r]
    PROVE  Turn(t) /\ th'[t] = r
BY DEF Typing, Turn

\* The totals of a step are numbers.
LEMMA TotalsAre ==
    ASSUME Typing, NEW t \in Threads
    PROVE  /\ Total(pool) \in Nat /\ Total(asyncs) \in Nat /\ Total(pool') \in Nat /\ Total(asyncs') \in Nat
           /\ Own(th[t]) \in Nat /\ Own(th'[t]) \in Nat
BY SumsAre DEF Typing

\* The queues and the count stay, and the thread has as much as before.
LEMMA AccountsSame ==
    ASSUME Typing, NEW t \in Threads, num_outstanding_ops \in Nat, num_outstanding_ops' = num_outstanding_ops,
           pool' = pool, asyncs' = asyncs, Own(th'[t]) = Own(th[t])
    PROVE  Accounts(t)
<1>1. /\ Total(pool) \in Nat /\ Total(asyncs) \in Nat /\ Own(th[t]) \in Nat
  BY TotalsAre
<1>2. Total(pool') = Total(pool) /\ Total(asyncs') = Total(asyncs)
  OBVIOUS
<1> QED
  BY <1>1, <1>2 DEF Accounts

\* A step with a node in hand keeps the ledger.
LEMMA NodeCloses ==
    ASSUME NEW t, Before(t), WithNode(t)
    PROVE  Closes(t)
<1>1. Keeping(t) /\ StepStays
  BY WithNodeKeeps DEF Before
<1>2. t \in Threads /\ th[t] \in ThreadStates /\ th'[t] \in ThreadStates
  BY DEF Before, Typing
<1>3. Own(th[t]) = Len(th[t].inline_ready) + 1 /\ Own(th'[t]) = Len(th'[t].inline_ready) + 1
  BY <1>1, <1>2, OwnIs DEF Keeping
<1>4. num_outstanding_ops \in Nat
  BY NothingLeft DEF Before
<1>5. Accounts(t)
  <2>1. Own(th'[t]) = Own(th[t])
    BY <1>1, <1>3 DEF Keeping
  <2>2. Typing /\ num_outstanding_ops' = num_outstanding_ops /\ pool' = pool /\ asyncs' = asyncs
    BY <1>1 DEF StepStays, Before
  <2> QED
    BY <1>2, <1>4, <2>1, <2>2, AccountsSame
<1>6. EndStays
  BY <1>1 DEF StepStays, EndStays
<1>7. /\ Ends(th'[t]) => Ends(th[t])
      /\ th'[t].pc = "finish" => th[t].pc = "finish"
  BY <1>1 DEF Keeping, Ends, Counted
<1>8. EndsOnce'
  BY <1>1, <1>2, <1>6, <1>7, EndsSame DEF Before, Keeping
<1> QED
  BY <1>1, <1>5, <1>8 DEF Closes, Keeping

\* Take keeps the ledger.
LEMMA TakeCloses ==
    ASSUME NEW t, Before(t), Take(t)
    PROVE  Closes(t)
<1>0. t \in Threads /\ Typing /\ EndsOnce /\ th[t] \in ThreadStates /\ th'[t] \in ThreadStates /\ BagOver(pool)
  BY DEF Before, Typing
<1>1. PICK x \in BagToSet(pool) :
         /\ pool' = pool (-) SetToBag({x})
         /\ th' = [th EXCEPT ![t] = [Idle EXCEPT !.pc = "loop", !.inline_ready = <<x>>]]
  BY Zenon DEF Take
<1> DEFINE r == [Idle EXCEPT !.pc = "loop", !.inline_ready = <<x>>]
<1>2. Turn(t) /\ th'[t] = r
  BY <1>0, <1>1, TurnIs, Zenon
<1>3. r.pc = "loop" /\ r.inline_ready = <<x>> /\ r.completed = FALSE
  BY DEF Idle
<1> HIDE DEF r
<1>4. th[t] = Idle /\ th[t].pc = "idle"
  BY DEF Take, At, ThreadOK, Before
<1>5. Own(th[t]) = 0
  BY <1>0, <1>4, OwnIs, IdleIs
<1>6. Own(th'[t]) = 1
  <2>1. Own(th'[t]) = Len(th'[t].inline_ready)
    BY <1>0, <1>2, <1>3, OwnIs
  <2> QED
    BY <1>2, <1>3, <2>1
<1>7. x \in DOMAIN pool
  BY <1>1 DEF BagToSet
<1>8. Total(pool) = Total(pool') + 1 /\ Total(pool) \in Nat /\ Total(pool') \in Nat
  BY <1>0, <1>1, <1>7, TotalTakes
<1>9. num_outstanding_ops' = num_outstanding_ops /\ asyncs' = asyncs
  BY DEF Take
<1>10. num_outstanding_ops \in Nat /\ Total(asyncs) \in Nat
  BY <1>0, NothingLeft, TotalsAre DEF Before
<1>11. Accounts(t)
  <2>1. Total(asyncs') = Total(asyncs)
    BY <1>9
  <2> QED
    BY <1>5, <1>6, <1>8, <1>9, <1>10, <2>1 DEF Accounts
<1>12. EndStays
  BY DEF Take, EndStays, deferral, ending
<1>13. EndsOnce'
  BY <1>0, <1>2, <1>3, <1>12, EndsSame DEF Ends
<1> QED
  BY <1>2, <1>11, <1>13 DEF Closes

\* Leave keeps the ledger.
LEMMA LeaveCloses ==
    ASSUME NEW t, Before(t), Leave(t)
    PROVE  Closes(t)
<1>0. t \in Threads /\ Typing /\ EndsOnce /\ th[t] \in ThreadStates /\ th'[t] \in ThreadStates
  BY DEF Before, Typing
<1> DEFINE r == IF th[t].completed THEN [th[t] EXCEPT !.pc = "schedule_finish"] ELSE Idle
<1>1. th' = [th EXCEPT ![t] = r] /\ th[t].pc = "loop" /\ th[t].inline_ready = <<>>
  BY DEF Leave, At
<1>2. Turn(t) /\ th'[t] = r
  BY <1>0, <1>1, TurnIs, Zenon
<1>3. /\ r.pc \in {"schedule_finish", "idle"} /\ r.inline_ready = <<>>
      /\ Ends(r) => th[t].completed
  <2>1. CASE th[t].completed
    <3>1. r = [th[t] EXCEPT !.pc = "schedule_finish"]
      BY <2>1
    <3> QED
      BY <1>0, <1>1, <2>1, <3>1 DEF ThreadStates
  <2>2. CASE ~ th[t].completed
    <3>1. r = Idle
      BY <2>2
    <3> HIDE DEF r
    <3> QED
      BY <3>1, IdleIs DEF Ends
  <2> QED
    BY <2>1, <2>2
<1> HIDE DEF r
<1>4. Own(th[t]) = 0 /\ Own(th'[t]) = 0
  <2>1. Own(th[t]) = Len(th[t].inline_ready) /\ Own(th'[t]) = Len(th'[t].inline_ready)
    BY <1>0, <1>1, <1>2, <1>3, OwnIs
  <2> QED
    BY <1>1, <1>2, <1>3, <2>1
<1>5. Accounts(t)
  <2>1. num_outstanding_ops' = num_outstanding_ops /\ pool' = pool /\ asyncs' = asyncs
    BY DEF Leave, state
  <2>2. num_outstanding_ops \in Nat
    BY NothingLeft DEF Before
  <2> QED
    BY <1>0, <1>4, <2>1, <2>2, AccountsSame
<1>6. EndStays
  BY DEF Leave, EndStays, state, deferral, ending
<1>7. EndsOnce'
  BY <1>0, <1>2, <1>3, <1>6, EndsSame DEF Ends
<1> QED
  BY <1>2, <1>5, <1>7 DEF Closes

\* AsyncDone keeps the ledger.
LEMMA AsyncDoneCloses ==
    ASSUME NEW t, Before(t), AsyncDone(t)
    PROVE  Closes(t)
<1>0. t \in Threads /\ Typing /\ EndsOnce /\ th[t] \in ThreadStates /\ th'[t] \in ThreadStates /\ BagOver(asyncs)
  BY DEF Before, Typing
<1> DEFINE Fails(x) == x.node \in graph.fails \union graph.never
           Next1(x) == [Idle EXCEPT !.tagged_node = x, !.callback = TRUE, !.failed = Fails(x),
                                    !.pc = IF Fails(x) THEN "node_done" ELSE "propagate"]
<1>1. PICK x \in BagToSet(asyncs) :
         /\ asyncs' = asyncs (-) SetToBag({x})
         /\ th' = [th EXCEPT ![t] = Next1(x)]
  BY Zenon DEF AsyncDone
<1> DEFINE r == Next1(x)
<1>2. Turn(t) /\ th'[t] = r
  BY <1>0, <1>1, TurnIs, Zenon
<1>3. r.pc \in Counted /\ r.pc # "finish" /\ r.pc # "schedule_finish" /\ r.inline_ready = <<>> /\ r.completed = FALSE
  BY DEF Idle, Counted
<1> HIDE DEF r
<1>4. th[t] = Idle /\ th[t].pc = "idle"
  BY DEF AsyncDone, At, ThreadOK, Before
<1>5. Own(th[t]) = 0
  BY <1>0, <1>4, OwnIs, IdleIs
<1>6. Own(th'[t]) = 1
  <2>1. Own(th'[t]) = Len(th'[t].inline_ready) + 1
    BY <1>0, <1>2, <1>3, OwnIs
  <2> QED
    BY <1>2, <1>3, <2>1
<1>7. x \in DOMAIN asyncs
  BY <1>1 DEF BagToSet
<1>8. Total(asyncs) = Total(asyncs') + 1 /\ Total(asyncs) \in Nat /\ Total(asyncs') \in Nat
  BY <1>0, <1>1, <1>7, TotalTakes
<1>9. num_outstanding_ops' = num_outstanding_ops /\ pool' = pool
  BY DEF AsyncDone
<1>10. num_outstanding_ops \in Nat /\ Total(pool) \in Nat
  BY <1>0, NothingLeft, TotalsAre DEF Before
<1>11. Accounts(t)
  <2>1. Total(pool') = Total(pool)
    BY <1>9
  <2> QED
    BY <1>5, <1>6, <1>8, <1>9, <1>10, <2>1 DEF Accounts
<1>12. EndStays
  BY DEF AsyncDone, EndStays, deferral, ending
<1>13. EndsOnce'
  BY <1>0, <1>2, <1>3, <1>12, EndsSame DEF Ends
<1> QED
  BY <1>2, <1>11, <1>13 DEF Closes

\* No thread ends the step.
LEMMA NoneEnds ==
    ASSUME NEW t \in Threads, Turn(t), \A u \in Threads : ~ Ends(th[u]), ~ Ends(th'[t]),
           num_deferred_ops' \in Nat, finish_when_deferred_ops_done' = FALSE, done_calls' = <<>>, ~ deleted'
    PROVE  EndsOnce'
<1>1. \A u \in Threads : ~ Ends(th'[u])
  BY DEF Turn
<1>2. \A u \in Threads : ~ Ends(th[u])' /\ th'[u].pc # "finish"
  BY <1>1 DEF Ends
<1>3. ~ Deferred'
  BY DEF Deferred
<1>4. Len(done_calls') <= 1 /\ done_calls' \in Seq(BOOLEAN)
  OBVIOUS
<1> QED
  BY <1>2, <1>3, <1>4, Zenon DEF EndsOnce, At

\* One thread does.
LEMMA OneEnds ==
    ASSUME NEW t \in Threads, Turn(t), \A u \in Threads : u # t => ~ Ends(th[u]),
           num_outstanding_ops' = 0, num_deferred_ops' \in Nat, finish_when_deferred_ops_done' \in BOOLEAN,
           done_calls' = <<>>, ~ deleted', ~ Deferred', th'[t].pc = "finish" => num_deferred_ops' = 0
    PROVE  EndsOnce'
<1>1. \A u \in Threads : u # t => ~ Ends(th'[u])
  BY DEF Turn
<1>2. \A u \in Threads : u # t => ~ Ends(th[u])' /\ th'[u].pc # "finish"
  BY <1>1 DEF Ends
<1>3. Len(done_calls') <= 1 /\ done_calls' \in Seq(BOOLEAN)
  OBVIOUS
<1> QED
  BY <1>2, <1>3, Zenon DEF EndsOnce, At

\* Process keeps the ledger: a deferred operation begins while its node is counted.
LEMMA ProcessCloses ==
    ASSUME NEW t, Before(t), Process(t)
    PROVE  Closes(t)
<1>0. t \in Threads /\ Typing /\ EndsOnce /\ th[t] \in ThreadStates /\ th'[t] \in ThreadStates /\ BagOver(asyncs)
  BY DEF Before, Typing
<1> DEFINE x == Head(th[t].inline_ready)
           s == Tail(th[t].inline_ready)
           skipped == x.dead /\ Kind(x.node) # "transfer"
           launched == x.node \in graph.async /\ ~ skipped
           failed == IF skipped THEN th[t].failed ELSE x.node \in graph.fails
           r == IF launched THEN [th[t] EXCEPT !.inline_ready = s, !.failed = FALSE]
                ELSE [th[t] EXCEPT !.inline_ready = s, !.tagged_node = x, !.failed = failed,
                                   !.pc = IF failed THEN "node_done" ELSE "propagate"]
<1>1. /\ th[t].pc = "loop" /\ th[t].inline_ready # <<>>
      /\ pool' = pool /\ num_outstanding_ops' = num_outstanding_ops
      /\ finish_when_deferred_ops_done' = finish_when_deferred_ops_done
      /\ deleted' = deleted /\ done_calls' = done_calls
  BY Zenon DEF Process, At, ending
<1>2. x \in Tagged /\ s \in Seq(Tagged) /\ Len(th[t].inline_ready) = Len(s) + 1 /\ Len(s) \in Nat
  <2>1. th[t].inline_ready \in Seq(Tagged)
    BY <1>0 DEF ThreadStates
  <2>2. x \in Tagged /\ s \in Seq(Tagged) /\ Len(th[t].inline_ready) = Len(s) + 1
    BY <1>1, <2>1, AmongTail
  <2> QED
    BY <2>2, SeqOf
<1>3. Own(th[t]) = Len(s) + 1
  <2>1. Own(th[t]) = Len(th[t].inline_ready)
    BY <1>0, <1>1, OwnIs
  <2> QED
    BY <1>2, <2>1
<1>4. num_outstanding_ops \in Nat \ {0} /\ ~ finish_when_deferred_ops_done /\ done_calls = <<>> /\ ~ deleted
      /\ \A u \in Threads : ~ Ends(th[u])
  <2> HIDE DEF s
  <2>1. Own(th[t]) >= 1
    BY <1>2, <1>3
  <2> QED
    BY <2>1, NotEnding DEF Before
<1>5. th' = [th EXCEPT ![t] = r]
  BY DEF Process
<1>6. Turn(t) /\ th'[t] = r
  BY <1>0, <1>5, TurnIs, Zenon
<1>7. r.inline_ready = s /\ r.completed = th[t].completed
      /\ (launched => r.pc = "loop") /\ (~ launched => r.pc \in {"node_done", "propagate"})
  <2>1. CASE launched
    BY <1>0, <1>1, <2>1 DEF ThreadStates
  <2>2. CASE ~ launched
    <3>1. r = [th[t] EXCEPT !.inline_ready = s, !.tagged_node = x, !.failed = failed,
                            !.pc = IF failed THEN "node_done" ELSE "propagate"]
      BY <2>2
    <3> QED
      BY <1>0, <2>2, <3>1 DEF ThreadStates
  <2> QED
    BY <2>1, <2>2
<1>8. launched => asyncs' = asyncs (+) SetToBag({x})
  BY DEF Process
<1>9. ~ launched => asyncs' = asyncs
  BY DEF Process
<1>10. num_deferred_ops' \in Nat
  <2>1. num_deferred_ops \in Nat
    BY <1>0 DEF EndsOnce
  <2>2. launched => num_deferred_ops' = num_deferred_ops
    BY DEF Process
  <2>3. ~ launched => num_deferred_ops' = num_deferred_ops + IF x.node \in graph.defers /\ ~ skipped THEN 1 ELSE 0
    BY DEF Process
  <2> HIDE DEF launched, x, skipped
  <2> QED
    BY <2>1, <2>2, <2>3
<1> HIDE DEF r, launched, x, s, skipped, failed
<1>11. Accounts(t)
  <2>1. Total(pool) \in Nat /\ Total(pool') = Total(pool)
    BY <1>0, <1>1, TotalsAre
  <2>2. CASE launched
    <3>1. Own(th'[t]) = Len(s)
      BY <1>0, <1>6, <1>7, <2>2, OwnIs
    <3>2. Total(asyncs) \in Nat /\ Total(asyncs') = Total(asyncs) + 1
      BY <1>0, <1>2, <1>8, <2>2, TotalAdds
    <3> QED
      BY <1>1, <1>2, <1>3, <1>4, <2>1, <3>1, <3>2 DEF Accounts
  <2>3. CASE ~ launched
    <3>1. Own(th'[t]) = Len(s) + 1
      <4>1. th'[t].pc \in Counted
        BY <1>6, <1>7, <2>3 DEF Counted
      <4> QED
        BY <1>0, <1>6, <1>7, <4>1, OwnIs
    <3>2. Total(asyncs) \in Nat /\ Total(asyncs') = Total(asyncs)
      BY <1>0, <1>9, <2>3, TotalsAre
    <3> QED
      BY <1>1, <1>2, <1>3, <1>4, <2>1, <3>1, <3>2 DEF Accounts
  <2> QED
    BY <2>2, <2>3
<1>12. EndsOnce'
  <2>1. ~ Ends(th'[t])
    <3>1. ~ th[t].completed
      BY <1>0, <1>4 DEF Ends
    <3>2. th'[t].pc \in {"loop", "node_done", "propagate"} /\ ~ th'[t].completed
      BY <1>6, <1>7, <3>1
    <3> QED
      BY <3>2 DEF Ends
  <2>2. finish_when_deferred_ops_done' = FALSE
    BY <1>0, <1>1, <1>4 DEF EndsOnce
  <2> QED
    BY <1>0, <1>1, <1>4, <1>6, <1>10, <2>1, <2>2, NoneEnds
<1> QED
  BY <1>6, <1>11, <1>12 DEF Closes

\* CountNode keeps the ledger: the thread that takes the last unit is the one that ends the
\* step.
LEMMA CountNodeCloses ==
    ASSUME NEW t, Before(t), CountNode(t)
    PROVE  Closes(t)
<1>0. t \in Threads /\ Typing /\ EndsOnce /\ th[t] \in ThreadStates /\ th'[t] \in ThreadStates
      /\ ThreadOK(th[t], status)
  BY DEF Before, Typing
<1> DEFINE r0 == [th[t] EXCEPT !.completed = Completed(t)]
           r == IF th[t].failed THEN Resume(r0) ELSE [r0 EXCEPT !.pc = "schedule_ready"]
           left == IF LeavesNothing(t) THEN 0 ELSE Len(th[t].ready)
<1>1. /\ th[t].pc \in {"count", "node_done"} /\ (th[t].pc = "node_done" => ~ th[t].failed)
      /\ th' = [th EXCEPT ![t] = r]
  BY DEF CountNode, At
<1>2. num_outstanding_ops' = num_outstanding_ops - 1 + left
  BY DEF CountNode
<1>3. /\ pool' = pool /\ asyncs' = asyncs /\ num_deferred_ops' = num_deferred_ops
      /\ finish_when_deferred_ops_done' = finish_when_deferred_ops_done
      /\ deleted' = deleted /\ done_calls' = done_calls
  BY DEF CountNode, deferral, ending
<1>4. Turn(t) /\ th'[t] = r
  BY <1>0, <1>1, TurnIs, Zenon
<1>5. /\ r0 \in ThreadStates /\ r0.inline_ready = th[t].inline_ready /\ r0.ready = th[t].ready
      /\ r0.failed = th[t].failed /\ r0.callback = th[t].callback /\ r0.completed = Completed(t)
  <2>1. Completed(t) \in BOOLEAN
    BY DEF Completed
  <2> QED
    BY <1>0, <2>1 DEF ThreadStates
<1> HIDE DEF r0
<1>6. Own(th[t]) = Len(th[t].inline_ready) + 1 /\ Len(th[t].inline_ready) \in Nat /\ Len(th[t].ready) \in Nat
  BY <1>0, <1>1, OwnIs DEF Counted
<1>7. num_outstanding_ops \in Nat \ {0} /\ ~ finish_when_deferred_ops_done /\ done_calls = <<>> /\ ~ deleted
      /\ \A u \in Threads : ~ Ends(th[u])
  <2>1. Own(th[t]) >= 1
    BY <1>6
  <2> QED
    BY <2>1, NotEnding DEF Before
<1>8. /\ ~ th[t].failed => r.pc = "schedule_ready" /\ r.inline_ready = th[t].inline_ready /\ r.ready = th[t].ready
                           /\ r.completed = Completed(t)
      /\ th[t].failed => r.pc \in {"loop", "schedule_finish", "idle"} /\ r.inline_ready = th[t].inline_ready
      /\ r.pc # "finish" /\ (Ends(r) => Completed(t))
  <2>1. CASE ~ th[t].failed
    <3>1. r = [r0 EXCEPT !.pc = "schedule_ready"]
      BY <2>1
    <3> HIDE DEF r
    <3>2. r.pc = "schedule_ready" /\ r.inline_ready = th[t].inline_ready /\ r.ready = th[t].ready
          /\ r.completed = Completed(t)
      BY <1>5, <3>1 DEF ThreadStates
    <3> QED
      BY <2>1, <3>2 DEF Ends
  <2>2. CASE th[t].failed
    <3>1. r = Resume(r0)
      BY <2>2
    <3>2. th[t].callback => th[t].inline_ready = <<>>
      BY <1>0 DEF ThreadOK
    <3> HIDE DEF r
    <3>3. CASE r0.callback /\ ~ r0.completed
      <4>1. r = Idle
        BY <1>5, <3>1, <3>3, ResumeIs
      <4> QED
        BY <1>5, <2>2, <3>2, <3>3, <4>1, IdleIs DEF Ends
    <3>4. CASE r0.callback /\ r0.completed
      <4>1. r.pc = "schedule_finish" /\ r.inline_ready = <<>>
        BY <1>5, <3>1, <3>4, ResumeIs
      <4> QED
        BY <1>5, <2>2, <3>2, <3>4, <4>1
    <3>5. CASE ~ r0.callback
      <4>1. r.pc = "loop" /\ r.inline_ready = r0.inline_ready /\ r.completed = r0.completed
        BY <1>5, <3>1, <3>5, ResumeIs
      <4> QED
        BY <1>5, <2>2, <4>1 DEF Ends
    <3> QED
      BY <3>3, <3>4, <3>5
  <2> QED
    BY <2>1, <2>2
<1> HIDE DEF r
<1>9. left \in Nat /\ Own(th'[t]) = Len(th[t].inline_ready) + left
  <2>1. CASE th[t].failed
    <3>1. left = 0
      BY <2>1 DEF LeavesNothing
    <3>2. Own(th'[t]) = Len(th[t].inline_ready)
      BY <1>0, <1>4, <1>8, <2>1, OwnIs
    <3> DEFINE a == Len(th[t].inline_ready)
    <3>3. a + 0 = a /\ Own(th'[t]) = a
      BY <1>6, <3>2
    <3> HIDE DEF a, left
    <3>4. left \in Nat /\ Own(th'[t]) = a + left
      BY <3>1, <3>3
    <3> QED
      BY <3>4 DEF a
  <2>2. CASE ~ th[t].failed
    <3>1. left = Len(th[t].ready)
      BY <2>2 DEF LeavesNothing
    <3>2. Own(th'[t]) = Len(th[t].inline_ready) + Len(th[t].ready)
      BY <1>0, <1>4, <1>8, <2>2, OwnIs
    <3> QED
      BY <1>6, <3>1, <3>2
  <2> QED
    BY <2>1, <2>2
<1>10. Accounts(t)
  <2> HIDE DEF left
  <2>1. Total(pool) \in Nat /\ Total(asyncs) \in Nat
    BY <1>0, TotalsAre
  <2>2. Total(pool') = Total(pool) /\ Total(asyncs') = Total(asyncs)
    BY <1>3
  <2> DEFINE a == Len(th[t].inline_ready)
  <2>3. a \in Nat /\ Own(th[t]) = a + 1 /\ Own(th'[t]) = a + left
    BY <1>6, <1>9
  <2> HIDE DEF a
  <2>4. num_outstanding_ops \in Nat /\ left \in Nat /\ num_outstanding_ops' = num_outstanding_ops - 1 + left
    BY <1>2, <1>7, <1>9
  <2>5. Own(th'[t]) - Own(th[t]) = left - 1
    BY <2>3, <2>4
  <2>6. (Total(pool') - Total(pool)) + (Total(asyncs') - Total(asyncs)) = 0
    BY <2>1, <2>2
  <2> QED
    BY <2>1, <2>2, <2>3, <2>4, <2>5, <2>6 DEF Accounts
<1>11. num_deferred_ops' \in Nat /\ finish_when_deferred_ops_done' = FALSE
  BY <1>0, <1>3, <1>7 DEF EndsOnce
<1>12. EndsOnce'
  <2>1. CASE Completed(t)
    <3>1. num_outstanding_ops' = 0
      <4>1. left = 0 /\ num_outstanding_ops = 1
        BY <2>1 DEF Completed
      <4> QED
        BY <1>2, <4>1
    <3>2. ~ Deferred'
      BY <1>11 DEF Deferred
    <3> QED
      BY <1>0, <1>3, <1>4, <1>7, <1>8, <1>11, <3>1, <3>2, OneEnds
  <2>2. CASE ~ Completed(t)
    BY <1>0, <1>3, <1>4, <1>7, <1>8, <1>11, <2>2, NoneEnds
  <2> QED
    BY <2>1, <2>2
<1> QED
  BY <1>4, <1>10, <1>12 DEF Closes

\* ScheduleReady keeps the ledger.
LEMMA ScheduleReadyCloses ==
    ASSUME NEW t, Before(t), ScheduleReady(t)
    PROVE  Closes(t)
<1>0. /\ t \in Threads /\ Typing /\ EndsOnce /\ th[t] \in ThreadStates /\ th'[t] \in ThreadStates
      /\ ThreadOK(th[t], status) /\ BagOver(pool) /\ th[t].inline_ready \in Seq(Tagged) /\ th[t].ready \in Seq(Tagged)
  BY DEF Before, Typing, ThreadStates
<1> DEFINE D0(not_sleep_thread) ==
              IF th[t].callback \/ ~ not_sleep_thread
              THEN [inline |-> th[t].inline_ready, given |-> th[t].ready]
              ELSE Dispatch(th[t].inline_ready, th[t].ready)
<1>1. PICK s \in BOOLEAN :
         /\ pool' = Given(D0(s).given)
         /\ th' = [th EXCEPT ![t] = Resume([th[t] EXCEPT !.inline_ready = D0(s).inline])]
  BY Zenon DEF ScheduleReady
<1> DEFINE d == D0(s)
           r0 == [th[t] EXCEPT !.inline_ready = d.inline]
           r == Resume(r0)
<1>2. /\ th[t].pc = "schedule_ready" /\ (th[t].callback => th[t].inline_ready = <<>>)
      /\ asyncs' = asyncs /\ num_outstanding_ops' = num_outstanding_ops
  BY <1>0 DEF ScheduleReady, At, ThreadOK
<1>3. /\ d.inline \in Seq(Tagged) /\ d.given \in Seq(Tagged)
      /\ Len(d.inline) + Len(d.given) = Len(th[t].inline_ready) + Len(th[t].ready)
      /\ th[t].callback => d.inline = <<>>
  <2>1. CASE th[t].callback \/ ~ s
    <3>1. d = [inline |-> th[t].inline_ready, given |-> th[t].ready]
      BY <2>1
    <3> HIDE DEF d
    <3> QED
      BY <1>0, <1>2, <3>1
  <2>2. CASE ~ (th[t].callback \/ ~ s)
    <3>1. d = Dispatch(th[t].inline_ready, th[t].ready)
      BY <2>2
    <3> HIDE DEF d
    <3> QED
      BY <1>0, <2>2, <3>1, DispatchLength
  <2> QED
    BY <2>1, <2>2
<1>4. th' = [th EXCEPT ![t] = r] /\ pool' = Given(d.given)
  BY <1>1
<1> HIDE DEF d
<1>5. /\ r0 \in ThreadStates /\ r0.inline_ready = d.inline /\ r0.callback = th[t].callback
      /\ r0.completed = th[t].completed
  BY <1>0, <1>3 DEF ThreadStates
<1> HIDE DEF r0
<1>6. Turn(t) /\ th'[t] = r
  BY <1>0, <1>4, TurnIs, Zenon
<1>7. /\ r.pc \in {"loop", "schedule_finish", "idle"} /\ r.inline_ready = d.inline
      /\ Ends(r) => th[t].completed
  <2>1. CASE r0.callback /\ ~ r0.completed
    <3>1. r = Idle
      BY <1>5, <2>1, ResumeIs
    <3> HIDE DEF r
    <3> QED
      BY <1>3, <1>5, <2>1, <3>1, IdleIs DEF Ends
  <2>2. CASE r0.callback /\ r0.completed
    <3>1. r.pc = "schedule_finish" /\ r.inline_ready = <<>>
      BY <1>5, <2>2, ResumeIs
    <3> HIDE DEF r
    <3> QED
      BY <1>3, <1>5, <2>2, <3>1
  <2>3. CASE ~ r0.callback
    <3>1. r.pc = "loop" /\ r.inline_ready = r0.inline_ready /\ r.completed = r0.completed
      BY <1>5, <2>3, ResumeIs
    <3> HIDE DEF r
    <3> QED
      BY <1>5, <3>1 DEF Ends
  <2> QED
    BY <2>1, <2>2, <2>3
<1> HIDE DEF r
<1>8. Own(th[t]) = Len(th[t].inline_ready) + Len(th[t].ready) /\ Own(th'[t]) = Len(d.inline)
  BY <1>0, <1>2, <1>6, <1>7, OwnIs
<1>9. Total(pool) \in Nat /\ Total(pool') = Total(pool) + Len(d.given)
  BY <1>0, <1>3, <1>4, TotalGiven
<1>10. Len(d.inline) \in Nat /\ Len(d.given) \in Nat
  BY <1>3, SeqOf
<1>11. num_outstanding_ops \in Nat /\ Total(asyncs) \in Nat /\ Total(asyncs') = Total(asyncs)
  BY <1>0, <1>2, NothingLeft, TotalsAre DEF Before
<1>12. Accounts(t)
  <2> DEFINE a == Len(d.inline)
             g == Len(d.given)
             p == Total(pool)
             q == Total(pool')
             k == Total(asyncs)
             n == num_outstanding_ops
  <2>1. a \in Nat /\ g \in Nat /\ p \in Nat /\ k \in Nat /\ n \in Nat
    BY <1>9, <1>10, <1>11
  <2>2. Own(th[t]) = a + g /\ Own(th'[t]) = a
    BY <1>3, <1>8
  <2>3. q = p + g /\ Total(asyncs') = k /\ num_outstanding_ops' = n
    BY <1>2, <1>9, <1>11
  <2> HIDE DEF a, g, p, q, k, n
  <2>4. n = n + (q - p) + (k - k) + (a - (a + g))
    BY <2>1, <2>3
  <2> QED
    BY <2>2, <2>3, <2>4 DEF Accounts, p, q, k, n
<1>13. EndStays
  BY DEF ScheduleReady, EndStays, deferral, ending
<1>14. EndsOnce'
  BY <1>0, <1>6, <1>7, <1>13, EndsSame DEF Ends
<1> QED
  BY <1>6, <1>12, <1>14 DEF Closes

\* ScheduleFinish keeps the ledger: it leaves the end to a callback that is still to come.
LEMMA ScheduleFinishCloses ==
    ASSUME NEW t, Before(t), ScheduleFinish(t)
    PROVE  Closes(t)
<1>0. t \in Threads /\ Typing /\ EndsOnce /\ th[t] \in ThreadStates /\ th'[t] \in ThreadStates
      /\ ThreadOK(th[t], status) /\ num_deferred_ops \in Nat
  BY DEF Before, Typing, EndsOnce
<1> DEFINE r == IF num_deferred_ops > 0 THEN Idle ELSE [th[t] EXCEPT !.pc = "finish"]
<1>1. th[t].pc = "schedule_finish" /\ th' = [th EXCEPT ![t] = r]
  BY <1>0 DEF ScheduleFinish, At, Goto, Typing
<1>2. Turn(t) /\ th'[t] = r
  BY <1>0, <1>1, TurnIs, Zenon
<1>3. th[t].inline_ready = <<>>
  BY <1>0, <1>1 DEF ThreadOK
<1>4. /\ r.pc \in {"idle", "finish"} /\ r.inline_ready = <<>>
      /\ num_deferred_ops > 0 => ~ Ends(r) /\ r.pc = "idle"
  <2>1. CASE num_deferred_ops > 0
    <3>1. r = Idle
      BY <2>1
    <3> HIDE DEF r
    <3> QED
      BY <2>1, <3>1, IdleIs DEF Ends
  <2>2. CASE ~ (num_deferred_ops > 0)
    <3>1. r = [th[t] EXCEPT !.pc = "finish"]
      BY <2>2
    <3> HIDE DEF r
    <3> QED
      BY <1>0, <1>3, <2>2, <3>1 DEF ThreadStates
  <2> QED
    BY <2>1, <2>2
<1> HIDE DEF r
<1>5. Own(th[t]) = 0 /\ Own(th'[t]) = 0
  <2>1. Own(th[t]) = Len(th[t].inline_ready) /\ Own(th'[t]) = Len(th'[t].inline_ready)
    BY <1>0, <1>1, <1>2, <1>4, OwnIs
  <2> QED
    BY <1>2, <1>3, <1>4, <2>1
<1>6. /\ num_outstanding_ops' = num_outstanding_ops /\ pool' = pool /\ asyncs' = asyncs
      /\ num_deferred_ops' = num_deferred_ops /\ deleted' = deleted /\ done_calls' = done_calls
  BY DEF ScheduleFinish, state, ending
<1>7. Accounts(t)
  <2>1. num_outstanding_ops \in Nat
    BY NothingLeft DEF Before
  <2> QED
    BY <1>0, <1>5, <1>6, <2>1, AccountsSame
<1>8. /\ Ends(th[t]) /\ num_outstanding_ops = 0 /\ done_calls = <<>> /\ ~ Deferred /\ ~ deleted
      /\ \A u \in Threads : u # t => ~ Ends(th[u])
  <2>1. Ends(th[t])
    BY <1>1 DEF Ends
  <2> QED
    BY <1>0, <2>1, Zenon DEF EndsOnce
<1>9. CASE num_deferred_ops > 0
  <2>1. finish_when_deferred_ops_done' = TRUE
    BY <1>9 DEF ScheduleFinish
  <2>2. \A u \in Threads : ~ Ends(th[u])' /\ th'[u].pc # "finish"
    <3>1. \A u \in Threads : ~ Ends(th'[u])
      BY <1>2, <1>4, <1>8, <1>9 DEF Turn
    <3> QED
      BY <3>1 DEF Ends
  <2>3. done_calls' = <<>> /\ ~ deleted' /\ num_outstanding_ops' = 0 /\ num_deferred_ops' \in Nat
    BY <1>0, <1>6, <1>8
  <2>4. Len(done_calls') <= 1 /\ done_calls' \in Seq(BOOLEAN)
    BY <2>3
  <2>5. EndsOnce'
    BY <2>1, <2>2, <2>3, <2>4, Zenon DEF EndsOnce, At
  <2> QED
    BY <1>2, <1>7, <2>5 DEF Closes
<1>10. CASE ~ (num_deferred_ops > 0)
  <2>1. finish_when_deferred_ops_done' = finish_when_deferred_ops_done
    BY <1>10 DEF ScheduleFinish
  <2>2. num_deferred_ops' = 0
    BY <1>0, <1>6, <1>10
  <2>3. ~ Deferred'
    BY <2>2 DEF Deferred
  <2>4. EndsOnce'
    <3>1. /\ num_outstanding_ops' = 0 /\ num_deferred_ops' \in Nat /\ finish_when_deferred_ops_done' \in BOOLEAN
          /\ done_calls' = <<>> /\ ~ deleted'
      BY <1>0, <1>6, <1>8, <2>1, <2>2 DEF EndsOnce
    <3> QED
      BY <1>0, <1>2, <1>8, <2>2, <2>3, <3>1, OneEnds
  <2> QED
    BY <1>2, <1>7, <2>4 DEF Closes
<1> QED
  BY <1>9, <1>10

\* DecNumDeferredOps keeps the ledger: only the last callback goes on to Finish.
LEMMA DecNumDeferredOpsCloses ==
    ASSUME NEW t, Before(t), DecNumDeferredOps(t)
    PROVE  Closes(t)
<1>0. /\ t \in Threads /\ Typing /\ EndsOnce /\ th[t] \in ThreadStates /\ th'[t] \in ThreadStates
      /\ th \in [Threads -> ThreadStates] /\ num_deferred_ops \in Nat /\ finish_when_deferred_ops_done \in BOOLEAN
  BY DEF Before, Typing, EndsOnce
<1>1. th[t].pc = "idle" /\ th[t] = Idle
  BY DEF DecNumDeferredOps, At, ThreadOK, Before
<1>2. num_deferred_ops > 0 /\ num_deferred_ops # 0 /\ num_deferred_ops' = num_deferred_ops - 1 /\ num_deferred_ops' \in Nat
  BY <1>0 DEF DecNumDeferredOps
<1>3. /\ num_outstanding_ops' = num_outstanding_ops /\ pool' = pool /\ asyncs' = asyncs
      /\ finish_when_deferred_ops_done' = finish_when_deferred_ops_done
      /\ deleted' = deleted /\ done_calls' = done_calls
  BY DEF DecNumDeferredOps, state, ending
<1>4. num_outstanding_ops \in Nat
  BY NothingLeft DEF Before
<1>5. Own(th[t]) = 0
  BY <1>0, <1>1, OwnIs, IdleIs
<1>6. done_calls = <<>> /\ ~ deleted
  BY <1>0, <1>2, Zenon DEF EndsOnce
<1>7. CASE num_deferred_ops = 1 /\ finish_when_deferred_ops_done
  <2> DEFINE r == [Idle EXCEPT !.pc = "finish"]
  <2>1. th' = [th EXCEPT ![t] = r]
    BY <1>0, <1>1, <1>7 DEF DecNumDeferredOps, Goto
  <2>2. Turn(t) /\ th'[t] = r
    BY <1>0, <2>1, TurnIs, Zenon
  <2>3. r.pc = "finish" /\ r.inline_ready = <<>>
    BY DEF Idle
  <2> HIDE DEF r
  <2>4. Own(th'[t]) = 0
    <3>1. Own(th'[t]) = Len(th'[t].inline_ready)
      BY <1>0, <2>2, <2>3, OwnIs
    <3> QED
      BY <2>2, <2>3, <3>1
  <2>5. Accounts(t)
    BY <1>0, <1>3, <1>4, <1>5, <2>4, AccountsSame
  <2>6. Deferred /\ num_outstanding_ops = 0
    BY <1>0, <1>2, <1>7 DEF Deferred, EndsOnce
  <2>7. \A u \in Threads : ~ Ends(th[u])
    BY <1>0, <2>6, Zenon DEF EndsOnce
  <2>8. num_deferred_ops' = 0
    BY <1>2, <1>7
  <2>9. ~ Deferred'
    BY <2>8 DEF Deferred
  <2>10. EndsOnce'
    <3>1. /\ num_outstanding_ops' = 0 /\ finish_when_deferred_ops_done' \in BOOLEAN
          /\ done_calls' = <<>> /\ ~ deleted'
      BY <1>0, <1>3, <1>6, <2>6
    <3> QED
      BY <1>0, <1>2, <2>2, <2>7, <2>8, <2>9, <3>1, OneEnds
  <2> QED
    BY <2>2, <2>5, <2>10 DEF Closes
<1>8. CASE ~ (num_deferred_ops = 1 /\ finish_when_deferred_ops_done)
  <2>1. th' = th
    BY <1>8 DEF DecNumDeferredOps
  <2>2. Turn(t) /\ Own(th'[t]) = Own(th[t])
    BY <2>1 DEF Turn
  <2>3. Accounts(t)
    BY <1>0, <1>3, <1>4, <2>2, AccountsSame
  <2>4. Deferred' => Deferred
    BY <1>0, <1>2, <1>3 DEF Deferred
  <2>5. \A u \in Threads : (Ends(th[u])' <=> Ends(th[u])) /\ th'[u].pc = th[u].pc
    BY <2>1 DEF Ends
  <2>6. \A u \in Threads : th[u].pc # "finish"
    BY <1>0, <1>2, Zenon DEF EndsOnce, At
  <2>7. EndsOnce'
    BY <1>0, <1>2, <1>3, <1>6, <2>4, <2>5, <2>6, Zenon DEF EndsOnce, At
  <2> QED
    BY <2>2, <2>3, <2>7 DEF Closes
<1> QED
  BY <1>7, <1>8

\* Finish keeps the ledger: it is called once.
LEMMA FinishCloses ==
    ASSUME NEW t, Before(t), Finish(t)
    PROVE  Closes(t)
<1>0. /\ t \in Threads /\ Typing /\ EndsOnce /\ th[t] \in ThreadStates /\ th'[t] \in ThreadStates
      /\ ThreadOK(th[t], status)
  BY DEF Before, Typing
<1>1. th[t].pc = "finish" /\ th' = [th EXCEPT ![t] = Idle] /\ deleted' = TRUE
  BY DEF Finish, At
<1>2. PICK ok \in BOOLEAN : done_calls' = Append(done_calls, status /\ ok)
  BY DEF Finish
<1>3. /\ num_outstanding_ops' = num_outstanding_ops /\ pool' = pool /\ asyncs' = asyncs
      /\ num_deferred_ops' = num_deferred_ops /\ finish_when_deferred_ops_done' = finish_when_deferred_ops_done
  BY DEF Finish, state, deferral
<1>4. Turn(t) /\ th'[t] = Idle
  BY <1>0, <1>1, TurnIs, Zenon
<1>5. Own(th[t]) = 0 /\ Own(th'[t]) = 0
  <2>1. th[t].inline_ready = <<>>
    BY <1>0, <1>1 DEF ThreadOK
  <2>2. Own(th[t]) = Len(th[t].inline_ready) /\ Own(th'[t]) = Len(th'[t].inline_ready)
    BY <1>0, <1>1, <1>4, OwnIs, IdleIs
  <2> QED
    BY <1>4, <2>1, <2>2, IdleIs
<1>6. Accounts(t)
  <2>1. num_outstanding_ops \in Nat
    BY NothingLeft DEF Before
  <2> QED
    BY <1>0, <1>3, <1>5, <2>1, AccountsSame
<1>7. Ends(th[t])
  BY <1>1 DEF Ends
<1>8. /\ num_outstanding_ops = 0 /\ done_calls = <<>> /\ num_deferred_ops = 0
      /\ finish_when_deferred_ops_done \in BOOLEAN
      /\ \A u \in Threads : u # t => ~ Ends(th[u])
  BY <1>0, <1>1, <1>7, Zenon DEF EndsOnce, At
<1>9. \A u \in Threads : ~ Ends(th[u])' /\ th'[u].pc # "finish"
  <2>1. \A u \in Threads : ~ Ends(th'[u])
    BY <1>4, <1>8, IdleIs DEF Turn, Ends
  <2> QED
    BY <2>1 DEF Ends
<1>10. done_calls' # <<>> /\ Len(done_calls') <= 1 /\ done_calls' \in Seq(BOOLEAN)
  <2>1. (status /\ ok) \in BOOLEAN
    OBVIOUS
  <2> DEFINE b == status /\ ok
  <2> HIDE DEF b
  <2>2. Append(<<>>, b) # <<>> /\ Len(Append(<<>>, b)) = 1 /\ (b \in BOOLEAN => Append(<<>>, b) \in Seq(BOOLEAN))
    OBVIOUS
  <2> QED
    BY <1>2, <1>8, <2>1, <2>2 DEF b
<1>11. num_deferred_ops' = 0 /\ num_deferred_ops' \in Nat /\ num_outstanding_ops' = 0
       /\ finish_when_deferred_ops_done' \in BOOLEAN
  BY <1>3, <1>8
<1>12. ~ Deferred'
  BY <1>11 DEF Deferred
<1>13. EndsOnce'
  BY <1>1, <1>9, <1>10, <1>11, <1>12, Zenon DEF EndsOnce, At
<1> QED
  BY <1>4, <1>6, <1>13 DEF Closes

-----------------------------------------------------------------------------
(* The count is exact, and the step ends once.                             *)

\* A step does not change what is run.
LEMMA SameRun ==
    ASSUME Next
    PROVE  graph' = graph /\ inter_threadpool' = inter_threadpool
<1>1. PICK t \in Threads : Take(t) \/ AsyncDone(t) \/ DecNumDeferredOps(t) \/ Step(t)
  BY DEF Next
<1>2. UNCHANGED run
  <2>1. CASE WithNode(t)
    BY <2>1, Zenon DEF WithNode, Propagate, FindChildFrame, CreateChildFrame, PropagateEnter, Decrement,
       DeleteFrame, EraseFrame, CleanupFramesIterations, NodeFailed, StartAbort
  <2>2. CASE Take(t) \/ AsyncDone(t) \/ DecNumDeferredOps(t)
    BY <2>2, Zenon DEF Take, AsyncDone, DecNumDeferredOps
  <2>3. CASE Process(t) \/ Leave(t) \/ CountNode(t) \/ ScheduleReady(t) \/ ScheduleFinish(t) \/ Finish(t)
    BY <2>3, Zenon DEF Process, Leave, CountNode, ScheduleReady, ScheduleFinish, Finish
  <2> QED
    BY <1>1, <2>1, <2>2, <2>3 DEF Step, WithNode
<1> QED
  BY <1>2 DEF run

Ledger == CountExact /\ EndsOnce

\* Every step keeps the ledger.
LEMMA LedgerKept ==
    ASSUME Sane, Sane', Ledger, Next
    PROVE  Ledger'
<1>1. PICK t \in Threads : Take(t) \/ AsyncDone(t) \/ DecNumDeferredOps(t) \/ Step(t)
  BY DEF Next
<1>2. Typing
  BY SameRun, TypingIs
<1>3. Before(t)
  BY <1>2, SaneParts DEF Before, Ledger
<1>4. Closes(t)
  <2>1. CASE WithNode(t)
    BY <1>3, <2>1, NodeCloses
  <2>2. CASE Take(t)
    BY <1>3, <2>2, TakeCloses
  <2>3. CASE AsyncDone(t)
    BY <1>3, <2>3, AsyncDoneCloses
  <2>4. CASE DecNumDeferredOps(t)
    BY <1>3, <2>4, DecNumDeferredOpsCloses
  <2>5. CASE Process(t)
    BY <1>3, <2>5, ProcessCloses
  <2>6. CASE Leave(t)
    BY <1>3, <2>6, LeaveCloses
  <2>7. CASE CountNode(t)
    BY <1>3, <2>7, CountNodeCloses
  <2>8. CASE ScheduleReady(t)
    BY <1>3, <2>8, ScheduleReadyCloses
  <2>9. CASE ScheduleFinish(t)
    BY <1>3, <2>9, ScheduleFinishCloses
  <2>10. CASE Finish(t)
    BY <1>3, <2>10, FinishCloses
  <2> QED
    BY <1>1, <2>1, <2>2, <2>3, <2>4, <2>5, <2>6, <2>7, <2>8, <2>9, <2>10 DEF Step, WithNode
<1>5. CountExact'
  BY <1>2, <1>3, <1>4, TurnCounts DEF Closes, Accounts, Before
<1> QED
  BY <1>4, <1>5 DEF Ledger, Closes

\* A step that changes nothing keeps the ledger.
LEMMA LedgerStutters ==
    ASSUME Ledger, UNCHANGED vars
    PROVE  Ledger'
<1>1. /\ th' = th /\ pool' = pool /\ asyncs' = asyncs /\ num_outstanding_ops' = num_outstanding_ops
      /\ num_deferred_ops' = num_deferred_ops /\ finish_when_deferred_ops_done' = finish_when_deferred_ops_done
      /\ deleted' = deleted /\ done_calls' = done_calls
  BY DEF vars, state, deferral, ending
<1>2. CountExact'
  BY <1>1 DEF Ledger, CountExact, At, Total, Units
<1>3. EndsOnce'
  <2>1. (Deferred' <=> Deferred) /\ \A u \in Threads : (Ends(th[u])' <=> Ends(th[u])) /\ th'[u].pc = th[u].pc
    BY <1>1 DEF Deferred, Ends
  <2> QED
    BY <1>1, <2>1, Zenon DEF Ledger, EndsOnce, At
<1> QED
  BY <1>2, <1>3 DEF Ledger

\* The ledger at the start: the roots are in the pool.
LEMMA InitLedger ==
    ASSUME Init
    PROVE  Ledger
<1>1. GraphOK
  BY InitGraph
<1>2. /\ pool = SetToBag(Started) /\ asyncs = SetToBag({}) /\ th = [t \in Threads |-> Idle]
      /\ num_outstanding_ops = Cardinality(graph.roots) /\ num_deferred_ops = 0
      /\ finish_when_deferred_ops_done = FALSE /\ deleted = FALSE /\ done_calls = <<>>
  BY DEF Init, Started, EmptyBag
<1>3. Total(pool) = Cardinality(graph.roots) /\ Total(pool) \in Nat
  <2>1. /\ Started \in SUBSET Tagged /\ IsFiniteSet(Started)
        /\ Cardinality(Started) = Cardinality(graph.roots) /\ Cardinality(graph.roots) \in Nat
    BY <1>1, StartedIs
  <2>2. /\ BagOver(pool) /\ DOMAIN pool = Started /\ Copies(pool, Tagged) = Cardinality(Started \cap Tagged)
    BY <1>2, <2>1, BagOfSet
  <2>3. Copies(pool, Tagged) = Total(pool)
    BY <2>1, <2>2, CopiesAll
  <2>4. Started \cap Tagged = Started
    BY <2>1
  <2> QED
    BY <2>1, <2>2, <2>3, <2>4
<1>4. Total(asyncs) = 0
  <2>1. IsFiniteSet({}) /\ Cardinality({} \cap Tagged) = 0 /\ {} \in SUBSET Tagged
    BY FS_EmptySet
  <2>2. /\ BagOver(asyncs) /\ DOMAIN asyncs = {} /\ Copies(asyncs, Tagged) = 0
    BY <1>2, <2>1, BagOfSet
  <2> QED
    BY <2>2, CopiesAll
<1>5. Total([t \in Threads |-> Own(th[t])]) = 0
  <2> DEFINE f == [t \in Threads |-> Own(th[t])]
  <2>1. Own(Idle) = 0
    BY OwnIs, IdleIs
  <2>2. \A t \in Threads : f[t] = 0
    BY <1>2, <2>1
  <2>3. f \in [Threads -> Int]
    BY <2>2
  <2> HIDE DEF f
  <2>4. Total(f) = 0
    BY <2>2, <2>3, TotalZero
  <2> QED
    BY <2>4 DEF f
<1>6. CountExact
  <2>1. CountExact <=> num_outstanding_ops = Total(pool) + Total(asyncs) + Total([t \in Threads |-> Own(th[t])])
    BY DEF CountExact, Own, At
  <2>2. num_outstanding_ops = Total(pool) + 0 + 0
    BY <1>2, <1>3
  <2> QED
    BY <1>4, <1>5, <2>1, <2>2
<1>7. EndsOnce
  <2>1. \A t \in Threads : ~ Ends(th[t]) /\ th[t].pc # "finish"
    BY <1>2, IdleIs DEF Ends
  <2>2. ~ Deferred
    BY <1>2 DEF Deferred
  <2>3. 0 \in Nat /\ Len(<<>>) <= 1 /\ <<>> \in Seq(BOOLEAN)
    OBVIOUS
  <2> QED
    BY <1>2, <2>1, <2>2, <2>3, Zenon DEF EndsOnce, At
<1> QED
  BY <1>6, <1>7 DEF Ledger

\* A step whose count is zero has no node left, in a queue or with a thread.
LEMMA LedgerNothing ==
    ASSUME Sane, Ledger, num_outstanding_ops = 0
    PROVE  /\ Waiting = {} /\ Working = {}
           /\ \A t \in Threads : /\ th[t].inline_ready = <<>> /\ th[t].pc \notin Counted
                                 /\ th[t].pc = "schedule_ready" => th[t].ready = <<>>
<1>1. Typed /\ CountExact
  BY DEF Sane, Ledger
<1>2. Total(pool) = 0 /\ Total(asyncs) = 0 /\ \A t \in Threads : Own(th[t]) = 0
  BY <1>1, NothingLeft
<1>3. ASSUME NEW b, BagOver(b), Total(b) = 0 PROVE BagToSet(b) = {}
  <2>1. DOMAIN b \in SUBSET Tagged
    BY <1>3 DEF BagOver
  <2>2. Copies(b, Tagged) = 0
    BY <1>3, <2>1, CopiesAll
  <2>3. \A x \in DOMAIN b : x \notin Tagged
    BY <1>3, <2>2, CopiesIs
  <2> QED
    BY <2>1, <2>3 DEF BagToSet
<1>4. BagToSet(pool) = {} /\ BagToSet(asyncs) = {}
  BY <1>1, <1>2, <1>3, TypedParts
<1>5. ASSUME NEW t \in Threads
      PROVE  /\ th[t].inline_ready = <<>> /\ th[t].pc \notin Counted
             /\ th[t].pc = "schedule_ready" => th[t].ready = <<>>
  <2>1. th[t] \in ThreadStates
    BY <1>1, TypedParts
  <2>2. th[t].inline_ready \in Seq(Tagged) /\ th[t].ready \in Seq(Tagged) /\ th[t].pc \in Places
    BY <2>1 DEF ThreadStates
  <2>3. /\ Len(th[t].inline_ready) \in Nat /\ Len(th[t].ready) \in Nat
        /\ th[t].inline_ready # <<>> => Len(th[t].inline_ready) > 0
        /\ th[t].ready # <<>> => Len(th[t].ready) > 0
    BY <2>2, SeqOf
  <2>4. Own(th[t]) = 0
    BY <1>2
  <2>5. CASE th[t].pc \in Counted
    <3>1. Own(th[t]) = Len(th[t].inline_ready) + 1
      BY <2>1, <2>5, OwnIs
    <3> DEFINE a == Len(th[t].inline_ready)
    <3>2. a \in Nat /\ a + 1 = 0
      BY <2>3, <2>4, <3>1
    <3> HIDE DEF a
    <3> QED
      BY <3>2
  <2>6. CASE th[t].pc = "schedule_ready"
    <3>1. Own(th[t]) = Len(th[t].inline_ready) + Len(th[t].ready)
      BY <2>1, <2>6, OwnIs
    <3> DEFINE a == Len(th[t].inline_ready)
               b == Len(th[t].ready)
    <3>2. /\ a \in Nat /\ b \in Nat /\ a + b = 0 /\ (th[t].inline_ready # <<>> => a > 0)
          /\ (th[t].ready # <<>> => b > 0)
      BY <2>3, <2>4, <3>1
    <3> HIDE DEF a, b
    <3>3. a = 0 /\ b = 0
      BY <3>2
    <3>4. th[t].inline_ready = <<>> /\ th[t].ready = <<>>
      BY <3>2, <3>3
    <3> QED
      BY <2>6, <3>4 DEF Counted
  <2>7. CASE th[t].pc \in {"idle", "loop", "schedule_finish", "finish"}
    <3>1. Own(th[t]) = Len(th[t].inline_ready)
      BY <2>1, <2>7, OwnIs
    <3> QED
      BY <2>3, <2>4, <2>7, <3>1 DEF Counted
  <2> QED
    BY <2>2, <2>5, <2>6, <2>7 DEF Places
<1>6. ASSUME NEW t \in Threads PROVE Elements(th[t].inline_ready) = {} /\ Elements(Ready(t)) = {}
  <2>1. Elements(<<>>) = {}
    BY DEF Elements
  <2>2. Ready(t) = <<>>
    BY <1>5 DEF Ready
  <2> QED
    BY <1>5, <2>1, <2>2
<1>7. Waiting = {}
  BY <1>4, <1>6 DEF Waiting
<1>8. Working = {}
  BY <1>5 DEF Working, InFrame, Counted
<1> QED
  BY <1>5, <1>7, <1>8

\* The ledger says that done_cb_ is called once, at the end.
LEMMA LedgerFinish ==
    ASSUME Sane, Ledger
    PROVE  FinishOnce
<1>1. Len(done_calls) <= 1 /\ (done_calls # <<>> => num_outstanding_ops = 0 /\ num_deferred_ops = 0)
  BY DEF Ledger, EndsOnce
<1> QED
  BY <1>1, LedgerNothing DEF FinishOnce

\* The ledger says what is still done with a step that was deleted.
LEMMA LedgerOnlyEntry ==
    ASSUME Sane, Ledger
    PROVE  OnlyEntryAfterDelete
<1> SUFFICES ASSUME deleted, NEW t \in Threads, UsesStep(t)
             PROVE  EntersForNothing(t)
  BY DEF OnlyEntryAfterDelete
<1>1. done_calls # <<>> /\ num_outstanding_ops = 0 /\ ~ Ends(th[t])
  BY Zenon DEF Ledger, EndsOnce
<1>2. /\ th[t].inline_ready = <<>> /\ th[t].pc \notin Counted
      /\ th[t].pc = "schedule_ready" => th[t].ready = <<>>
  BY <1>1, LedgerNothing
<1>3. th[t].pc \in Places
  BY SaneParts DEF ThreadStates
<1>4. th[t].pc \in {"idle", "loop", "schedule_ready"} /\ ~ th[t].completed
  BY <1>1, <1>2, <1>3 DEF Places, Ends
<1> QED
  BY <1>2, <1>4 DEF UsesStep, EntersForNothing, At

\* The count of the nodes of the step, and its end, hold together in every state.
THEOREM LedgerAlways == Spec => []Ledger
<1>1. Init => Ledger
  BY InitLedger
<1>2. Sane /\ Sane' /\ Ledger /\ [Next]_vars => Ledger'
  BY LedgerKept, LedgerStutters
<1> QED
  BY <1>1, <1>2, SaneAlways, PTL DEF Spec

\* num_outstanding_ops is the number of nodes that are queued, that run, or that a
\* thread has not yet handed on.
THEOREM CountExactAlways == Spec => []CountExact
<1>1. Ledger => CountExact
  BY DEF Ledger
<1> QED
  BY <1>1, LedgerAlways, PTL

\* done_cb_ is called at most once, and when nothing of the step is left.
THEOREM FinishOnceAlways == Spec => []FinishOnce
<1> QED
  BY SaneAlways, LedgerAlways, LedgerFinish, PTL

\* When Finish has deleted the step, threads only enter ScheduleReady with nothing ready,
\* and use the step no more: with the malleable pool or without.
THEOREM OnlyEntryAfterDeleteAlways == Spec => []OnlyEntryAfterDelete
<1> QED
  BY SaneAlways, LedgerAlways, LedgerOnlyEntry, PTL

\* No counter goes below zero.
CountersNatural ==
    /\ num_outstanding_ops \in Nat /\ num_deferred_ops \in Nat
    /\ \A f \in DOMAIN frames :
         /\ frames[f].num_pending_inputs \in Nat
         /\ frames[f].iteration_count \in Nat /\ frames[f].num_outstanding_iterations \in Nat
         /\ \A k \in IterationStates(frames[f]) :
              /\ frames[f].iterations[k].outstanding_ops \in Nat
              /\ frames[f].iterations[k].outstanding_frame_count \in Nat

\* The counts of an iteration are at least the numbers of what they count.
LEMMA IterationNatural ==
    ASSUME Sane, NEW f \in DOMAIN frames, NEW k \in IterationStates(frames[f])
    PROVE  /\ frames[f].iterations[k].outstanding_ops \in Nat
           /\ frames[f].iterations[k].outstanding_frame_count \in Nat
<1> DEFINE is == frames[f].iterations[k]
           nodes == NodesIn(f, is.iter)
<1>1. is.iter \in Nat /\ GetIteration(frames[f], is.iter) = is /\ Living(frames[f], is.iter)
  BY PlaceIs
<1>2. GraphOK /\ Typed /\ f \in Paths /\ FramesTyped(frames)
  BY TypedParts, TypedFrames DEF Sane
<1>3. OpsIn(frames[f], is.iter) \in Int /\ SubIn(frames[f], is.iter) \in Int
  BY <1>1, <1>2, OpsNumbers
<1>4. is.outstanding_ops \in Int /\ is.outstanding_frame_count \in Int
  BY <1>1, <1>3 DEF OpsIn, SubIn
<1>5. Outstanding(nodes, InFrame) \in Nat
  BY <1>2, TypedParts, OutIs, OutNow
<1>6. /\ Cardinality(Kids(f, is.iter)) \in Nat /\ Cardinality(Told(f, is.iter)) \in Nat
  BY <1>2, KidsFinite
<1>7. OpsOf(f, is.iter) = is.outstanding_ops /\ SubOf(f, is.iter) = is.outstanding_frame_count
  BY <1>1 DEF OpsOf, SubOf, OpsIn, SubIn
<1>8. Outstanding(nodes, InFrame) <= is.outstanding_ops
  BY <1>1, <1>2, <1>7 DEF Sane, OpsCover
<1>9. Cardinality(Kids(f, is.iter)) + Cardinality(Told(f, is.iter)) <= is.outstanding_frame_count
  BY <1>1, <1>2, <1>7 DEF Sane, SubCover
<1> HIDE DEF is, nodes
<1>10. is.outstanding_ops \in Nat
  BY <1>4, <1>5, <1>8
<1>11. is.outstanding_frame_count \in Nat
  BY <1>4, <1>6, <1>9
<1> QED
  BY <1>10, <1>11 DEF is

\* Every counter is what it counts, or more.
LEMMA SaneNatural ==
    ASSUME Sane, Ledger
    PROVE  CountersNatural
<1>1. GraphOK /\ Typed /\ InputsCount
  BY DEF Sane
<1>2. Total(pool) \in Nat /\ Total(asyncs) \in Nat /\ Total([t \in Threads |-> Own(th[t])]) \in Nat
  BY <1>1, TypedParts, SumsAre
<1>3. num_outstanding_ops = Total(pool) + Total(asyncs) + Total([t \in Threads |-> Own(th[t])])
  BY DEF Ledger, CountExact, Own, At
<1>4. num_outstanding_ops \in Nat
  BY <1>2, <1>3
<1>5. num_deferred_ops \in Nat
  BY DEF Ledger, EndsOnce
<1>6. ASSUME NEW f \in DOMAIN frames
      PROVE  /\ frames[f].num_pending_inputs \in Nat
             /\ frames[f].iteration_count \in Nat /\ frames[f].num_outstanding_iterations \in Nat
  <2>1. frames[f] \in FrameStates(f)
    BY <1>1, TypedParts DEF FrameOK
  <2>2. frames[f].iteration_count \in Nat /\ frames[f].num_outstanding_iterations \in Nat
    BY <2>1, FrameFields
  <2>3. Cardinality(Unfired(f)) \in Nat
    BY <1>1, UnfiredIs
  <2> QED
    BY <1>1, <2>2, <2>3 DEF InputsCount
<1> QED
  BY <1>4, <1>5, <1>6, IterationNatural DEF CountersNatural

\* Whatever fails or ends early, no counter of the step, of a frame or of an iteration is
\* lowered more often than it was raised.
THEOREM CountersNaturalAlways == Spec => []CountersNatural
<1> QED
  BY SaneAlways, LedgerAlways, SaneNatural, PTL
=============================================================================
