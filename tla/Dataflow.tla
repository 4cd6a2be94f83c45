----------------------------- MODULE Dataflow ------------------------------
(* What an executor promises: the nodes of a graph with loops fire as the   *)
(* tokens on their edges allow, each of them once in every iteration of     *)
(* every frame, and a frame closes when nothing in it can fire any more.    *)
(* There are no threads, counters or queues here: what may fire follows     *)
(* from what has fired.                                                     *)
EXTENDS DataflowGraph

VARIABLES fired,   \* the nodes that have fired: [node, frame, iter, dead]
          closed   \* the frames that are done

Fired(n, frame, iter) == {t \in fired : t.node = n /\ t.frame = frame /\ t.iter = iter}
Carries(t, slot) == ~ t.dead /\ (slot = Control \/ HasValue(t.node, t.iter, slot))

\* An iteration is started by the live NextIteration nodes of the one before.
Started(frame, iter) ==
    \/ iter = 0
    \/ \E t \in fired : t.frame = frame /\ t.iter = iter - 1 /\ Kind(t.node) = "next_iteration"
                        /\ ~ t.dead

\* The dead exits of a frame leave it when it closes, for its last iteration.
LastIteration(frame, iter) == Started(frame, iter) /\ ~ Started(frame, iter + 1)

\* The tokens on an edge into (frame, iter): TRUE for a live one.
Tokens(source, slot, frame, iter) ==
    CASE Kind(source) = "enter" ->
            IF iter # 0 THEN {}
            ELSE {Carries(t, slot) : t \in Fired(source, ParentFrame(frame), ParentIter(frame))}
      [] Kind(source) = "const_enter" ->
            {Carries(t, slot) : t \in Fired(source, ParentFrame(frame), ParentIter(frame))}
      [] Kind(source) = "next_iteration" ->
            {Carries(t, slot) : t \in {u \in Fired(source, frame, iter - 1) : ~ u.dead}}
      [] Kind(source) = "exit" ->
            LET inner == MakeFrameName(frame, iter, graph.frame[source])
                exits == {t \in fired : t.node = source /\ t.frame = inner}
            IN  {TRUE : t \in {u \in exits : ~ u.dead}} \union
                {FALSE : t \in {u \in exits : u.dead /\ inner \in closed
                                              /\ LastIteration(inner, u.iter)}}
      [] OTHER -> {Carries(t, slot) : t \in Fired(source, frame, iter)}

Input(e, frame, iter) == Tokens(e.from, e.edge.slot, frame, iter)

\* Whether the node can fire, and dead or live: a merge with the first live input
\* or when all are dead, any other node when all its inputs are there, dead when
\* one of them is.  A control trigger is always live.
MayFire(n, frame, iter, dead) ==
    LET control == {e \in graph.in[n] : e.edge.slot = Control}
        data == graph.in[n] \ control
    IN  /\ Fired(n, frame, iter) = {}
        /\ \A e \in control : Input(e, frame, iter) # {}
        /\ IF Kind(n) = "merge"
           THEN IF dead
                THEN \/ \A e \in data : FALSE \in Input(e, frame, iter)
                     \/ \E e \in data : IsEnter(e.from) /\ FALSE \in Input(e, frame, iter)
                ELSE \E e \in data : TRUE \in Input(e, frame, iter)
           ELSE /\ \A e \in data : Input(e, frame, iter) # {}
                /\ dead = (/\ Kind(n) # "control_trigger"
                           /\ \E e \in graph.in[n] : FALSE \in Input(e, frame, iter))

\* The enters of a frame have fired and nothing in it, or in a frame of it, is left.
Quiet(frame, Frames, Iterations) ==
    /\ \A n \in DOMAIN graph.enters :
         frame # <<>> /\ graph.enters[n] = FrameInfo(frame) =>
            Fired(n, ParentFrame(frame), ParentIter(frame)) # {}
    /\ \A n \in NodesOf(FrameInfo(frame)), i \in Iterations, d \in BOOLEAN :
          Kind(n) # "sink" /\ Started(frame, i) => ~ MayFire(n, frame, i, d)
    /\ \A f \in Frames : f # <<>> /\ ParentFrame(f) = frame => f \in closed

Entered == {MakeFrameName(t.frame, t.iter, graph.enters[t.node]) : t \in {u \in fired : IsEnter(u.node)}}
Reached == {t.iter : t \in fired} \union {t.iter + 1 : t \in fired} \union {0}

Init == fired = {} /\ closed = {}

Fire == \E t \in [node : DOMAIN graph.kind, frame : Entered \union {<<>>}, iter : Reached,
                  dead : BOOLEAN] :
          /\ graph.frame[t.node] = FrameInfo(t.frame)
          /\ t.frame \notin closed
          /\ Started(t.frame, t.iter)
          /\ MayFire(t.node, t.frame, t.iter, t.dead)
          /\ fired' = fired \union {t}
          /\ UNCHANGED closed

Close == \E f \in Entered \union {<<>>} :
           /\ f \notin closed
           /\ Quiet(f, Entered, Reached)
           /\ closed' = closed \union {f}
           /\ UNCHANGED fired

Next == (Fire \/ Close) /\ UNCHANGED graph

Spec == Init /\ [][Next]_<<graph, fired, closed>>
=============================================================================
