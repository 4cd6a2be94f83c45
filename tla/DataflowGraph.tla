--------------------------- MODULE DataflowGraph ---------------------------
(* The graph an executor runs, as ExecutorImpl::Initialize prepares it: the *)
(* kind of every node, its output edges and the frame it belongs to.        *)
(*                                                                          *)
(* An edge is [to, slot, at]: output slot of its source, node and input slot*)
(* it leads to.  Slot Control is the one of control edges.                  *)
EXTENDS Integers, Sequences, FiniteSets

VARIABLE graph

Control == -1
Root == ""

Kinds == {"op", "switch", "merge", "enter", "const_enter", "exit", "next_iteration",
          "control_trigger", "transfer", "sink"}

Nodes(g) == DOMAIN g.kind
EdgesTo(g, n) == UNION {{<<m, k>> : k \in {j \in DOMAIN g.out[m] : g.out[m][j].to = n}} : m \in Nodes(g)}
IsControl(g, e) == g.out[e[1]][e[2]].slot = Control
IsEnterNode(g, n) == g.kind[n] \in {"enter", "const_enter"}

Roots(g) == {n \in Nodes(g) : EdgesTo(g, n) = {}}

\* The nodes that this one leads to and that were not visited, in the order of its edges.
Unvisited(g, n, visited) ==
    LET New(k) == /\ g.out[n][k].to \notin visited
                  /\ \A j \in 1..(k - 1) : g.out[n][j].to # g.out[n][k].to
        edges == SelectSeq([k \in DOMAIN g.out[n] |-> k], New)
    IN  [k \in DOMAIN edges |-> g.out[n][edges[k]].to]

\* Breadth first from the roots: a node gets its frame from the first edge that
\* reaches it.  state.parent is the Enter through which a node was reached.
Visit(g, state) ==
    LET curr == Head(state.ready)
        enter == state.parent[curr]
        frame == CASE IsEnterNode(g, curr) -> g.enters[curr]
                   [] g.kind[curr] = "exit" -> state.frame[enter]
                   [] OTHER -> state.frame[curr]
        parent == CASE IsEnterNode(g, curr) -> curr
                    [] g.kind[curr] = "exit" -> state.parent[enter]
                    [] OTHER -> enter
        new == Unvisited(g, curr, state.visited)
        found == {new[k] : k \in DOMAIN new}
    IN  [ready |-> Tail(state.ready) \o new,
         visited |-> state.visited \union found,
         frame |-> [n \in Nodes(g) |-> IF n \in found THEN frame ELSE state.frame[n]],
         parent |-> [n \in Nodes(g) |-> IF n \in found THEN parent ELSE state.parent[n]]]

\* Each node is visited once.
BuildControlFlowInfo(g) ==
    LET roots == CHOOSE s \in [1..Cardinality(Roots(g)) -> Roots(g)] :
                    {s[k] : k \in DOMAIN s} = Roots(g)
        visit[k \in 0..Cardinality(Nodes(g))] ==
            IF k = 0
            THEN [ready |-> roots, visited |-> Roots(g), frame |-> [n \in Nodes(g) |-> Root],
                  parent |-> [n \in Nodes(g) |-> n]]
            ELSE IF visit[k - 1].ready = <<>> THEN visit[k - 1] ELSE Visit(g, visit[k - 1])
    IN  visit[Cardinality(Nodes(g))].frame

NumInputs(g, n) == Cardinality({e \in EdgesTo(g, n) : ~ IsControl(g, e)})
NumControls(g, n) == Cardinality({e \in EdgesTo(g, n) : IsControl(g, e)})

\* A merge waits for its control edges, two units each, and keeps in the low bit
\* whether it waits for a live input.
GetMaxPendingCounts(g, n) ==
    IF g.kind[n] = "merge" THEN 1 + 2 * NumControls(g, n)
    ELSE NumInputs(g, n) + NumControls(g, n)

\* What does not change while the graph runs is computed once.
Initialize(g) ==
    [kind |-> g.kind, out |-> g.out, enters |-> g.enters, parallel |-> g.parallel,
     trips |-> g.trips, async |-> g.async, expensive |-> g.expensive, fails |-> g.fails,
     never |-> g.never, defers |-> g.defers, no_value |-> g.no_value,
     frame |-> BuildControlFlowInfo(g),
     num_inputs |-> [n \in Nodes(g) |-> NumInputs(g, n)],
     pending |-> [n \in Nodes(g) |-> GetMaxPendingCounts(g, n)],
     in |-> [n \in Nodes(g) |-> {[from |-> e[1], edge |-> g.out[e[1]][e[2]]] : e \in EdgesTo(g, n)}],
     roots |-> Roots(g),
     input_count |-> [f \in DOMAIN g.parallel |->
                        Cardinality({n \in DOMAIN g.enters : g.enters[n] = f})]]

\* What the executor expects of a graph: a loop is entered by Enters from one frame and left
\* by Exits to it, every other edge stays in its frame, and the roots are in the root frame.
Leads(g, n, name) ==
    \A k \in DOMAIN g.out[n] : g.kind[g.out[n][k].to] # "sink" => g.frame[g.out[n][k].to] = name
WellFormed(g) ==
    /\ IsFiniteSet(Nodes(g)) /\ g.kind \in [Nodes(g) -> Kinds]
    /\ g.out \in [Nodes(g) -> Seq([to : Nodes(g), slot : Int, at : Int])]
    /\ g.parallel \in [DOMAIN g.parallel -> Nat \ {0}] /\ Root \notin DOMAIN g.parallel
    /\ g.enters \in [{n \in Nodes(g) : IsEnterNode(g, n)} -> DOMAIN g.parallel]
    /\ g.frame \in [Nodes(g) -> DOMAIN g.parallel \union {Root}]
    /\ \A n \in Roots(g) : g.frame[n] = Root
    /\ \A n \in Nodes(g) :
         IF IsEnterNode(g, n) THEN Leads(g, n, g.enters[n])
         ELSE IF g.kind[n] # "exit" THEN Leads(g, n, g.frame[n])
         ELSE /\ g.frame[n] # Root
              /\ \A m \in DOMAIN g.enters : g.enters[m] = g.frame[n] => Leads(g, n, g.frame[m])

Kind(n) == graph.kind[n]
NodesOf(f) == {n \in DOMAIN graph.kind : graph.frame[n] = f}
IsEnter(n) == Kind(n) \in {"enter", "const_enter"}

\* A frame is the path to it: the iterations and Enters crossed.  The name that
\* MakeFrameName builds from its parent's is as unique.
MakeFrameName(frame, iter, enter_name) == Append(frame, <<iter, enter_name>>)
ParentFrame(frame) == SubSeq(frame, 1, Len(frame) - 1)
ParentIter(frame) == frame[Len(frame)][1]
FrameInfo(frame) == IF frame = <<>> THEN Root ELSE frame[Len(frame)][2]
Parallel(frame) == IF frame = <<>> THEN 1 ELSE graph.parallel[FrameInfo(frame)]

\* The output of a node that has a value when its inputs are live: a switch
\* chooses one, its second one for as many iterations as it makes trips, and a Recv
\* of no_value gets what a dead Send has sent.
HasValue(n, iter, slot) ==
    /\ n \notin graph.no_value
    /\ Kind(n) = "switch" => slot = IF iter < graph.trips[n] THEN 1 ELSE 0
=============================================================================
