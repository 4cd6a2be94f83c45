------------------------ MODULE ExecutorFrameProofs ------------------------
(***************************************************************************)
(* The frames and iterations of the executor: what is counted is there,    *)
(* and the counts are those of the nodes, for every graph, every limit of  *)
(* parallel iterations and any number of threads.                          *)
(***************************************************************************)
EXTENDS ExecutorProperties, FiniteSetTheorems, SequenceTheorems, NaturalsInduction,
        WellFoundedInduction, TLAPS

-----------------------------------------------------------------------------
(* The values of the variables.                                            *)

Names == DOMAIN graph.parallel
Enters == DOMAIN graph.enters

\* Every frame was entered from one of the frame that its Enters are in.
Paths == {p \in Seq(Nat \X Names) :
            \A k \in 1 .. Len(p) : \E m \in Enters :
               graph.enters[m] = p[k][2] /\ graph.frame[m] = FrameInfo(SubSeq(p, 1, k - 1))}

\* A node to run, in a frame of its own name.
Tagged == {x \in [node : DOMAIN graph.kind, frame : Paths, iter : Nat, dead : BOOLEAN] :
             graph.frame[x.node] = FrameInfo(x.frame)}

Into(f) == {n \in DOMAIN graph.kind : Leads(graph, n, FrameInfo(f))}
Outputs(f) == [node : Into(f), iter : Nat, live : SUBSET (0 .. 1)]
Exits(f) == {n \in NodesOf(FrameInfo(f)) : Kind(n) = "exit"}

Iterations(f) ==
    [iter : Nat, outstanding_ops : Int, outstanding_frame_count : Int,
     pending : [NodesOf(FrameInfo(f)) -> Int], dead_count : [NodesOf(FrameInfo(f)) -> Int],
     input_tensors : SUBSET [node : DOMAIN graph.kind, at : Int, from : DOMAIN graph.kind, iter : Nat]]
FrameStates(f) ==
    [max_parallel_iterations : {Parallel(f)}, num_pending_inputs : Int, iteration_count : Nat,
     num_outstanding_iterations : Nat,
     iterations : [0 .. Parallel(f) -> Iterations(f) \union {NoIteration}],
     next_iter_roots : Seq(Outputs(f)), inv_values : Seq(Outputs(f)), dead_exits : Seq(Exits(f))]

Places == Counted \union {"idle", "loop", "schedule_ready", "schedule_finish", "finish"}
ThreadStates == [pc : Places, inline_ready : Seq(Tagged), tagged_node : Tagged \union {NoNode},
                 ready : Seq(Tagged), failed : BOOLEAN, callback : BOOLEAN, completed : BOOLEAN,
                 frame : Paths]
BagOver(b) == IsFiniteSet(DOMAIN b) /\ DOMAIN b \in SUBSET Tagged /\ b \in [DOMAIN b -> Nat \ {0}]

\* What Initialize has made of the graph.
GraphOK ==
    /\ WellFormed(graph) /\ inter_threadpool \in BOOLEAN
    /\ graph.pending \in [DOMAIN graph.kind -> Int]
    /\ graph.roots \in SUBSET DOMAIN graph.kind
    /\ \A n \in graph.roots : graph.frame[n] = Root /\ (n \in Enters => graph.pending[n] = 0)
    /\ \A name \in Names : graph.input_count[name] = Cardinality({n \in Enters : graph.enters[n] = name})

-----------------------------------------------------------------------------
(* What a frame has of an iteration: nothing when it is not outstanding.   *)

Living(fs, i) == GetIteration(fs, i).iter = i
OpsIn(fs, i) == IF Living(fs, i) THEN GetIteration(fs, i).outstanding_ops ELSE 0
SubIn(fs, i) == IF Living(fs, i) THEN GetIteration(fs, i).outstanding_frame_count ELSE 0

\* Whether a node may still become ready.
MayIn(fs, n, i) ==
    IF Living(fs, i) THEN (IF GetIteration(fs, i).pending[n] > 0 THEN 1 ELSE 0)
    ELSE (IF i > fs.iteration_count THEN 1 ELSE 0)

\* The iterations outstanding are the latest ones, each in its place.
Oldest(fs) == fs.iteration_count - fs.num_outstanding_iterations + 1
Window(fs) ==
    /\ fs.num_outstanding_iterations <= fs.max_parallel_iterations
    /\ Oldest(fs) >= 0
    /\ \A i \in Oldest(fs) .. fs.iteration_count : Living(fs, i)
    /\ \A k \in 0 .. fs.max_parallel_iterations :
          fs.iterations[k] # NoIteration =>
             /\ fs.iterations[k].iter \in Oldest(fs) .. fs.iteration_count
             /\ Slot(fs, fs.iterations[k].iter) = k
FrameOK(fs, f) ==
    /\ fs \in FrameStates(f) /\ Window(fs)
    /\ fs.num_pending_inputs > 0 => Living(fs, 0)
RootsWait(fs) == fs.next_iter_roots # <<>> => fs.num_outstanding_iterations = fs.max_parallel_iterations

-----------------------------------------------------------------------------
(* The invariant.                                                          *)

Typed ==
    /\ th \in [Threads -> ThreadStates]
    /\ BagOver(pool) /\ BagOver(asyncs)
    /\ status \in BOOLEAN /\ aborted \in BOOLEAN /\ fired \in SUBSET Tagged
    /\ IsFiniteSet(DOMAIN frames) /\ DOMAIN frames \in SUBSET Paths
    /\ frames = [f \in DOMAIN frames |-> frames[f]]
    /\ \A f \in DOMAIN frames : FrameOK(frames[f], f) /\ RootsWait(frames[f])

\* A thread that has failed keeps nothing, and one in a callback has no other node.
ThreadOK(r, ok) ==
    /\ r.pc \in Counted \union {"schedule_ready"} => r.tagged_node \in Tagged
    /\ r.pc \in {"create", "enter"} => r.tagged_node.node \in Enters
    /\ r.pc = "idle" => r = Idle
    /\ r.callback \/ r.pc \in {"schedule_finish", "finish"} => r.inline_ready = <<>>
    /\ r.failed => /\ r.pc \in {"loop", "node_done", "abort", "count", "schedule_finish", "finish"}
                   /\ r.pc = "node_done" \/ ~ ok
ThreadsOK == \A t \in Threads : ThreadOK(th[t], status)

\* A frame is deleted by one thread, when it has no iteration left.
Deleting(t) == th[t].pc \in {"delete_frame", "erase_frame"}
DeletersOK ==
    \A t \in Threads :
       /\ At(t, "enter") => Child(t) \in DOMAIN frames
       /\ Deleting(t) => /\ th[t].frame \in DOMAIN frames /\ IsFrameDone(frames[th[t].frame])
                         /\ \A u \in Threads : Deleting(u) /\ th[u].frame = th[t].frame => u = t
       /\ At(t, "erase_frame") => th[t].frame \in closed
       /\ At(t, "cleanup") => th[t].frame # <<>>

Sound == status /\ \A t \in Threads : ~ th[t].failed
OpsOf(f, i) == IF f \in DOMAIN frames THEN OpsIn(frames[f], i) ELSE 0
OpsCover ==
    \A f \in Paths, i \in Nat :
       /\ Outstanding(NodesIn(f, i), InFrame) <= OpsOf(f, i)
       /\ Sound => Outstanding(NodesIn(f, i), InFrame) = OpsOf(f, i)

\* The frames entered from an iteration, and those that it is to be told of.
Kids(f, i) == {c \in DOMAIN frames : c # <<>> /\ ParentFrame(c) = f /\ ParentIter(c) = i}
Told(f, i) == {t \in Threads : /\ At(t, "cleanup")
                               /\ ParentFrame(th[t].frame) = f /\ ParentIter(th[t].frame) = i}
SubOf(f, i) == IF f \in DOMAIN frames THEN SubIn(frames[f], i) ELSE 0
SubCover == \A f \in Paths, i \in Nat : Cardinality(Kids(f, i)) + Cardinality(Told(f, i)) <= SubOf(f, i)

\* An Enter fires once in an iteration.
Entering == {"propagate", "create", "enter"}
OneNode(n, f, i) == [node : {n}, frame : {f}, iter : {i}, dead : BOOLEAN]
HasFired(n, f, i) == \E x \in fired : x.node = n /\ x.frame = f /\ x.iter = i
MayOf(n, f, i) == IF f \in DOMAIN frames THEN MayIn(frames[f], n, i)
                  ELSE IF f \in closed THEN 0 ELSE 1
EnterOnce ==
    \A n \in Enters, f \in Paths, i \in Nat :
       graph.frame[n] = FrameInfo(f) =>
          Outstanding(OneNode(n, f, i), Entering) + MayOf(n, f, i) + (IF HasFired(n, f, i) THEN 1 ELSE 0) <= 1

\* A frame waits for its Enters, and ends when all have fired.
Unfired(c) == {n \in Enters : /\ graph.enters[n] = FrameInfo(c)
                              /\ ~ HasFired(n, ParentFrame(c), ParentIter(c))}
InputsCount ==
    /\ \A c \in DOMAIN frames : frames[c].num_pending_inputs =
                                   IF c = <<>> THEN 0 ELSE Cardinality(Unfired(c))
    /\ \A c \in closed \ {<<>>} : Unfired(c) = {}
    /\ \A x \in fired : x.node \in Enters =>
          MakeFrameName(x.frame, x.iter, graph.enters[x.node]) \in DOMAIN frames \union closed

Sane == /\ GraphOK /\ Typed /\ ThreadsOK /\ DeletersOK
        /\ OpsCover /\ SubCover /\ EnterOnce /\ InputsCount

-----------------------------------------------------------------------------
(* Numbers.                                                                *)

\* A set of natural numbers has a least one.
LEMMA NatMin ==
    ASSUME NEW T \in SUBSET Nat, T # {}
    PROVE  \E n \in T : \A m \in T : n <= m
<1> DEFINE R == {ss \in Nat \X Nat : ss[1] < ss[2]}
<1>1. IsWellFoundedOn(R, Nat)
  BY NatLessThanWellFounded, Zenon DEF OpToRel
<1>2. \A m, n \in Nat : m < n => <<m, n>> \in R
  OBVIOUS
<1> HIDE DEF R
<1>3. PICK n \in T : \A m \in T : ~ (<<m, n>> \in R)
  BY <1>1, WFMin
<1>4. \A m \in T : m \in Nat /\ n \in Nat
  OBVIOUS
<1>5. ASSUME NEW m \in T PROVE n <= m
  <2>1. ~ (m < n)
    BY <1>2, <1>3, <1>4
  <2> QED
    BY <1>4, <2>1
<1> QED
  BY <1>5

\* What holds at first, and after a step if before it, holds of all.
LEMMA NatInd ==
    ASSUME NEW n \in Nat, NEW S, 0 \in S, \A k \in 1 .. n : k - 1 \in S => k \in S
    PROVE  \A k \in 0 .. n : k \in S
<1> DEFINE T == {k \in 0 .. n : k \notin S}
<1> SUFFICES ASSUME T # {} PROVE FALSE
  OBVIOUS
<1>1. PICK k \in T : \A m \in T : k <= m
  <2>1. T \in SUBSET Nat
    OBVIOUS
  <2> HIDE DEF T
  <2> QED
    BY <2>1, NatMin
<1>2. k \in 1 .. n /\ k - 1 \in 0 .. n /\ ~ (k <= k - 1)
  BY <1>1
<1>3. k - 1 \in S
  BY <1>1, <1>2
<1> QED
  BY <1>1, <1>2, <1>3

\* The places of iterations: in range, and different for those that are near.
LEMMA PlaceRange ==
    ASSUME NEW i \in Nat, NEW m \in Nat
    PROVE  i % (m + 1) \in 0 .. m
OBVIOUS

\* The iterations that are outstanding at once have different places in the ring.
LEMMA PlaceDistinct ==
    ASSUME NEW i \in Nat, NEW j \in Nat, NEW m \in Nat, i < j, j <= i + m
    PROVE  i % (m + 1) # j % (m + 1)
BY SMTT(30)

(* Sums.                                                                   *)

\* The units of a function are those of its arguments, and finite.
LEMMA UnitsFinite ==
    ASSUME NEW S, IsFiniteSet(S), NEW f \in [S -> Int]
    PROVE  IsFiniteSet(Units(f)) /\ Total(f) \in Nat
<1> DEFINE Of(x) == {x} \X (1 .. f[x])
           g == [x \in S |-> Of(x)]
           T == {Of(x) : x \in S}
<1>1. g \in Surjection(S, T)
  BY DEF Surjection
<1>2. IsFiniteSet(T)
  BY <1>1, FS_Surjection
<1>3. ASSUME NEW x \in S PROVE IsFiniteSet(Of(x))
  <2>1. IsFiniteSet({x})
    BY FS_Singleton
  <2>2. f[x] \in Int
    OBVIOUS
  <2>3. IsFiniteSet(1 .. f[x])
    BY <2>2, FS_Interval
  <2> QED
    BY <2>1, <2>3, FS_Product
<1>4. IsFiniteSet(UNION T)
  BY <1>2, <1>3, FS_UNION
<1>5. Units(f) = UNION T
  BY DEF Units
<1> QED
  BY <1>4, <1>5, FS_CardinalityType DEF Total

\* What a unit is.
LEMMA UnitOf ==
    ASSUME NEW S, NEW f \in [S -> Int]
    PROVE  \A u : u \in Units(f) <=> \E x \in S : \E n \in 1 .. f[x] : u = <<x, n>>
BY DEF Units

\* A sum of nothing.
LEMMA TotalZero ==
    ASSUME NEW S, NEW f \in [S -> Int], \A x \in S : f[x] <= 0
    PROVE  Total(f) = 0
<1>1. Units(f) = {}
  BY UnitOf
<1> QED
  BY <1>1, FS_EmptySet DEF Total

\* The units of one argument.
LEMMA UnitsOfOne ==
    ASSUME NEW x, NEW n \in Nat
    PROVE  IsFiniteSet({x} \X (1 .. n)) /\ Cardinality({x} \X (1 .. n)) = n
<1>1. IsFiniteSet({x}) /\ Cardinality({x}) = 1
  BY FS_Singleton
<1>2. IsFiniteSet(1 .. n) /\ Cardinality(1 .. n) = n
  BY FS_Interval
<1>3. /\ IsFiniteSet({x} \X (1 .. n))
      /\ Cardinality({x} \X (1 .. n)) = Cardinality({x}) * Cardinality(1 .. n)
  BY <1>1, <1>2, FS_Product
<1>4. 1 * n = n
  OBVIOUS
<1> QED
  BY <1>1, <1>2, <1>3, <1>4

\* One summand changes.
LEMMA TotalChanges ==
    ASSUME NEW S, IsFiniteSet(S), NEW f \in [S -> Nat], NEW g \in [S -> Nat], NEW x \in S,
           \A y \in S : y # x => g[y] = f[y]
    PROVE  /\ Total(f) \in Nat /\ Total(g) \in Nat
           /\ f[x] <= Total(f) /\ Total(g) = Total(f) - f[x] + g[x]
<1> DEFINE Rest(h) == {u \in Units(h) : u[1] # x}
           Own(h) == {x} \X (1 .. h[x])
<1>1. ASSUME NEW h \in [S -> Nat]
      PROVE  /\ Units(h) = Rest(h) \cup Own(h) /\ Rest(h) \cap Own(h) = {}
             /\ IsFiniteSet(Rest(h)) /\ Cardinality(Rest(h)) \in Nat
             /\ Total(h) = Cardinality(Rest(h)) + h[x]
  <2>0. IsFiniteSet(Units(h))
    BY UnitsFinite
  <2>1. \A u : u \in Units(h) <=> \E y \in S : \E k \in 1 .. h[y] : u = <<y, k>>
    BY UnitOf
  <2>2. Units(h) = Rest(h) \cup Own(h)
    <3>1. ASSUME NEW u \in Units(h) PROVE u \in Rest(h) \cup Own(h)
      <4>1. PICK y \in S : \E k \in 1 .. h[y] : u = <<y, k>>
        BY <2>1
      <4> QED
        BY <4>1
    <3>2. Own(h) \subseteq Units(h)
      BY <2>1
    <3> QED
      BY <3>1, <3>2
  <2>3. Rest(h) \cap Own(h) = {}
    OBVIOUS
  <2>4. IsFiniteSet(Rest(h)) /\ Cardinality(Rest(h)) \in Nat
    BY <2>0, FS_Subset, FS_CardinalityType
  <2>5. IsFiniteSet(Own(h)) /\ Cardinality(Own(h)) = h[x]
    BY UnitsOfOne
  <2>6. Cardinality(Rest(h) \cup Own(h)) = Cardinality(Rest(h)) + Cardinality(Own(h)) - 0
    <3>1. Cardinality(Rest(h) \cap Own(h)) = 0
      BY <2>3, FS_EmptySet
    <3> HIDE DEF Rest, Own
    <3> QED
      BY <2>4, <2>5, <3>1, FS_Union
  <2> HIDE DEF Rest, Own
  <2> QED
    BY <2>2, <2>3, <2>4, <2>5, <2>6 DEF Total
<1>3. Rest(g) = Rest(f)
  <2>1. ASSUME NEW u PROVE u \in Rest(g) <=> u \in Rest(f)
    <3>1. u \in Units(g) <=> \E y \in S : \E k \in 1 .. g[y] : u = <<y, k>>
      BY UnitOf
    <3>2. u \in Units(f) <=> \E y \in S : \E k \in 1 .. f[y] : u = <<y, k>>
      BY UnitOf
    <3> QED
      BY <3>1, <3>2
  <2> QED
    BY <2>1
<1>4. Total(f) = Cardinality(Rest(f)) + f[x] /\ Cardinality(Rest(f)) \in Nat
  BY <1>1
<1>5. Total(g) = Cardinality(Rest(f)) + g[x]
  BY <1>1, <1>3
<1> HIDE DEF Rest, Own
<1> QED
  BY <1>1, <1>4, <1>5

\* What has no units may be left out of a sum.
LEMMA TotalPart ==
    ASSUME NEW S, NEW f \in [S -> Nat], NEW R \in SUBSET S, NEW g \in [R -> Nat],
           \A x \in R : g[x] = f[x], \A x \in S : x \notin R => f[x] = 0
    PROVE  Total(g) = Total(f)
<1>1. f \in [S -> Int] /\ g \in [R -> Int]
  OBVIOUS
<1>2. ASSUME NEW u PROVE u \in Units(g) <=> u \in Units(f)
  <2>1. u \in Units(f) <=> \E x \in S : \E n \in 1 .. f[x] : u = <<x, n>>
    BY <1>1, UnitOf
  <2>2. u \in Units(g) <=> \E x \in R : \E n \in 1 .. g[x] : u = <<x, n>>
    BY <1>1, UnitOf
  <2>3. \A x \in S : (\E n \in 1 .. f[x] : u = <<x, n>>) => x \in R
    OBVIOUS
  <2> QED
    BY <2>1, <2>2, <2>3
<1> QED
  BY <1>2 DEF Total

\* A sum with one argument more.
LEMMA TotalExtends ==
    ASSUME NEW S, IsFiniteSet(S), NEW f \in [S -> Nat], NEW x, x \notin S,
           NEW g \in [S \union {x} -> Nat], \A y \in S : g[y] = f[y]
    PROVE  Total(g) = Total(f) + g[x] /\ Total(f) \in Nat
<1> DEFINE h == [y \in S \union {x} |-> IF y = x THEN 0 ELSE f[y]]
<1>1. h \in [S \union {x} -> Nat] /\ h[x] = 0 /\ \A y \in S : h[y] = f[y]
  OBVIOUS
<1>2. IsFiniteSet(S \union {x})
  BY FS_AddElement
<1> HIDE DEF h
<1>3. Total(f) = Total(h)
  <2>1. S \in SUBSET (S \union {x}) /\ \A y \in S \union {x} : y \notin S => h[y] = 0
    BY <1>1
  <2> QED
    BY <1>1, <2>1, TotalPart
<1>4. \A y \in S \union {x} : y # x => g[y] = h[y]
  BY <1>1
<1>5. /\ Total(h) \in Nat /\ Total(g) \in Nat
      /\ Total(g) = Total(h) - h[x] + g[x]
  BY <1>1, <1>2, <1>4, TotalChanges
<1> QED
  BY <1>1, <1>3, <1>5

-----------------------------------------------------------------------------
(* Sequences and bags.                                                     *)

IfIn(x, M) == IF x \in M THEN 1 ELSE 0

\* What the other lemmas use of a sequence.
LEMMA SeqOf ==
    ASSUME NEW S, NEW s \in Seq(S)
    PROVE  /\ Len(s) \in Nat /\ DOMAIN s = 1 .. Len(s)
           /\ \A k \in DOMAIN s : s[k] \in S
           /\ s # <<>> <=> Len(s) > 0
OBVIOUS

\* The first n numbers are n.
LEMMA Interval ==
    ASSUME NEW n \in Nat
    PROVE  IsFiniteSet(1 .. n) /\ Cardinality(1 .. n) = n
BY FS_Interval

\* The elements of a sequence in a set.
LEMMA AmongIs ==
    ASSUME NEW S, NEW s \in Seq(S), NEW M
    PROVE  /\ Among(s, M) \in Nat /\ Among(s, M) <= Len(s)
           /\ IsFiniteSet({k \in DOMAIN s : s[k] \in M})
           /\ Among(s, M) = 0 <=> \A k \in DOMAIN s : s[k] \notin M
<1> DEFINE T == {k \in DOMAIN s : s[k] \in M}
<1>1. Len(s) \in Nat /\ DOMAIN s = 1 .. Len(s)
  BY SeqOf
<1>2. IsFiniteSet(1 .. Len(s)) /\ Cardinality(1 .. Len(s)) = Len(s)
  BY <1>1, Interval
<1>3. T \in SUBSET (1 .. Len(s))
  BY <1>1
<1>4. IsFiniteSet(T) /\ Cardinality(T) <= Len(s)
  BY <1>2, <1>3, FS_Subset
<1>5. Cardinality(T) \in Nat /\ (Cardinality(T) = 0 <=> T = {})
  BY <1>4, FS_CardinalityType, FS_EmptySet
<1>6. Among(s, M) = Cardinality(T)
  BY DEF Among
<1> QED
  BY <1>4, <1>5, <1>6

\* The empty sequence has no element.
LEMMA AmongNothing == \A M : Among(<<>>, M) = 0
<1> TAKE M
<1>1. {k \in DOMAIN <<>> : <<>>[k] \in M} = {}
  OBVIOUS
<1> QED
  BY <1>1, FS_EmptySet DEF Among

\* All the elements of a sequence are as many as it is long.
LEMMA AmongAll ==
    ASSUME NEW S, NEW s \in Seq(S), NEW M, \A x \in S : x \in M
    PROVE  Among(s, M) = Len(s)
<1>1. Len(s) \in Nat /\ DOMAIN s = 1 .. Len(s) /\ \A k \in DOMAIN s : s[k] \in S
  BY SeqOf
<1>2. {k \in DOMAIN s : s[k] \in M} = 1 .. Len(s)
  BY <1>1
<1> QED
  BY <1>1, <1>2, Interval DEF Among

\* Append adds the element it appends.
LEMMA AmongAppend ==
    ASSUME NEW S, NEW s \in Seq(S), NEW x \in S, NEW M
    PROVE  Append(s, x) \in Seq(S) /\ Among(Append(s, x), M) = Among(s, M) + IfIn(x, M)
<1> DEFINE T == {k \in DOMAIN s : s[k] \in M}
           l == Append(s, x)
<1>1. Len(s) \in Nat /\ DOMAIN s = 1 .. Len(s)
  BY SeqOf
<1>2. /\ l \in Seq(S) /\ DOMAIN l = 1 .. (Len(s) + 1)
      /\ l[Len(s) + 1] = x /\ \A k \in 1 .. Len(s) : l[k] = s[k]
  OBVIOUS
<1>3. IsFiniteSet(T) /\ Among(s, M) = Cardinality(T) /\ Among(s, M) \in Nat
  BY AmongIs DEF Among
<1>4. Len(s) + 1 \notin T
  BY <1>1
<1> HIDE DEF l
<1>5. CASE x \in M
  <2>1. {k \in DOMAIN l : l[k] \in M} = T \union {Len(s) + 1}
    BY <1>1, <1>2, <1>5
  <2>2. Cardinality(T \union {Len(s) + 1}) = Cardinality(T) + 1
    BY <1>3, <1>4, FS_AddElement
  <2>3. Among(l, M) = Among(s, M) + 1
    BY <1>3, <2>1, <2>2 DEF Among
  <2> QED
    BY <1>2, <1>5, <2>3 DEF l, IfIn
<1>6. CASE x \notin M
  <2>1. {k \in DOMAIN l : l[k] \in M} = T
    BY <1>1, <1>2, <1>6
  <2>2. Among(l, M) = Among(s, M)
    BY <1>3, <2>1 DEF Among
  <2> QED
    BY <1>2, <1>3, <1>6, <2>2 DEF l, IfIn
<1> QED
  BY <1>5, <1>6

\* A sequence of one element has that element.
LEMMA AmongOne ==
    ASSUME NEW S, NEW x \in S, NEW M
    PROVE  <<x>> \in Seq(S) /\ Among(<<x>>, M) = IfIn(x, M)
<1>1. <<>> \in Seq(S) /\ Append(<<>>, x) = <<x>>
  OBVIOUS
<1>2. Among(Append(<<>>, x), M) = Among(<<>>, M) + IfIn(x, M)
  BY <1>1, AmongAppend
<1>3. Among(<<>>, M) = 0
  BY AmongNothing
<1> QED
  BY <1>1, <1>2, <1>3 DEF IfIn

\* The elements of two sequences, one after the other.
LEMMA AmongConcat ==
    ASSUME NEW S, NEW s \in Seq(S), NEW u \in Seq(S), NEW M
    PROVE  s \o u \in Seq(S) /\ Among(s \o u, M) = Among(s, M) + Among(u, M)
<1> DEFINE A == {k \in DOMAIN s : s[k] \in M}
           B == {k \in DOMAIN u : u[k] \in M}
           shift == [k \in B |-> k + Len(s)]
           C == {k + Len(s) : k \in B}
           l == s \o u
<1>1. /\ Len(s) \in Nat /\ DOMAIN s = 1 .. Len(s) /\ Len(u) \in Nat /\ DOMAIN u = 1 .. Len(u)
  BY SeqOf
<1>2. /\ l \in Seq(S) /\ DOMAIN l = 1 .. (Len(s) + Len(u))
      /\ \A k \in 1 .. Len(s) : l[k] = s[k]
      /\ \A k \in 1 .. Len(u) : l[k + Len(s)] = u[k]
  OBVIOUS
<1>3. IsFiniteSet(A) /\ Among(s, M) = Cardinality(A) /\ Among(s, M) \in Nat
  BY AmongIs DEF Among
<1>4. IsFiniteSet(B) /\ Among(u, M) = Cardinality(B) /\ Among(u, M) \in Nat
  BY AmongIs DEF Among
<1>5. shift \in Bijection(B, C)
  <2>1. shift \in Surjection(B, C)
    BY DEF Surjection
  <2>2. shift \in Injection(B, C)
    <3>1. \A j, k \in B : j + Len(s) = k + Len(s) => j = k
      BY <1>1
    <3>2. shift \in [B -> C] /\ \A k \in B : shift[k] = k + Len(s)
      OBVIOUS
    <3> HIDE DEF shift, B, C
    <3> QED
      BY <3>1, <3>2 DEF Injection, IsInjective
  <2> QED
    BY <2>1, <2>2 DEF Bijection
<1>6. IsFiniteSet(C) /\ Cardinality(C) = Cardinality(B)
  BY <1>4, <1>5, FS_Bijection DEF ExistsBijection
<1> HIDE DEF l
<1>7. {k \in DOMAIN l : l[k] \in M} = A \union C
  <2>1. ASSUME NEW k \in DOMAIN l, l[k] \in M PROVE k \in A \union C
    <3>1. CASE k <= Len(s)
      BY <1>1, <1>2, <2>1, <3>1
    <3>2. CASE ~ (k <= Len(s))
      <4>1. k - Len(s) \in DOMAIN u /\ k = (k - Len(s)) + Len(s)
        BY <1>1, <1>2, <3>2
      <4>2. l[k] = u[k - Len(s)]
        BY <1>1, <1>2, <4>1
      <4>3. k - Len(s) \in B
        BY <2>1, <4>1, <4>2
      <4> HIDE DEF B
      <4> QED
        BY <4>1, <4>3
    <3> QED
      BY <3>1, <3>2
  <2>2. ASSUME NEW k \in A PROVE k \in DOMAIN l /\ l[k] \in M
    BY <1>1, <1>2
  <2>3. ASSUME NEW k \in C PROVE k \in DOMAIN l /\ l[k] \in M
    BY <1>1, <1>2
  <2> QED
    BY <2>1, <2>2, <2>3
<1>8. A \cap C = {}
  BY <1>1
<1> HIDE DEF A, B, C
<1>9. Cardinality(A \union C) = Cardinality(A) + Cardinality(C)
  <2>1. Cardinality(A \union C) = Cardinality(A) + Cardinality(C) - Cardinality(A \cap C)
    BY <1>3, <1>6, FS_Union
  <2>2. Cardinality(A \cap C) = 0
    BY <1>8, FS_EmptySet
  <2> QED
    BY <1>3, <1>4, <1>6, <2>1, <2>2
<1>10. Among(l, M) = Among(s, M) + Among(u, M)
  BY <1>3, <1>4, <1>6, <1>7, <1>9 DEF Among
<1> QED
  BY <1>2, <1>10 DEF l

\* A sequence has its head and what its tail has.
LEMMA AmongTail ==
    ASSUME NEW S, NEW s \in Seq(S), s # <<>>, NEW M
    PROVE  /\ Head(s) \in S /\ Tail(s) \in Seq(S) /\ Len(s) = Len(Tail(s)) + 1
           /\ Among(s, M) = IfIn(Head(s), M) + Among(Tail(s), M)
<1>1. Head(s) \in S /\ Tail(s) \in Seq(S) /\ Len(s) = Len(Tail(s)) + 1
  OBVIOUS
<1>2. <<Head(s)>> \in Seq(S) /\ s = <<Head(s)>> \o Tail(s)
  OBVIOUS
<1> DEFINE h == <<Head(s)>>
           r == Tail(s)
<1>3. Among(h, M) = IfIn(Head(s), M)
  BY <1>1, AmongOne
<1>4. h \in Seq(S) /\ r \in Seq(S) /\ s = h \o r
  BY <1>1, <1>2
<1> HIDE DEF h, r
<1>5. Among(h \o r, M) = Among(h, M) + Among(r, M)
  BY <1>4, AmongConcat
<1> QED
  BY <1>1, <1>3, <1>4, <1>5 DEF r

\* The copies in a bag of the elements of a set.
LEMMA CopiesIs ==
    ASSUME NEW b, BagOver(b), NEW M
    PROVE  /\ Copies(b, M) \in Nat
           /\ Copies(b, M) = 0 <=> \A x \in DOMAIN b : x \notin M
<1> DEFINE f == [x \in DOMAIN b |-> IF x \in M THEN b[x] ELSE 0]
<1>1. IsFiniteSet(DOMAIN b) /\ b \in [DOMAIN b -> Nat \ {0}]
  BY DEF BagOver
<1>2. f \in [DOMAIN b -> Nat]
  BY <1>1
<1>3. Copies(b, M) = Total(f)
  BY DEF Copies
<1> HIDE DEF f
<1>4. Total(f) \in Nat
  <2>1. f \in [DOMAIN b -> Int]
    BY <1>2
  <2> QED
    BY <1>1, <2>1, UnitsFinite
<1>5. ASSUME \A x \in DOMAIN b : x \notin M PROVE Total(f) = 0
  <2>1. \A x \in DOMAIN b : f[x] <= 0
    BY <1>5 DEF f
  <2>2. f \in [DOMAIN b -> Int]
    BY <1>2
  <2> QED
    BY <2>1, <2>2, TotalZero
<1>6. ASSUME NEW x \in DOMAIN b, x \in M PROVE Total(f) # 0
  <2>1. f[x] = b[x] /\ b[x] \in Nat \ {0}
    BY <1>1, <1>6 DEF f
  <2>2. f[x] <= Total(f)
    BY <1>1, <1>2, TotalChanges
  <2> QED
    BY <1>4, <2>1, <2>2
<1> QED
  BY <1>3, <1>4, <1>5, <1>6

\* All the copies of a bag are its total.
LEMMA CopiesAll ==
    ASSUME NEW b, BagOver(b), NEW M, \A x \in DOMAIN b : x \in M
    PROVE  Copies(b, M) = Total(b)
<1>1. [x \in DOMAIN b |-> IF x \in M THEN b[x] ELSE 0] = b
  BY DEF BagOver
<1> QED
  BY <1>1 DEF Copies

\* A closure or kernel more in a bag.
LEMMA BagAdds ==
    ASSUME NEW b, BagOver(b), NEW x \in Tagged, NEW M
    PROVE  LET c == b (+) SetToBag({x})
           IN  /\ BagOver(c) /\ DOMAIN c = DOMAIN b \union {x}
               /\ Copies(c, M) = Copies(b, M) + IfIn(x, M)
<1> DEFINE c == b (+) SetToBag({x})
           f == [y \in DOMAIN b |-> IF y \in M THEN b[y] ELSE 0]
           g == [y \in DOMAIN b \union {x} |-> IF y \in M THEN c[y] ELSE 0]
<1>1. IsFiniteSet(DOMAIN b) /\ DOMAIN b \in SUBSET Tagged /\ b \in [DOMAIN b -> Nat \ {0}]
  BY DEF BagOver
<1>2. c = [y \in DOMAIN b \union {x} |-> (IF y \in DOMAIN b THEN b[y] ELSE 0) + (IF y \in {x} THEN 1 ELSE 0)]
  BY DEF (+), SetToBag
<1> HIDE DEF c
<1>3. /\ DOMAIN c = DOMAIN b \union {x} /\ c \in [DOMAIN c -> Nat \ {0}]
      /\ \A y \in DOMAIN b : y # x => c[y] = b[y]
      /\ c[x] = (IF x \in DOMAIN b THEN b[x] ELSE 0) + 1
  BY <1>1, <1>2
<1>4. IsFiniteSet(DOMAIN c)
  BY <1>1, <1>3, FS_AddElement
<1>5. BagOver(c)
  BY <1>1, <1>3, <1>4 DEF BagOver
<1>6. f \in [DOMAIN b -> Nat] /\ g \in [DOMAIN b \union {x} -> Nat]
  BY <1>1, <1>3
<1>7. Copies(b, M) = Total(f) /\ Copies(c, M) = Total(g)
  BY <1>3 DEF Copies
<1>8. CASE x \in DOMAIN b
  <2>1. g \in [DOMAIN b -> Nat] /\ \A y \in DOMAIN b : y # x => g[y] = f[y]
    BY <1>3, <1>6, <1>8
  <2>2. g[x] = f[x] + IfIn(x, M) /\ f[x] \in Nat
    BY <1>1, <1>3, <1>6, <1>8 DEF IfIn
  <2> HIDE DEF f, g
  <2>3. Total(g) = Total(f) - f[x] + g[x] /\ Total(f) \in Nat
    BY <1>1, <1>6, <1>8, <2>1, TotalChanges
  <2>4. Total(g) = Total(f) + IfIn(x, M)
    BY <2>2, <2>3 DEF IfIn
  <2> QED
    BY <1>3, <1>5, <1>7, <2>4 DEF c
<1>9. CASE x \notin DOMAIN b
  <2>1. \A y \in DOMAIN b : g[y] = f[y]
    BY <1>3, <1>9
  <2>2. g[x] = IfIn(x, M)
    BY <1>3, <1>9 DEF IfIn
  <2> HIDE DEF f, g
  <2>3. Total(g) = Total(f) + g[x]
    BY <1>1, <1>6, <1>9, <2>1, TotalExtends
  <2> QED
    BY <1>3, <1>5, <1>7, <2>2, <2>3 DEF c
<1> QED
  BY <1>8, <1>9

\* A closure or kernel less in a bag.
LEMMA BagTakes ==
    ASSUME NEW b, BagOver(b), NEW x \in DOMAIN b, NEW M
    PROVE  LET c == b (-) SetToBag({x})
           IN  /\ BagOver(c) /\ DOMAIN c \in SUBSET DOMAIN b
               /\ Copies(b, M) = Copies(c, M) + IfIn(x, M)
<1> DEFINE c == b (-) SetToBag({x})
           h == [y \in DOMAIN b |-> IF y \in {x} THEN b[y] - 1 ELSE b[y]]
           R == {y \in DOMAIN b : h[y] > 0}
           f == [y \in DOMAIN b |-> IF y \in M THEN b[y] ELSE 0]
           g == [y \in DOMAIN b |-> IF y \in M THEN h[y] ELSE 0]
           e == [y \in R |-> IF y \in M THEN c[y] ELSE 0]
<1>1. IsFiniteSet(DOMAIN b) /\ DOMAIN b \in SUBSET Tagged /\ b \in [DOMAIN b -> Nat \ {0}]
  BY DEF BagOver
<1>2. c = [y \in R |-> h[y]]
  BY DEF (-), SetToBag
<1>3. /\ h \in [DOMAIN b -> Nat] /\ h[x] = b[x] - 1 /\ b[x] \in Nat
      /\ \A y \in DOMAIN b : y # x => h[y] = b[y]
  BY <1>1
<1> HIDE DEF c, h
<1>4. R \in SUBSET DOMAIN b /\ DOMAIN c = R /\ c \in [R -> Nat \ {0}]
  BY <1>2, <1>3
<1>5. IsFiniteSet(R)
  BY <1>1, <1>4, FS_Subset
<1>6. BagOver(c)
  BY <1>1, <1>4, <1>5 DEF BagOver
<1>7. f \in [DOMAIN b -> Nat] /\ g \in [DOMAIN b -> Nat] /\ e \in [R -> Nat]
  BY <1>1, <1>3, <1>4
<1>8. Copies(b, M) = Total(f) /\ Copies(c, M) = Total(e)
  BY <1>4 DEF Copies
<1>9. /\ \A y \in R : e[y] = g[y]
      /\ \A y \in DOMAIN b : y \notin R => g[y] = 0
  BY <1>2, <1>3
<1>10. /\ \A y \in DOMAIN b : y # x => g[y] = f[y]
       /\ f[x] = g[x] + IfIn(x, M) /\ f[x] \in Nat /\ g[x] \in Nat
  BY <1>3 DEF IfIn
<1> HIDE DEF R, f, g, e
<1>11. Total(e) = Total(g)
  BY <1>4, <1>7, <1>9, TotalPart
<1>12. Total(g) = Total(f) - f[x] + g[x] /\ Total(f) \in Nat
  BY <1>1, <1>7, <1>10, TotalChanges
<1>13. Copies(b, M) = Copies(c, M) + IfIn(x, M)
  BY <1>8, <1>10, <1>11, <1>12 DEF IfIn
<1> QED
  BY <1>4, <1>6, <1>13 DEF c

\* A bag of one copy each counts as its set does.
LEMMA BagOfSet ==
    ASSUME NEW S \in SUBSET Tagged, IsFiniteSet(S), NEW M
    PROVE  /\ BagOver(SetToBag(S)) /\ DOMAIN SetToBag(S) = S
           /\ Copies(SetToBag(S), M) = Cardinality(S \cap M)
<1> DEFINE b == SetToBag(S)
           f == [x \in S |-> IF x \in M THEN b[x] ELSE 0]
           pair == [x \in S \cap M |-> <<x, 1>>]
<1>1. b = [x \in S |-> 1]
  BY DEF SetToBag
<1>2. DOMAIN b = S /\ BagOver(b)
  BY <1>1 DEF BagOver
<1>3. Copies(b, M) = Cardinality(Units(f))
  BY <1>2 DEF Copies, Total
<1>4. \A u : u \in Units(f) <=> \E x \in S : \E n \in 1 .. f[x] : u = <<x, n>>
  BY <1>1, UnitOf
<1>5. \A x \in S : f[x] = IF x \in M THEN 1 ELSE 0
  BY <1>1
<1> HIDE DEF f
<1>6. ASSUME NEW u PROVE u \in Units(f) <=> \E x \in S \cap M : u = <<x, 1>>
  <2>1. ASSUME NEW x \in S PROVE (\E n \in 1 .. f[x] : u = <<x, n>>) <=> x \in M /\ u = <<x, 1>>
    BY <1>5
  <2> QED
    BY <1>4, <2>1
<1>7. pair \in Bijection(S \cap M, Units(f))
  <2>1. pair \in [S \cap M -> Units(f)]
    BY <1>6
  <2>2. \A u \in Units(f) : \E x \in S \cap M : pair[x] = u
    BY <1>6
  <2>3. \A x, y \in S \cap M : pair[x] = pair[y] => x = y
    OBVIOUS
  <2> HIDE DEF pair
  <2> QED
    BY <2>1, <2>2, <2>3 DEF Bijection, Injection, Surjection, IsInjective
<1>8. IsFiniteSet(S \cap M)
  BY FS_Subset
<1>9. Cardinality(Units(f)) = Cardinality(S \cap M)
  BY <1>7, <1>8, FS_Bijection DEF ExistsBijection
<1> QED
  BY <1>2, <1>3, <1>9

-----------------------------------------------------------------------------
(* The nodes that are outstanding.                                         *)

\* What a thread in this state has.
ReadyOf(r) ==
    IF /\ r.pc \in Counted \union {"schedule_ready"} /\ ~ r.failed
       /\ r.pc # "propagate" /\ r.pc # "create" /\ r.pc # "enter"
    THEN r.ready ELSE <<>>
Has(r, M, places) ==
    Among(r.inline_ready, M) + Among(ReadyOf(r), M) +
    (IF r.pc \in places /\ r.tagged_node \in M THEN 1 ELSE 0)
Out(p, a, h, M, places) == Copies(p, M) + Copies(a, M) + Total([t \in Threads |-> Has(h[t], M, places)])

\* Outstanding, of ExecutorProperties, as a sum of values.
LEMMA OutNow ==
    /\ \A M, places : Outstanding(M, places) = Out(pool, asyncs, th, M, places)
    /\ \A t \in Threads : Ready(t) = ReadyOf(th[t])
<1>1. ASSUME NEW t \in Threads PROVE Ready(t) = ReadyOf(th[t])
  BY DEF Ready, ReadyOf, At
<1>2. ASSUME NEW M, NEW places, NEW t \in Threads PROVE Held(t, M, places) = Has(th[t], M, places)
  BY <1>1 DEF Held, Has
<1>3. ASSUME NEW M, NEW places
      PROVE  [t \in Threads |-> Held(t, M, places)] = [t \in Threads |-> Has(th[t], M, places)]
  BY <1>2
<1> QED
  BY <1>1, <1>3 DEF Outstanding, Out

\* A thread has none of some nodes exactly when they are at none of its places.
LEMMA HasIs ==
    ASSUME NEW r \in ThreadStates, NEW M, NEW places
    PROVE  /\ Has(r, M, places) \in Nat
           /\ Among(r.inline_ready, M) \in Nat /\ Among(ReadyOf(r), M) \in Nat
           /\ ReadyOf(r) \in Seq(Tagged)
           /\ Has(r, M, places) = 0 <=> /\ \A k \in DOMAIN r.inline_ready : r.inline_ready[k] \notin M
                                        /\ \A k \in DOMAIN ReadyOf(r) : ReadyOf(r)[k] \notin M
                                        /\ ~ (r.pc \in places /\ r.tagged_node \in M)
<1>1. r.inline_ready \in Seq(Tagged) /\ r.ready \in Seq(Tagged)
  BY DEF ThreadStates
<1>2. ReadyOf(r) \in Seq(Tagged)
  BY <1>1 DEF ReadyOf
<1>3. /\ Among(r.inline_ready, M) \in Nat
      /\ Among(r.inline_ready, M) = 0 <=> \A k \in DOMAIN r.inline_ready : r.inline_ready[k] \notin M
  BY <1>1, AmongIs
<1>4. /\ Among(ReadyOf(r), M) \in Nat
      /\ Among(ReadyOf(r), M) = 0 <=> \A k \in DOMAIN ReadyOf(r) : ReadyOf(r)[k] \notin M
  BY <1>2, AmongIs
<1> DEFINE w == IF r.pc \in places /\ r.tagged_node \in M THEN 1 ELSE 0
<1>5. Has(r, M, places) = Among(r.inline_ready, M) + Among(ReadyOf(r), M) + w
  BY DEF Has
<1>6. w \in Nat /\ (w = 0 <=> ~ (r.pc \in places /\ r.tagged_node \in M))
  OBVIOUS
<1> HIDE DEF w
<1>7. Has(r, M, places) = 0 <=> Among(r.inline_ready, M) = 0 /\ Among(ReadyOf(r), M) = 0 /\ w = 0
  BY <1>3, <1>4, <1>5, <1>6
<1>8. Among(r.inline_ready, M) \in Nat /\ Among(ReadyOf(r), M) \in Nat /\ w \in Nat
  BY <1>3, <1>4, <1>6
<1>9. Has(r, M, places) \in Nat
  BY <1>5, <1>8
<1> QED
  BY <1>2, <1>3, <1>4, <1>6, <1>7, <1>9

\* None of some nodes are outstanding exactly when no bag and no thread has one.
LEMMA OutIs ==
    ASSUME NEW p, BagOver(p), NEW a, BagOver(a), NEW h \in [Threads -> ThreadStates], NEW M, NEW places
    PROVE  /\ Out(p, a, h, M, places) \in Nat
           /\ Copies(p, M) <= Out(p, a, h, M, places) /\ Copies(a, M) <= Out(p, a, h, M, places)
           /\ \A t \in Threads : Has(h[t], M, places) <= Out(p, a, h, M, places)
           /\ Out(p, a, h, M, places) = 0 <=> /\ \A x \in DOMAIN p : x \notin M
                                              /\ \A x \in DOMAIN a : x \notin M
                                              /\ \A t \in Threads : Has(h[t], M, places) = 0
<1> DEFINE g == [t \in Threads |-> Has(h[t], M, places)]
<1>1. g \in [Threads -> Nat] /\ g \in [Threads -> Int]
  BY HasIs
<1>2. Out(p, a, h, M, places) = Copies(p, M) + Copies(a, M) + Total(g)
  BY DEF Out
<1>3. \A t \in Threads : g[t] = Has(h[t], M, places)
  OBVIOUS
<1> HIDE DEF g
<1>4. Total(g) \in Nat
  BY <1>1, ThreadsAssumption, UnitsFinite
<1>5. \A t \in Threads : g[t] <= Total(g)
  BY <1>1, ThreadsAssumption, TotalChanges
<1>6. (\A t \in Threads : g[t] = 0) => Total(g) = 0
  BY <1>1, TotalZero
<1>7. /\ Copies(p, M) \in Nat /\ (Copies(p, M) = 0 <=> \A x \in DOMAIN p : x \notin M)
      /\ Copies(a, M) \in Nat /\ (Copies(a, M) = 0 <=> \A x \in DOMAIN a : x \notin M)
  BY CopiesIs
<1>8. Total(g) = 0 <=> \A t \in Threads : g[t] = 0
  BY <1>1, <1>4, <1>5, <1>6
<1>9. \A t \in Threads : g[t] <= Out(p, a, h, M, places)
  BY <1>1, <1>2, <1>4, <1>5, <1>7
<1>10. Out(p, a, h, M, places) = 0 <=> Copies(p, M) = 0 /\ Copies(a, M) = 0 /\ Total(g) = 0
  BY <1>2, <1>4, <1>7
<1>11. /\ Out(p, a, h, M, places) \in Nat
       /\ Copies(p, M) <= Out(p, a, h, M, places) /\ Copies(a, M) <= Out(p, a, h, M, places)
  BY <1>2, <1>4, <1>7
<1> QED
  BY <1>3, <1>7, <1>8, <1>9, <1>10, <1>11

\* One thread changes, and the queues.
OutChanges(p, a, h, q, b, t, r, M, places) ==
    Out(q, b, [h EXCEPT ![t] = r], M, places) =
       Out(p, a, h, M, places) + (Copies(q, M) - Copies(p, M)) + (Copies(b, M) - Copies(a, M))
       + (Has(r, M, places) - Has(h[t], M, places))
\* The step of one thread changes what is outstanding by what it takes and gives.
LEMMA OutMoves ==
    ASSUME NEW p, BagOver(p), NEW a, BagOver(a), NEW h \in [Threads -> ThreadStates],
           NEW q, BagOver(q), NEW b, BagOver(b), NEW t \in Threads, NEW r \in ThreadStates,
           NEW M, NEW places
    PROVE  OutChanges(p, a, h, q, b, t, r, M, places)
<1> DEFINE g == [u \in Threads |-> Has(h[u], M, places)]
           e == [u \in Threads |-> Has([h EXCEPT ![t] = r][u], M, places)]
<1>0. [h EXCEPT ![t] = r] \in [Threads -> ThreadStates]
  OBVIOUS
<1>1. g \in [Threads -> Nat] /\ e \in [Threads -> Nat]
  BY <1>0, HasIs
<1>2. /\ \A u \in Threads : u # t => e[u] = g[u]
      /\ g[t] = Has(h[t], M, places) /\ e[t] = Has(r, M, places)
  OBVIOUS
<1>3. /\ Out(p, a, h, M, places) = Copies(p, M) + Copies(a, M) + Total(g)
      /\ Out(q, b, [h EXCEPT ![t] = r], M, places) = Copies(q, M) + Copies(b, M) + Total(e)
  BY DEF Out
<1> HIDE DEF g, e
<1>4. Total(g) \in Nat /\ Total(e) \in Nat /\ Total(e) = Total(g) - g[t] + e[t]
  BY <1>1, <1>2, ThreadsAssumption, TotalChanges
<1>5. Copies(p, M) \in Nat /\ Copies(a, M) \in Nat /\ Copies(q, M) \in Nat /\ Copies(b, M) \in Nat
  BY CopiesIs
<1>6. Has(h[t], M, places) \in Nat /\ Has(r, M, places) \in Nat
  BY HasIs
<1> QED
  BY <1>2, <1>3, <1>4, <1>5, <1>6 DEF OutChanges

-----------------------------------------------------------------------------
(* The graph and the paths of frames.                                      *)

\* What the lemmas use of a graph that Initialize has prepared.
LEMMA GraphFacts ==
    ASSUME GraphOK
    PROVE  /\ IsFiniteSet(DOMAIN graph.kind) /\ IsFiniteSet(Enters)
           /\ Enters \in SUBSET DOMAIN graph.kind
           /\ \A n \in DOMAIN graph.kind : n \in Enters <=> IsEnter(n)
           /\ \A n \in Enters : graph.enters[n] \in Names
           /\ \A n \in DOMAIN graph.kind : Kind(n) \in Kinds
           /\ \A n \in DOMAIN graph.kind : graph.frame[n] \in Names \union {Root}
           /\ \A n \in DOMAIN graph.kind :
                 graph.out[n] \in Seq([to : DOMAIN graph.kind, slot : Int, at : Int])
           /\ Root \notin Names
           /\ \A name \in Names : graph.parallel[name] \in Nat \ {0}
<1>1. WellFormed(graph) /\ Nodes(graph) = DOMAIN graph.kind
  BY DEF GraphOK, Nodes
<1>2. Enters = {n \in DOMAIN graph.kind : IsEnterNode(graph, n)}
  BY <1>1 DEF WellFormed, Enters
<1>3. IsFiniteSet(DOMAIN graph.kind)
  BY <1>1 DEF WellFormed
<1>4. IsFiniteSet(Enters)
  BY <1>2, <1>3, FS_Subset
<1>5. \A n \in DOMAIN graph.kind : IsEnter(n) <=> IsEnterNode(graph, n)
  BY DEF IsEnter, IsEnterNode, Kind
<1>6. \A n \in Enters : graph.enters[n] \in Names
  BY <1>1, <1>2 DEF WellFormed, Names
<1>7. \A n \in DOMAIN graph.kind : Kind(n) \in Kinds
  BY <1>1 DEF WellFormed, Kind
<1>8. \A n \in DOMAIN graph.kind : graph.frame[n] \in Names \union {Root}
  BY <1>1 DEF WellFormed, Names
<1>9. \A n \in DOMAIN graph.kind : graph.out[n] \in Seq([to : DOMAIN graph.kind, slot : Int, at : Int])
  BY <1>1 DEF WellFormed
<1>10. Root \notin Names /\ \A name \in Names : graph.parallel[name] \in Nat \ {0}
  BY <1>1 DEF WellFormed, Names
<1> QED
  BY <1>2, <1>3, <1>4, <1>5, <1>6, <1>7, <1>8, <1>9, <1>10

\* The elements of a sequence after Append.
LEMMA AppendIs ==
    ASSUME NEW S, NEW s \in Seq(S), NEW x \in S
    PROVE  LET c == Append(s, x)
           IN  /\ c \in Seq(S) /\ Len(c) = Len(s) + 1 /\ c[Len(s) + 1] = x /\ c # <<>>
               /\ \A k \in 1 .. Len(s) : c[k] = s[k]
OBVIOUS

\* A sequence without its last element.
LEMMA FrontIs ==
    ASSUME NEW S, NEW s \in Seq(S), Len(s) > 0
    PROVE  LET q == SubSeq(s, 1, Len(s) - 1)
           IN  /\ q \in Seq(S) /\ Len(q) = Len(s) - 1 /\ s[Len(s)] \in S
               /\ \A k \in 1 .. (Len(s) - 1) : q[k] = s[k]
               /\ s = Append(q, s[Len(s)])
<1> DEFINE q == SubSeq(s, 1, Len(s) - 1)
<1>1. Len(s) \in Nat /\ DOMAIN s = 1 .. Len(s) /\ \A k \in DOMAIN s : s[k] \in S
  BY SeqOf
<1>2. \A k \in 1 .. (Len(s) - 1) : s[k] \in S
  BY <1>1
<1>3. /\ q \in Seq(S) /\ Len(q) = Len(s) - 1
      /\ \A k \in 1 .. (Len(s) - 1) : q[k] = s[k]
  BY <1>1, <1>2, SubSeqProperties
<1> HIDE DEF q
<1>4. s[Len(s)] \in S
  BY <1>1
<1>5. /\ Append(q, s[Len(s)]) \in Seq(S) /\ Len(Append(q, s[Len(s)])) = Len(q) + 1
      /\ Append(q, s[Len(s)])[Len(q) + 1] = s[Len(s)]
      /\ \A k \in 1 .. Len(q) : Append(q, s[Len(s)])[k] = q[k]
  BY <1>3, <1>4, AppendIs
<1>6. \A k \in 1 .. Len(s) : s[k] = Append(q, s[Len(s)])[k]
  BY <1>1, <1>3, <1>5
<1>7. s = Append(q, s[Len(s)])
  <2> DEFINE c == Append(q, s[Len(s)])
  <2>1. c \in Seq(S) /\ Len(s) = Len(c) /\ \A k \in 1 .. Len(s) : s[k] = c[k]
    BY <1>1, <1>3, <1>5, <1>6
  <2> HIDE DEF c
  <2>2. s = c
    BY <2>1, SeqEqual
  <2> QED
    BY <2>2 DEF c
<1> QED
  BY <1>3, <1>4, <1>7 DEF q

\* The root frame is a frame, with one iteration at a time.
LEMMA PathRoot ==
    <<>> \in Paths /\ FrameInfo(<<>>) = Root /\ Parallel(<<>>) = 1
BY DEF Paths, FrameInfo, Parallel

\* A name of a frame ends with an iteration of its parent and a name of the graph.
LEMMA PathElement ==
    ASSUME NEW p \in Paths
    PROVE  /\ p \in Seq(Nat \X Names) /\ Len(p) \in Nat
           /\ p # <<>> => Len(p) > 0 /\ p[Len(p)][1] \in Nat /\ p[Len(p)][2] \in Names
           /\ p # <<>> => p[Len(p)] = <<p[Len(p)][1], p[Len(p)][2]>>
<1>1. p \in Seq(Nat \X Names) /\ Len(p) \in Nat
  BY DEF Paths
<1>2. p # <<>> => Len(p) > 0 /\ p[Len(p)] \in Nat \X Names
  BY <1>1
<1> QED
  BY <1>1, <1>2

\* A frame that is not the root has a loop of the graph and an iteration it was entered from.
LEMMA PathInfo ==
    ASSUME GraphOK, NEW p \in Paths
    PROVE  /\ p # <<>> => FrameInfo(p) \in Names /\ ParentIter(p) \in Nat
           /\ FrameInfo(p) = Root <=> p = <<>>
           /\ Parallel(p) \in Nat \ {0}
<1>1. p # <<>> => FrameInfo(p) \in Names /\ ParentIter(p) \in Nat
  BY PathElement DEF FrameInfo, ParentIter
<1>2. Root \notin Names /\ \A name \in Names : graph.parallel[name] \in Nat \ {0}
  BY GraphFacts
<1> QED
  BY <1>1, <1>2, PathRoot DEF Parallel

\* The name that MakeFrameName gives to the frame of an Enter.
LEMMA PathChild ==
    ASSUME GraphOK, NEW p \in Paths, NEW i \in Nat, NEW n \in Enters, graph.frame[n] = FrameInfo(p)
    PROVE  LET c == MakeFrameName(p, i, graph.enters[n])
           IN  /\ c \in Paths /\ c # <<>> /\ ParentFrame(c) = p /\ ParentIter(c) = i
               /\ FrameInfo(c) = graph.enters[n] /\ n \in Into(c)
<1> DEFINE x == <<i, graph.enters[n]>>
           c == Append(p, x)
<1>0. n \in DOMAIN graph.kind /\ graph.enters[n] \in Names /\ IsEnter(n)
  BY GraphFacts
<1>1. p \in Seq(Nat \X Names) /\ Len(p) \in Nat /\ x \in Nat \X Names
  BY <1>0, PathElement
<1>2. /\ c \in Seq(Nat \X Names) /\ Len(c) = Len(p) + 1 /\ c[Len(p) + 1] = x
      /\ \A k \in 1 .. Len(p) : c[k] = p[k]
      /\ c # <<>>
  <2> HIDE DEF x
  <2> QED
    BY <1>1, AppendIs
<1>3. \A k \in 1 .. (Len(p) + 1) : SubSeq(c, 1, k - 1) = SubSeq(p, 1, k - 1)
  BY <1>1, <1>2
<1>4. SubSeq(p, 1, Len(p)) = p
  BY <1>1
<1>5. c \in Paths
  <2>1. ASSUME NEW k \in 1 .. Len(c)
        PROVE  \E m \in Enters : graph.enters[m] = c[k][2] /\ graph.frame[m] = FrameInfo(SubSeq(c, 1, k - 1))
    <3>1. CASE k <= Len(p)
      <4>1. \E m \in Enters : graph.enters[m] = p[k][2] /\ graph.frame[m] = FrameInfo(SubSeq(p, 1, k - 1))
        BY <1>1, <2>1, <3>1 DEF Paths
      <4>2. c[k] = p[k] /\ SubSeq(c, 1, k - 1) = SubSeq(p, 1, k - 1)
        BY <1>1, <1>2, <1>3, <3>1
      <4> QED
        BY <4>1, <4>2
    <3>2. CASE k = Len(p) + 1
      <4>1. c[k][2] = graph.enters[n]
        BY <1>2, <3>2
      <4>2. SubSeq(c, 1, k - 1) = p
        BY <1>1, <1>3, <1>4, <3>2
      <4> QED
        BY <4>1, <4>2
    <3>3. k \in 1 .. (Len(p) + 1)
      BY <1>2, <2>1
    <3>4. k <= Len(p) \/ k = Len(p) + 1
      BY <1>1, <3>3
    <3> QED
      BY <3>1, <3>2, <3>4
  <2> HIDE DEF c
  <2> QED
    BY <1>2, <2>1 DEF Paths
<1>6. SubSeq(c, 1, Len(c) - 1) = p /\ c[Len(c)] = x
  BY <1>1, <1>2, <1>3, <1>4
<1>7. FrameInfo(c) = graph.enters[n]
  BY <1>2, <1>6 DEF FrameInfo
<1>8. n \in Into(c)
  <2>1. WellFormed(graph) /\ n \in Nodes(graph) /\ IsEnterNode(graph, n)
    BY <1>0 DEF GraphOK, Nodes, IsEnter, IsEnterNode, Kind
  <2>2. Leads(graph, n, graph.enters[n])
    BY <2>1 DEF WellFormed
  <2> QED
    BY <1>0, <1>7, <2>2 DEF Into
<1> HIDE DEF c
<1>9. ParentFrame(c) = p /\ ParentIter(c) = i
  BY <1>6 DEF ParentFrame, ParentIter
<1> QED
  BY <1>2, <1>5, <1>7, <1>8, <1>9 DEF MakeFrameName, c

\* A frame other than the root is the child of another one, to which its Exits lead.
LEMMA PathParent ==
    ASSUME GraphOK, NEW p \in Paths, p # <<>>
    PROVE  /\ ParentFrame(p) \in Paths /\ ParentIter(p) \in Nat /\ FrameInfo(p) \in Names
           /\ p = MakeFrameName(ParentFrame(p), ParentIter(p), FrameInfo(p))
           /\ ParentFrame(p) # p
           /\ \A n \in DOMAIN graph.kind :
                 Kind(n) = "exit" /\ graph.frame[n] = FrameInfo(p) => n \in Into(ParentFrame(p))
<1> DEFINE q == SubSeq(p, 1, Len(p) - 1)
<1>1. /\ p \in Seq(Nat \X Names) /\ Len(p) \in Nat /\ Len(p) > 0
      /\ p[Len(p)][1] \in Nat /\ p[Len(p)][2] \in Names
      /\ p[Len(p)] = <<p[Len(p)][1], p[Len(p)][2]>>
  BY PathElement
<1>2. /\ q \in Seq(Nat \X Names) /\ Len(q) = Len(p) - 1
      /\ \A k \in 1 .. (Len(p) - 1) : q[k] = p[k]
      /\ p = Append(q, p[Len(p)])
  BY <1>1, FrontIs
<1>3. \A k \in 1 .. Len(q) : SubSeq(q, 1, k - 1) = SubSeq(p, 1, k - 1)
  BY <1>1, <1>2
<1>4. q \in Paths
  <2>1. ASSUME NEW k \in 1 .. Len(q)
        PROVE  \E m \in Enters : graph.enters[m] = q[k][2] /\ graph.frame[m] = FrameInfo(SubSeq(q, 1, k - 1))
    <3>1. \E m \in Enters : graph.enters[m] = p[k][2] /\ graph.frame[m] = FrameInfo(SubSeq(p, 1, k - 1))
      <4>1. k \in 1 .. Len(p)
        BY <1>1, <1>2, <2>1
      <4> HIDE DEF q
      <4> QED
        BY <4>1 DEF Paths
    <3>2. q[k] = p[k] /\ SubSeq(q, 1, k - 1) = SubSeq(p, 1, k - 1)
      BY <1>1, <1>2, <1>3, <2>1
    <3> QED
      BY <3>1, <3>2
  <2> HIDE DEF q
  <2> QED
    BY <1>2, <2>1 DEF Paths
<1>5. p = Append(q, p[Len(p)])
  BY <1>2
<1>6. q # p
  <2> HIDE DEF q
  <2>1. Len(q) # Len(p)
    BY <1>1, <1>2
  <2> QED
    BY <2>1
<1>7. FrameInfo(p) = p[Len(p)][2] /\ ParentFrame(p) = q /\ ParentIter(p) = p[Len(p)][1]
  BY DEF FrameInfo, ParentFrame, ParentIter
<1>8. PICK m \in Enters : graph.enters[m] = FrameInfo(p) /\ graph.frame[m] = FrameInfo(q)
  <2>1. Len(p) \in 1 .. Len(p)
    BY <1>1
  <2> QED
    BY <1>7, <2>1 DEF Paths
<1> HIDE DEF q
<1>9. ASSUME NEW n \in DOMAIN graph.kind, Kind(n) = "exit", graph.frame[n] = FrameInfo(p)
      PROVE  n \in Into(q)
  <2>1. WellFormed(graph) /\ n \in Nodes(graph) /\ graph.kind[n] = "exit" /\ ~ IsEnterNode(graph, n)
    BY <1>9 DEF GraphOK, Nodes, IsEnterNode, Kind
  <2>2. \A k \in DOMAIN graph.enters : graph.enters[k] = graph.frame[n] => Leads(graph, n, graph.frame[k])
    BY <2>1 DEF WellFormed
  <2>3. Leads(graph, n, graph.frame[m])
    BY <1>8, <1>9, <2>2 DEF Enters
  <2> QED
    BY <1>8, <1>9, <2>3 DEF Into
<1>10. p = MakeFrameName(q, ParentIter(p), FrameInfo(p))
  BY <1>1, <1>5, <1>7 DEF MakeFrameName
<1> QED
  BY <1>1, <1>4, <1>6, <1>7, <1>9, <1>10

\* An exit is in a loop; a node that is neither an Enter nor an Exit stays in its frame.
LEMMA NodeInto ==
    ASSUME GraphOK, NEW p \in Paths, NEW n \in DOMAIN graph.kind, graph.frame[n] = FrameInfo(p)
    PROVE  /\ Kind(n) = "exit" => p # <<>>
           /\ Kind(n) # "exit" /\ n \notin Enters => n \in Into(p)
<1>1. WellFormed(graph) /\ n \in Nodes(graph) /\ (IsEnterNode(graph, n) <=> n \in Enters)
  BY GraphFacts DEF GraphOK, Nodes, IsEnterNode, IsEnter, Kind
<1>2. ASSUME Kind(n) = "exit" PROVE p # <<>>
  <2>1. graph.frame[n] # Root
    BY <1>1, <1>2 DEF WellFormed, Kind, IsEnterNode
  <2> QED
    BY <2>1, PathRoot
<1>3. ASSUME Kind(n) # "exit", n \notin Enters PROVE n \in Into(p)
  <2>1. Leads(graph, n, graph.frame[n])
    BY <1>1, <1>3 DEF WellFormed, Kind
  <2> QED
    BY <2>1 DEF Into
<1> QED
  BY <1>2, <1>3

-----------------------------------------------------------------------------
(* Frames.                                                                 *)

\* The fields of a FrameState.
LEMMA FrameFields ==
    ASSUME NEW f, NEW fs \in FrameStates(f)
    PROVE  /\ fs.max_parallel_iterations = Parallel(f) /\ fs.num_pending_inputs \in Int
           /\ fs.iteration_count \in Nat /\ fs.num_outstanding_iterations \in Nat
           /\ fs.iterations \in [0 .. Parallel(f) -> Iterations(f) \union {NoIteration}]
           /\ fs.next_iter_roots \in Seq(Outputs(f)) /\ fs.inv_values \in Seq(Outputs(f))
           /\ fs.dead_exits \in Seq(Exits(f))
BY DEF FrameStates

\* The fields of an IterationState.
LEMMA IterationFields ==
    ASSUME NEW f, NEW is \in Iterations(f)
    PROVE  /\ is.iter \in Nat /\ is.outstanding_ops \in Int /\ is.outstanding_frame_count \in Int
           /\ is.pending \in [NodesOf(FrameInfo(f)) -> Int]
           /\ is.dead_count \in [NodesOf(FrameInfo(f)) -> Int]
           /\ is # NoIteration
<1>1. is.iter \in Nat
  BY DEF Iterations
<1>2. is # NoIteration
  BY <1>1 DEF NoIteration
<1> QED
  BY <1>1, <1>2 DEF Iterations

\* The iteration in a place is the one asked for when it is outstanding.
LEMMA GetIs ==
    ASSUME GraphOK, NEW f \in Paths, NEW fs \in FrameStates(f), NEW i \in Nat
    PROVE  /\ Slot(fs, i) \in 0 .. Parallel(f)
           /\ GetIteration(fs, i) \in Iterations(f) \union {NoIteration}
           /\ GetIteration(fs, i) = fs.iterations[Slot(fs, i)]
           /\ Living(fs, i) => GetIteration(fs, i) \in Iterations(f)
           /\ OpsIn(fs, i) \in Int /\ SubIn(fs, i) \in Int /\ \A n : MayIn(fs, n, i) \in 0 .. 1
<1>1. Parallel(f) \in Nat /\ fs.max_parallel_iterations = Parallel(f)
      /\ fs.iterations \in [0 .. Parallel(f) -> Iterations(f) \union {NoIteration}]
  BY PathInfo, FrameFields
<1>2. Slot(fs, i) \in 0 .. Parallel(f)
  BY <1>1, PlaceRange DEF Slot
<1>3. GetIteration(fs, i) \in Iterations(f) \union {NoIteration}
  BY <1>1, <1>2 DEF GetIteration
<1>4. Living(fs, i) => GetIteration(fs, i) \in Iterations(f)
  <2>1. NoIteration.iter # i
    BY DEF NoIteration
  <2> QED
    BY <1>3, <2>1 DEF Living
<1>5. OpsIn(fs, i) \in Int /\ SubIn(fs, i) \in Int
  BY <1>4, IterationFields DEF OpsIn, SubIn
<1>6. \A n : MayIn(fs, n, i) \in 0 .. 1
  BY DEF MayIn
<1> QED
  BY <1>2, <1>3, <1>4, <1>5, <1>6 DEF GetIteration

\* The iterations outstanding are those from the oldest to the newest.
LEMMA LivingIs ==
    ASSUME GraphOK, NEW f \in Paths, NEW fs, FrameOK(fs, f), NEW i \in Nat
    PROVE  Living(fs, i) <=> i \in Oldest(fs) .. fs.iteration_count
<1>1. fs \in FrameStates(f) /\ Window(fs)
  BY DEF FrameOK
<1>2. Slot(fs, i) \in 0 .. fs.max_parallel_iterations /\ GetIteration(fs, i) = fs.iterations[Slot(fs, i)]
  BY <1>1, GetIs, FrameFields
<1>3. ASSUME Living(fs, i) PROVE i \in Oldest(fs) .. fs.iteration_count
  <2>1. GetIteration(fs, i) # NoIteration /\ GetIteration(fs, i).iter = i
    BY <1>1, <1>3, GetIs, IterationFields DEF Living
  <2> QED
    BY <1>1, <1>2, <2>1 DEF Window
<1> QED
  BY <1>1, <1>3 DEF Window

\* What is the same in a frame when only what an iteration holds has changed.
Alike(fs, gs) ==
    /\ gs.max_parallel_iterations = fs.max_parallel_iterations
    /\ gs.num_pending_inputs = fs.num_pending_inputs
    /\ gs.iteration_count = fs.iteration_count
    /\ gs.num_outstanding_iterations = fs.num_outstanding_iterations
    /\ gs.next_iter_roots = fs.next_iter_roots /\ gs.inv_values = fs.inv_values
    /\ gs.dead_exits = fs.dead_exits
    /\ \A i \in Nat : Living(gs, i) <=> Living(fs, i)

\* SetIteration of an outstanding iteration changes that one and no other.
LEMMA InPlace ==
    ASSUME GraphOK, NEW f \in Paths, NEW fs, FrameOK(fs, f), NEW i \in Nat, Living(fs, i),
           NEW is \in Iterations(f), is.iter = i
    PROVE  LET gs == SetIteration(fs, i, is)
           IN  /\ FrameOK(gs, f) /\ Alike(fs, gs) /\ GetIteration(gs, i) = is
               /\ \A j \in Nat : j # i /\ Living(fs, j) => GetIteration(gs, j) = GetIteration(fs, j)
<1> DEFINE gs == SetIteration(fs, i, is)
           k == Slot(fs, i)
<1>1. fs \in FrameStates(f) /\ Window(fs) /\ (fs.num_pending_inputs > 0 => Living(fs, 0))
  BY DEF FrameOK
<1>2. k \in 0 .. Parallel(f) /\ fs.iterations[k].iter = i
  BY <1>1, GetIs DEF Living
<1>3. gs = [fs EXCEPT !.iterations = [fs.iterations EXCEPT ![k] = is]]
  BY DEF SetIteration
<1>4. fs.iterations \in [0 .. Parallel(f) -> Iterations(f) \union {NoIteration}]
  BY <1>1, FrameFields
<1> HIDE DEF gs, k
<1>5. [fs.iterations EXCEPT ![k] = is] \in [0 .. Parallel(f) -> Iterations(f) \union {NoIteration}]
  BY <1>4
<1>6. /\ gs \in FrameStates(f) /\ gs.iterations = [fs.iterations EXCEPT ![k] = is]
      /\ gs.max_parallel_iterations = fs.max_parallel_iterations
      /\ gs.num_pending_inputs = fs.num_pending_inputs
      /\ gs.iteration_count = fs.iteration_count
      /\ gs.num_outstanding_iterations = fs.num_outstanding_iterations
      /\ gs.next_iter_roots = fs.next_iter_roots /\ gs.inv_values = fs.inv_values
      /\ gs.dead_exits = fs.dead_exits
  BY <1>1, <1>3, <1>5 DEF FrameStates
<1>7. \A j \in Nat : /\ Slot(gs, j) = Slot(fs, j) /\ Slot(fs, j) \in 0 .. Parallel(f)
                     /\ GetIteration(gs, j) = gs.iterations[Slot(fs, j)]
                     /\ GetIteration(fs, j) = fs.iterations[Slot(fs, j)]
  BY <1>1, <1>6, GetIs DEF Slot, GetIteration
<1>8. /\ gs.iterations[k] = is
      /\ \A l \in 0 .. Parallel(f) : l # k => gs.iterations[l] = fs.iterations[l]
  BY <1>2, <1>4, <1>6
<1>9. \A l \in 0 .. Parallel(f) : gs.iterations[l].iter = fs.iterations[l].iter
  BY <1>2, <1>8
<1>10. \A j \in Nat : Living(gs, j) <=> Living(fs, j)
  BY <1>7, <1>9 DEF Living
<1>11. Alike(fs, gs)
  BY <1>6, <1>10 DEF Alike
<1>12. GetIteration(gs, i) = is
  BY <1>7, <1>8 DEF k
<1>13. ASSUME NEW j \in Nat, j # i, Living(fs, j) PROVE GetIteration(gs, j) = GetIteration(fs, j)
  <2>1. Slot(fs, j) # k
    BY <1>2, <1>7, <1>13 DEF Living
  <2> QED
    BY <1>7, <1>8, <2>1
<1>14. Oldest(gs) = Oldest(fs)
  BY <1>6 DEF Oldest
<1>15. Window(gs)
  <2>1. gs.num_outstanding_iterations <= gs.max_parallel_iterations /\ Oldest(gs) >= 0
    BY <1>1, <1>6, <1>14 DEF Window
  <2>2. \A j \in Oldest(gs) .. gs.iteration_count : Living(gs, j)
    <3>1. Oldest(fs) \in Int /\ Oldest(fs) >= 0 /\ fs.iteration_count \in Nat
      BY <1>1, FrameFields DEF Window, Oldest
    <3> QED
      BY <1>1, <1>6, <1>10, <1>14, <3>1 DEF Window
  <2>3. ASSUME NEW l \in 0 .. gs.max_parallel_iterations, gs.iterations[l] # NoIteration
        PROVE  /\ gs.iterations[l].iter \in Oldest(gs) .. gs.iteration_count
               /\ Slot(gs, gs.iterations[l].iter) = l
    <3>1. l \in 0 .. Parallel(f) /\ l \in 0 .. fs.max_parallel_iterations
      BY <1>1, <1>6, <2>3, FrameFields
    <3>2. fs.iterations[l] # NoIteration
      <4>1. CASE l = k
        <5>1. NoIteration.iter # i
          BY DEF NoIteration
        <5> QED
          BY <1>2, <4>1, <5>1
      <4>2. CASE l # k
        BY <1>8, <2>3, <3>1, <4>2
      <4> QED
        BY <4>1, <4>2
    <3>3. fs.iterations[l].iter \in Oldest(fs) .. fs.iteration_count /\ Slot(fs, fs.iterations[l].iter) = l
      BY <1>1, <3>1, <3>2 DEF Window
    <3>4. Slot(gs, gs.iterations[l].iter) = Slot(fs, fs.iterations[l].iter)
      BY <1>6, <1>9, <3>1 DEF Slot
    <3> QED
      BY <1>6, <1>9, <1>14, <3>1, <3>3, <3>4
  <2> QED
    BY <2>1, <2>2, <2>3 DEF Window
<1>16. FrameOK(gs, f)
  BY <1>1, <1>6, <1>10, <1>15 DEF FrameOK
<1> QED
  BY <1>11, <1>12, <1>13, <1>16 DEF gs

\* The oldest iterations are freed.
LEMMA FreeOldest ==
    ASSUME GraphOK, NEW f \in Paths, NEW fs, FrameOK(fs, f), NEW m \in Int,
           Oldest(fs) <= m + 1, m <= fs.iteration_count, Oldest(fs) <= m => fs.num_pending_inputs <= 0
    PROVE  LET gs == Free(fs, Oldest(fs) .. m)
           IN  /\ FrameOK(gs, f) /\ Oldest(gs) = m + 1
               /\ gs.num_pending_inputs = fs.num_pending_inputs /\ gs.iteration_count = fs.iteration_count
               /\ gs.num_outstanding_iterations = fs.iteration_count - m
               /\ gs.next_iter_roots = fs.next_iter_roots /\ gs.inv_values = fs.inv_values
               /\ \A j \in Nat : Living(gs, j) <=> Living(fs, j) /\ j > m
               /\ \A j \in Nat : Living(gs, j) => GetIteration(gs, j) = GetIteration(fs, j)
<1> DEFINE iters == Oldest(fs) .. m
           its == [k \in DOMAIN fs.iterations |->
                     IF fs.iterations[k].iter \in iters THEN NoIteration ELSE fs.iterations[k]]
           gs == Free(fs, iters)
<1>1. fs \in FrameStates(f) /\ Window(fs) /\ (fs.num_pending_inputs > 0 => Living(fs, 0))
  BY DEF FrameOK
<1>2. /\ fs.iterations \in [0 .. Parallel(f) -> Iterations(f) \union {NoIteration}]
      /\ fs.iteration_count \in Nat /\ fs.num_outstanding_iterations \in Nat
      /\ fs.max_parallel_iterations = Parallel(f) /\ fs.num_pending_inputs \in Int
  BY <1>1, FrameFields
<1>0. /\ fs.iteration_count \in Int /\ fs.num_outstanding_iterations \in Int
      /\ Oldest(fs) = fs.iteration_count - fs.num_outstanding_iterations + 1
  BY <1>2 DEF Oldest
<1>3. Oldest(fs) \in Int /\ Oldest(fs) = fs.iteration_count - fs.num_outstanding_iterations + 1
  BY <1>2 DEF Oldest
<1>4. Cardinality(iters) = m - Oldest(fs) + 1
  BY <1>3, FS_Interval
<1>5. gs = [fs EXCEPT !.iterations = its, !.num_outstanding_iterations = fs.iteration_count - m]
  <2>1. fs.num_outstanding_iterations - Cardinality(iters) = fs.iteration_count - m
    <3> HIDE DEF iters
    <3> QED
      BY <1>0, <1>4
  <2> QED
    BY <2>1 DEF Free
<1>6. /\ its \in [0 .. Parallel(f) -> Iterations(f) \union {NoIteration}]
      /\ \A k \in 0 .. Parallel(f) :
            its[k] = IF fs.iterations[k].iter \in iters THEN NoIteration ELSE fs.iterations[k]
  BY <1>2
<1>7. fs.iteration_count - m \in Nat
  BY <1>2
<1> HIDE DEF gs, its
<1>8. /\ gs \in FrameStates(f) /\ gs.iterations = its
      /\ gs.max_parallel_iterations = fs.max_parallel_iterations
      /\ gs.num_pending_inputs = fs.num_pending_inputs
      /\ gs.iteration_count = fs.iteration_count
      /\ gs.num_outstanding_iterations = fs.iteration_count - m
      /\ gs.next_iter_roots = fs.next_iter_roots /\ gs.inv_values = fs.inv_values
  BY <1>1, <1>5, <1>6, <1>7 DEF FrameStates
<1>9. Oldest(gs) = m + 1
  BY <1>2, <1>8 DEF Oldest
<1>10. \A j \in Nat : /\ Slot(gs, j) = Slot(fs, j) /\ Slot(fs, j) \in 0 .. Parallel(f)
                      /\ GetIteration(gs, j) = its[Slot(fs, j)]
                      /\ GetIteration(fs, j) = fs.iterations[Slot(fs, j)]
  BY <1>1, <1>8, GetIs DEF Slot, GetIteration
<1>11. \A j \in Nat : Living(fs, j) <=> j \in Oldest(fs) .. fs.iteration_count
  BY LivingIs
<1>12. \A j \in Nat : NoIteration.iter # j
  BY DEF NoIteration
<1>13. ASSUME NEW j \in Nat
       PROVE  /\ Living(gs, j) <=> Living(fs, j) /\ j > m
              /\ Living(gs, j) => GetIteration(gs, j) = GetIteration(fs, j)
  <2>1. its[Slot(fs, j)] = IF fs.iterations[Slot(fs, j)].iter \in iters THEN NoIteration
                           ELSE fs.iterations[Slot(fs, j)]
    BY <1>6, <1>10
  <2>2. Living(gs, j) => fs.iterations[Slot(fs, j)].iter \notin iters /\ Living(fs, j)
    BY <1>10, <1>12, <2>1 DEF Living
  <2>3. Living(fs, j) /\ j \notin iters => Living(gs, j)
    BY <1>10, <2>1 DEF Living
  <2>4. Living(fs, j) => (j \in iters <=> ~ (j > m))
    BY <1>3, <1>11
  <2>5. Living(gs, j) => j \notin iters
    BY <1>10, <2>2 DEF Living
  <2> QED
    BY <1>10, <2>1, <2>2, <2>3, <2>4, <2>5
<1>14. Window(gs)
  <2>1. gs.num_outstanding_iterations <= gs.max_parallel_iterations /\ Oldest(gs) >= 0
    <3>1. fs.num_outstanding_iterations <= Parallel(f) /\ Oldest(fs) >= 0 /\ Parallel(f) \in Nat
      BY <1>1, <1>2, PathInfo DEF Window
    <3>2. fs.iteration_count - m <= fs.num_outstanding_iterations
      BY <1>0
    <3> QED
      BY <1>2, <1>3, <1>8, <1>9, <3>1, <3>2
  <2>2. \A j \in Oldest(gs) .. gs.iteration_count : Living(gs, j)
    BY <1>2, <1>3, <1>8, <1>9, <1>11, <1>13, <2>1
  <2>3. ASSUME NEW l \in 0 .. gs.max_parallel_iterations, gs.iterations[l] # NoIteration
        PROVE  /\ gs.iterations[l].iter \in Oldest(gs) .. gs.iteration_count
               /\ Slot(gs, gs.iterations[l].iter) = l
    <3>1. l \in 0 .. Parallel(f) /\ l \in 0 .. fs.max_parallel_iterations
      BY <1>2, <1>8, <2>3
    <3>2. gs.iterations[l] = fs.iterations[l] /\ fs.iterations[l] # NoIteration
          /\ fs.iterations[l].iter \notin iters
      BY <1>6, <1>8, <2>3, <3>1
    <3>3. fs.iterations[l].iter \in Oldest(fs) .. fs.iteration_count /\ Slot(fs, fs.iterations[l].iter) = l
      BY <1>1, <3>1, <3>2 DEF Window
    <3>4. Slot(gs, gs.iterations[l].iter) = Slot(fs, fs.iterations[l].iter)
      BY <1>8, <3>2 DEF Slot
    <3> QED
      BY <1>2, <1>3, <1>8, <1>9, <3>2, <3>3, <3>4
  <2> QED
    BY <2>1, <2>2, <2>3 DEF Window
<1>15. gs.num_pending_inputs > 0 => Living(gs, 0)
  <2>1. ASSUME gs.num_pending_inputs > 0 PROVE Living(gs, 0)
    <3>1. Living(fs, 0) /\ ~ (Oldest(fs) <= m)
      BY <1>1, <1>2, <1>8, <2>1
    <3>2. Oldest(fs) <= 0
      BY <1>3, <1>11, <3>1
    <3>3. m < 0
      BY <1>3, <3>1, <3>2
    <3> QED
      BY <1>13, <3>1, <3>3
  <2> QED
    BY <2>1
<1>16. FrameOK(gs, f)
  BY <1>8, <1>14, <1>15 DEF FrameOK
<1> QED
  BY <1>8, <1>9, <1>13, <1>16 DEF gs

\* The next iteration begins in a place that is free.
Begun(fs, name) ==
    [SetIteration(fs, fs.iteration_count + 1, IterationState(name, fs.iteration_count + 1))
       EXCEPT !.iteration_count = fs.iteration_count + 1, !.num_outstanding_iterations = @ + 1,
              !.dead_exits = <<>>, !.next_iter_roots = <<>>]

\* A new IterationState waits for all the inputs of its nodes.
LEMMA StateIs ==
    ASSUME GraphOK, NEW f, NEW i \in Nat
    PROVE  LET is == IterationState(FrameInfo(f), i)
           IN  /\ is \in Iterations(f) /\ is.iter = i
               /\ is.outstanding_ops = 0 /\ is.outstanding_frame_count = 0
               /\ \A n \in NodesOf(FrameInfo(f)) : is.pending[n] = graph.pending[n]
<1>1. \A n \in NodesOf(FrameInfo(f)) : graph.pending[n] \in Int
  BY DEF NodesOf, GraphOK
<1> QED
  BY <1>1 DEF IterationState, Iterations

\* The next iteration takes a free place, and the others keep theirs.
LEMMA BeginNext ==
    ASSUME GraphOK, NEW f \in Paths, NEW fs, FrameOK(fs, f),
           fs.num_outstanding_iterations < fs.max_parallel_iterations
    PROVE  LET gs == Begun(fs, FrameInfo(f))
               next == fs.iteration_count + 1
           IN  /\ FrameOK(gs, f) /\ gs.iteration_count = next /\ Oldest(gs) = Oldest(fs)
               /\ gs.num_pending_inputs = fs.num_pending_inputs
               /\ gs.next_iter_roots = <<>> /\ gs.inv_values = fs.inv_values
               /\ \A j \in Nat : Living(gs, j) <=> Living(fs, j) \/ j = next
               /\ ~ Living(fs, next) /\ GetIteration(gs, next) = IterationState(FrameInfo(f), next)
               /\ \A j \in Nat : Living(fs, j) => GetIteration(gs, j) = GetIteration(fs, j)
<1> DEFINE next == fs.iteration_count + 1
           is == IterationState(FrameInfo(f), next)
           k == Slot(fs, next)
           its == [fs.iterations EXCEPT ![k] = is]
           gs == Begun(fs, FrameInfo(f))
<1>1. fs \in FrameStates(f) /\ Window(fs) /\ (fs.num_pending_inputs > 0 => Living(fs, 0))
  BY DEF FrameOK
<1>2. /\ fs.iterations \in [0 .. Parallel(f) -> Iterations(f) \union {NoIteration}]
      /\ fs.iteration_count \in Nat /\ fs.num_outstanding_iterations \in Nat
      /\ fs.max_parallel_iterations = Parallel(f) /\ fs.num_pending_inputs \in Int
  BY <1>1, FrameFields
<1>0. /\ fs.iteration_count \in Int /\ fs.num_outstanding_iterations \in Int
      /\ Oldest(fs) = fs.iteration_count - fs.num_outstanding_iterations + 1
  BY <1>2 DEF Oldest
<1>3. /\ Oldest(fs) = fs.iteration_count - fs.num_outstanding_iterations + 1 /\ Oldest(fs) \in Nat
      /\ next \in Nat /\ Parallel(f) \in Nat
  BY <1>1, <1>2, PathInfo DEF Oldest, Window
<1>4. is \in Iterations(f) /\ is.iter = next
  BY <1>3, StateIs
<1>5. k \in 0 .. Parallel(f)
  BY <1>1, <1>3, GetIs
<1>6. gs = [fs EXCEPT !.iterations = its, !.iteration_count = next,
                      !.num_outstanding_iterations = fs.num_outstanding_iterations + 1,
                      !.dead_exits = <<>>, !.next_iter_roots = <<>>]
  BY <1>1 DEF Begun, SetIteration, FrameStates
<1> HIDE DEF is, k
<1>7. /\ its \in [0 .. Parallel(f) -> Iterations(f) \union {NoIteration}] /\ its[k] = is
      /\ \A l \in 0 .. Parallel(f) : l # k => its[l] = fs.iterations[l]
  BY <1>2, <1>4, <1>5
<1> HIDE DEF gs, its, next
<1>8. /\ gs \in FrameStates(f) /\ gs.iterations = its
      /\ gs.max_parallel_iterations = fs.max_parallel_iterations
      /\ gs.num_pending_inputs = fs.num_pending_inputs
      /\ gs.iteration_count = next
      /\ gs.num_outstanding_iterations = fs.num_outstanding_iterations + 1
      /\ gs.next_iter_roots = <<>> /\ gs.inv_values = fs.inv_values
  <2>1. <<>> \in Seq(Exits(f)) /\ <<>> \in Seq(Outputs(f))
    OBVIOUS
  <2>2. fs.num_outstanding_iterations + 1 \in Nat
    BY <1>2
  <2> QED
    BY <1>1, <1>3, <1>6, <1>7, <2>1, <2>2 DEF FrameStates
<1>9. Oldest(gs) = Oldest(fs)
  <2>1. Oldest(gs) = next - (fs.num_outstanding_iterations + 1) + 1
    BY <1>8 DEF Oldest
  <2> QED
    BY <1>0, <2>1 DEF next
<1>10. \A j \in Nat : /\ Slot(gs, j) = Slot(fs, j) /\ Slot(fs, j) \in 0 .. Parallel(f)
                      /\ GetIteration(gs, j) = its[Slot(fs, j)]
                      /\ GetIteration(fs, j) = fs.iterations[Slot(fs, j)]
  BY <1>1, <1>8, GetIs DEF Slot, GetIteration
<1>11. \A j \in Nat : Living(fs, j) <=> j \in Oldest(fs) .. fs.iteration_count
  BY LivingIs
<1>12. ASSUME NEW j \in Nat, Living(fs, j) PROVE Slot(fs, j) # k
  <2>1. j < next /\ next <= j + Parallel(f)
    <3>1. j \in Oldest(fs) .. fs.iteration_count /\ fs.num_outstanding_iterations < Parallel(f)
      BY <1>2, <1>11, <1>12
    <3>2. fs.iteration_count - fs.num_outstanding_iterations + 1 <= j /\ j <= fs.iteration_count
      BY <1>2, <1>3, <3>1
    <3> QED
      BY <1>0, <1>3, <3>1, <3>2 DEF next
  <2>2. j % (Parallel(f) + 1) # next % (Parallel(f) + 1)
    BY <1>3, <2>1, PlaceDistinct
  <2> QED
    BY <1>2, <2>2 DEF Slot, k
<1>13. ASSUME NEW j \in Nat
       PROVE  /\ Living(gs, j) <=> Living(fs, j) \/ j = next
              /\ Living(fs, j) => GetIteration(gs, j) = GetIteration(fs, j)
  <2>1. Living(fs, j) => GetIteration(gs, j) = GetIteration(fs, j)
    BY <1>7, <1>10, <1>12
  <2>2. Living(gs, next)
    BY <1>3, <1>4, <1>7, <1>10 DEF Living, k
  <2>3. Living(gs, j) /\ j # next => Living(fs, j)
    <3>1. Slot(fs, j) = k => ~ (Living(gs, j) /\ j # next)
      BY <1>4, <1>7, <1>10 DEF Living
    <3>2. Slot(fs, j) # k => (Living(gs, j) => Living(fs, j))
      BY <1>7, <1>10 DEF Living
    <3> QED
      BY <3>1, <3>2
  <2>4. Living(fs, j) => Living(gs, j)
    BY <2>1 DEF Living
  <2> QED
    BY <2>1, <2>2, <2>3, <2>4
<1>14. ~ Living(fs, next)
  BY <1>2, <1>3, <1>11 DEF next
<1>15. GetIteration(gs, next) = is
  BY <1>3, <1>7, <1>10 DEF k
<1>16. Window(gs)
  <2>1. gs.num_outstanding_iterations <= gs.max_parallel_iterations /\ Oldest(gs) >= 0
    BY <1>1, <1>2, <1>3, <1>8, <1>9
  <2>2. \A j \in Oldest(gs) .. gs.iteration_count : Living(gs, j)
    <3>1. \A j \in Oldest(fs) .. next : j \in Nat /\ (j \in Oldest(fs) .. fs.iteration_count \/ j = next)
      BY <1>2, <1>3 DEF next
    <3> QED
      BY <1>8, <1>9, <1>11, <1>13, <3>1
  <2>3. ASSUME NEW l \in 0 .. gs.max_parallel_iterations, gs.iterations[l] # NoIteration
        PROVE  /\ gs.iterations[l].iter \in Oldest(gs) .. gs.iteration_count
               /\ Slot(gs, gs.iterations[l].iter) = l
    <3>1. l \in 0 .. Parallel(f) /\ l \in 0 .. fs.max_parallel_iterations
      BY <1>2, <1>8, <2>3
    <3>2. CASE l = k
      <4>1. gs.iterations[l].iter = next
        BY <1>4, <1>7, <1>8, <3>2
      <4>2. next \in Oldest(gs) .. gs.iteration_count
        BY <1>2, <1>3, <1>8, <1>9 DEF next
      <4>3. Slot(gs, next) = k
        BY <1>3, <1>10 DEF k
      <4> QED
        BY <3>2, <4>1, <4>2, <4>3
    <3>3. CASE l # k
      <4>1. gs.iterations[l] = fs.iterations[l]
        BY <1>7, <1>8, <3>1, <3>3
      <4>2. fs.iterations[l].iter \in Oldest(fs) .. fs.iteration_count /\ Slot(fs, fs.iterations[l].iter) = l
        BY <1>1, <2>3, <3>1, <4>1 DEF Window
      <4>3. Slot(gs, gs.iterations[l].iter) = Slot(fs, fs.iterations[l].iter)
        BY <1>8, <4>1 DEF Slot
      <4>4. fs.iterations[l].iter \in Oldest(fs) .. next
        BY <1>2, <1>3, <4>2 DEF next
      <4> QED
        BY <1>8, <1>9, <4>1, <4>2, <4>3, <4>4
    <3> QED
      BY <3>2, <3>3
  <2> QED
    BY <2>1, <2>2, <2>3 DEF Window
<1>17. FrameOK(gs, f)
  BY <1>1, <1>8, <1>13, <1>16 DEF FrameOK
<1> QED
  BY <1>8, <1>9, <1>13, <1>14, <1>15, <1>17 DEF gs, next, is

-----------------------------------------------------------------------------
(* One edge.                                                               *)

\* Only the counts of a node have changed.
Counts(f, n, is, js) ==
    /\ js \in Iterations(f) /\ js.iter = is.iter
    /\ js.outstanding_ops = is.outstanding_ops
    /\ js.outstanding_frame_count = is.outstanding_frame_count
    /\ \A m \in NodesOf(FrameInfo(f)) : m # n => js.pending[m] = is.pending[m]

\* A dead input of a node leaves what it waits for.
LEMMA DeadCounts ==
    ASSUME NEW f, NEW is \in Iterations(f), NEW n \in NodesOf(FrameInfo(f)), NEW dead
    PROVE  LET js == increment_dead_count(is, n, dead)
           IN  Counts(f, n, is, js) /\ js.pending = is.pending
<1> DEFINE js == [is EXCEPT !.dead_count[n] = @ + 1]
<1>1. is.dead_count \in [NodesOf(FrameInfo(f)) -> Int]
  BY IterationFields
<1>2. [is.dead_count EXCEPT ![n] = @ + 1] \in [NodesOf(FrameInfo(f)) -> Int]
  BY <1>1
<1>3. js = [is EXCEPT !.dead_count = [is.dead_count EXCEPT ![n] = @ + 1]]
  OBVIOUS
<1> HIDE DEF js
<1>4. Counts(f, n, is, js) /\ js.pending = is.pending
  BY <1>2, <1>3 DEF Counts, Iterations
<1>5. Counts(f, n, is, is)
  BY DEF Counts
<1> QED
  BY <1>4, <1>5 DEF increment_dead_count, js

\* The count of one node is set, and no other count of the iteration.
LEMMA PendingCounts ==
    ASSUME NEW f, NEW is \in Iterations(f), NEW n \in NodesOf(FrameInfo(f)), NEW v \in Int
    PROVE  LET js == [is EXCEPT !.pending[n] = v]
           IN  Counts(f, n, is, js) /\ js.pending[n] = v
<1> DEFINE js == [is EXCEPT !.pending[n] = v]
<1>1. is.pending \in [NodesOf(FrameInfo(f)) -> Int]
  BY IterationFields
<1>2. [is.pending EXCEPT ![n] = v] \in [NodesOf(FrameInfo(f)) -> Int]
  BY <1>1
<1>3. js = [is EXCEPT !.pending = [is.pending EXCEPT ![n] = v]]
  OBVIOUS
<1> HIDE DEF js
<1>4. js \in Iterations(f) /\ js.pending = [is.pending EXCEPT ![n] = v]
  BY <1>2, <1>3 DEF Iterations
<1>5. /\ js.iter = is.iter /\ js.outstanding_ops = is.outstanding_ops
      /\ js.outstanding_frame_count = is.outstanding_frame_count
  BY <1>3 DEF Iterations
<1>6. js.pending[n] = v /\ \A m \in NodesOf(FrameInfo(f)) : m # n => js.pending[m] = is.pending[m]
  BY <1>1, <1>4
<1> QED
  BY <1>4, <1>5, <1>6 DEF Counts, js

\* An edge to a merge changes the counts of that merge alone.
LEMMA MergeCounts ==
    ASSUME NEW f, NEW is \in Iterations(f), NEW e, e.to \in NodesOf(FrameInfo(f)), NEW out,
           out.live \in SUBSET (0 .. 1), NEW from_enter \in BOOLEAN
    PROVE  LET r == ActivateMerge(is, out, e, from_enter)
           IN  Counts(f, e.to, is, r.is) /\ r.dead \in BOOLEAN /\ r.ready \in BOOLEAN /\ r.need \in BOOLEAN
<1>1. is.pending[e.to] \in Int
  BY IterationFields
<1>2. CASE e.slot = Control
  <2> DEFINE v == is.pending[e.to] - 2
             js == [is EXCEPT !.pending[e.to] = v]
             all_dead == js.dead_count[e.to] = graph.num_inputs[e.to]
  <2>1. Counts(f, e.to, is, js)
    BY <1>1, PendingCounts
  <2>2. ActivateMerge(is, out, e, from_enter) =
          [is |-> js, dead |-> all_dead, need |-> FALSE,
           ready |-> js.pending[e.to] = 0 \/ (js.pending[e.to] = 1 /\ all_dead)]
    <3>1. js = [is EXCEPT !.pending[e.to] = @ - 2]
      OBVIOUS
    <3>2. e.slot \notin out.live
      BY <1>2 DEF Control
    <3> HIDE DEF js
    <3> QED
      BY <1>2, <3>1, <3>2 DEF ActivateMerge
  <2> HIDE DEF js
  <2> QED
    BY <2>1, <2>2
<1>3. CASE e.slot # Control /\ e.slot \in out.live
  <2>1. Counts(f, e.to, is, mark_live(is, e.to))
    <3> DEFINE v == is.pending[e.to] - (is.pending[e.to] % 2)
    <3>1. v \in Int
      BY <1>1
    <3>2. mark_live(is, e.to) = [is EXCEPT !.pending[e.to] = v]
      BY DEF mark_live
    <3> HIDE DEF v
    <3> QED
      BY <3>1, <3>2, PendingCounts
  <2> QED
    BY <1>3, <2>1 DEF ActivateMerge
<1>4. CASE e.slot # Control /\ e.slot \notin out.live
  <2>1. Counts(f, e.to, is, increment_dead_count(is, e.to, TRUE))
    BY DeadCounts
  <2> QED
    BY <1>4, <2>1 DEF ActivateMerge
<1> QED
  BY <1>2, <1>3, <1>4

\* An edge to another node takes one from what it waits for, and it is ready at zero.
LEMMA OtherCounts ==
    ASSUME NEW f, NEW is \in Iterations(f), NEW e, e.to \in NodesOf(FrameInfo(f)), NEW out, NEW is_dead
    PROVE  LET r == ActivateOther(is, out, e, is_dead)
           IN  /\ Counts(f, e.to, is, r.is) /\ r.dead \in BOOLEAN /\ r.ready \in BOOLEAN /\ r.need \in BOOLEAN
               /\ r.is.pending[e.to] = is.pending[e.to] - 1
               /\ r.ready <=> r.is.pending[e.to] = 0
<1> DEFINE missing == e.slot # Control /\ e.slot \notin out.live
           js == increment_dead_count(is, e.to, is_dead \/ missing)
           ks == [js EXCEPT !.pending[e.to] = @ - 1]
<1>1. Counts(f, e.to, is, js) /\ js.pending = is.pending
  BY DeadCounts
<1>2. js \in Iterations(f)
  BY <1>1 DEF Counts
<1> HIDE DEF js
<1>3. js.pending[e.to] \in Int
  BY <1>2, IterationFields
<1>4. Counts(f, e.to, js, ks) /\ ks.pending[e.to] = js.pending[e.to] - 1
  <2> DEFINE v == js.pending[e.to] - 1
             ls == [js EXCEPT !.pending[e.to] = v]
  <2>1. v \in Int
    BY <1>3
  <2>2. Counts(f, e.to, js, ls) /\ ls.pending[e.to] = v
    <3> HIDE DEF v
    <3> QED
      BY <1>2, <2>1, PendingCounts
  <2>3. ls = ks
    OBVIOUS
  <2> QED
    BY <2>2, <2>3
<1>5. Counts(f, e.to, is, ks)
  BY <1>1, <1>4 DEF Counts
<1>6. IsDead(ks, e.to) \in BOOLEAN
  BY DEF IsDead
<1>7. ActivateOther(is, out, e, is_dead) =
         [is |-> ks, need |-> e.slot \in out.live, ready |-> ks.pending[e.to] = 0, dead |-> IsDead(ks, e.to)]
  BY DEF ActivateOther, js
<1> HIDE DEF ks, missing
<1>8. (e.slot \in out.live) \in BOOLEAN /\ (ks.pending[e.to] = 0) \in BOOLEAN
  OBVIOUS
<1> DEFINE r == ActivateOther(is, out, e, is_dead)
<1>9. r.is = ks /\ r.need = (e.slot \in out.live) /\ r.dead = IsDead(ks, e.to)
      /\ r.ready = (ks.pending[e.to] = 0)
  BY <1>7
<1> HIDE DEF r
<1>10. r.need \in BOOLEAN /\ r.dead \in BOOLEAN /\ r.ready \in BOOLEAN
  BY <1>6, <1>8, <1>9
<1>11. r.is.pending[e.to] = is.pending[e.to] - 1 /\ (r.ready <=> r.is.pending[e.to] = 0)
  BY <1>1, <1>4, <1>9
<1>12. Counts(f, e.to, is, r.is)
  BY <1>5, <1>9
<1> QED
  BY <1>10, <1>11, <1>12 DEF r

-----------------------------------------------------------------------------
(* What happens to a frame and to the nodes that become ready.             *)

Accs(f) == {a \in [fs : FrameStates(f), ready : Seq(Tagged)] : FrameOK(a.fs, f)}

\* Every node that becomes ready is counted in its iteration, and is no Enter that was ready before.
Moves(a, b, f) ==
    /\ \A i \in Nat : /\ SubIn(b.fs, i) = SubIn(a.fs, i)
                      /\ OpsIn(b.fs, i) - OpsIn(a.fs, i) =
                            Among(b.ready, NodesIn(f, i)) - Among(a.ready, NodesIn(f, i))
    /\ \A n \in Enters, i \in Nat :
          graph.frame[n] = FrameInfo(f) =>
             MayIn(b.fs, n, i) + Among(b.ready, OneNode(n, f, i))
                <= MayIn(a.fs, n, i) + Among(a.ready, OneNode(n, f, i))
    /\ \A M : (\A x \in Tagged : x \in M => x.frame # f) => Among(b.ready, M) = Among(a.ready, M)
    /\ b.fs.num_pending_inputs = a.fs.num_pending_inputs

\* The numbers that Moves compares.
LEMMA MovesNumbers ==
    ASSUME GraphOK, NEW f \in Paths, NEW a \in Accs(f), NEW i \in Nat
    PROVE  /\ OpsIn(a.fs, i) \in Int /\ SubIn(a.fs, i) \in Int /\ a.fs.num_pending_inputs \in Int
           /\ \A n : MayIn(a.fs, n, i) \in Nat
           /\ \A M : Among(a.ready, M) \in Nat
           /\ a.fs \in FrameStates(f) /\ FrameOK(a.fs, f) /\ a.ready \in Seq(Tagged)
<1>1. a.fs \in FrameStates(f) /\ FrameOK(a.fs, f) /\ a.ready \in Seq(Tagged)
  BY DEF Accs
<1>2. OpsIn(a.fs, i) \in Int /\ SubIn(a.fs, i) \in Int /\ a.fs.num_pending_inputs \in Int
  BY <1>1, GetIs, FrameFields
<1>3. \A n : MayIn(a.fs, n, i) \in Nat
  BY DEF MayIn
<1>4. \A M : Among(a.ready, M) \in Nat
  BY <1>1, AmongIs
<1> QED
  BY <1>1, <1>2, <1>3, <1>4

\* Nothing has moved at first.
LEMMA MovesSelf ==
    ASSUME GraphOK, NEW f \in Paths, NEW a \in Accs(f)
    PROVE  Moves(a, a, f)
<1>1. \A i \in Nat : OpsIn(a.fs, i) \in Int
  BY MovesNumbers
<1>2. \A M : Among(a.ready, M) \in Nat
  BY MovesNumbers
<1>3. \A i \in Nat : \A n : MayIn(a.fs, n, i) \in Nat
  BY MovesNumbers
<1>4. \A i \in Nat : OpsIn(a.fs, i) - OpsIn(a.fs, i) = Among(a.ready, NodesIn(f, i)) - Among(a.ready, NodesIn(f, i))
  BY <1>1, <1>2
<1>5. \A n \in Enters, i \in Nat :
         MayIn(a.fs, n, i) + Among(a.ready, OneNode(n, f, i)) <= MayIn(a.fs, n, i) + Among(a.ready, OneNode(n, f, i))
  BY <1>2, <1>3
<1> QED
  BY <1>4, <1>5 DEF Moves

\* What two moves do, one after the other.
LEMMA MovesOn ==
    ASSUME GraphOK, NEW f \in Paths, NEW a \in Accs(f), NEW b \in Accs(f), NEW c \in Accs(f),
           Moves(a, b, f), Moves(b, c, f)
    PROVE  Moves(a, c, f)
<1>1. ASSUME NEW i \in Nat
      PROVE  /\ SubIn(c.fs, i) = SubIn(a.fs, i)
             /\ OpsIn(c.fs, i) - OpsIn(a.fs, i) =
                   Among(c.ready, NodesIn(f, i)) - Among(a.ready, NodesIn(f, i))
  <2>1. /\ OpsIn(a.fs, i) \in Int /\ OpsIn(b.fs, i) \in Int /\ OpsIn(c.fs, i) \in Int
        /\ Among(a.ready, NodesIn(f, i)) \in Nat /\ Among(b.ready, NodesIn(f, i)) \in Nat
        /\ Among(c.ready, NodesIn(f, i)) \in Nat
    BY MovesNumbers
  <2>2. /\ SubIn(c.fs, i) = SubIn(a.fs, i)
        /\ OpsIn(b.fs, i) - OpsIn(a.fs, i) = Among(b.ready, NodesIn(f, i)) - Among(a.ready, NodesIn(f, i))
        /\ OpsIn(c.fs, i) - OpsIn(b.fs, i) = Among(c.ready, NodesIn(f, i)) - Among(b.ready, NodesIn(f, i))
    BY DEF Moves
  <2> QED
    BY <2>1, <2>2
<1>2. ASSUME NEW n \in Enters, NEW i \in Nat, graph.frame[n] = FrameInfo(f)
      PROVE  MayIn(c.fs, n, i) + Among(c.ready, OneNode(n, f, i))
                <= MayIn(a.fs, n, i) + Among(a.ready, OneNode(n, f, i))
  <2>1. /\ MayIn(a.fs, n, i) \in Nat /\ MayIn(b.fs, n, i) \in Nat /\ MayIn(c.fs, n, i) \in Nat
        /\ Among(a.ready, OneNode(n, f, i)) \in Nat /\ Among(b.ready, OneNode(n, f, i)) \in Nat
        /\ Among(c.ready, OneNode(n, f, i)) \in Nat
    BY MovesNumbers
  <2>2. /\ MayIn(b.fs, n, i) + Among(b.ready, OneNode(n, f, i))
                <= MayIn(a.fs, n, i) + Among(a.ready, OneNode(n, f, i))
        /\ MayIn(c.fs, n, i) + Among(c.ready, OneNode(n, f, i))
                <= MayIn(b.fs, n, i) + Among(b.ready, OneNode(n, f, i))
    BY <1>2 DEF Moves
  <2> QED
    BY <2>1, <2>2
<1>3. \A M : (\A x \in Tagged : x \in M => x.frame # f) => Among(c.ready, M) = Among(a.ready, M)
  BY DEF Moves
<1>4. c.fs.num_pending_inputs = a.fs.num_pending_inputs
  BY DEF Moves
<1> QED
  BY <1>1, <1>2, <1>3, <1>4 DEF Moves

\* One node is sent an output: its counts, and with it whether it is ready.
LEMMA ArriveMoves ==
    ASSUME GraphOK, NEW f \in Paths, NEW a \in Accs(f), NEW iter \in Nat, Living(a.fs, iter),
           NEW out, NEW e, e.to \in NodesOf(FrameInfo(f)),
           Entry(out, e) \in [node : DOMAIN graph.kind, at : Int, from : DOMAIN graph.kind, iter : Nat],
           NEW r, Counts(f, e.to, GetIteration(a.fs, iter), r.is),
           r.ready \in BOOLEAN, r.dead \in BOOLEAN, r.need \in BOOLEAN,
           e.to \in Enters =>
              /\ r.is.pending[e.to] = GetIteration(a.fs, iter).pending[e.to] - 1
              /\ r.ready <=> r.is.pending[e.to] = 0
    PROVE  LET b == Arrive(a, f, iter, out, e, r)
           IN  b \in Accs(f) /\ Moves(a, b, f) /\ Alike(a.fs, b.fs)
<1> DEFINE is == GetIteration(a.fs, iter)
           filled == IF r.need THEN [r.is EXCEPT !.input_tensors = @ \union {Entry(out, e)}] ELSE r.is
           js == IF r.ready THEN [filled EXCEPT !.outstanding_ops = @ + 1] ELSE filled
           gs == SetIteration(a.fs, iter, js)
           x == [node |-> e.to, frame |-> f, iter |-> iter, dead |-> r.dead]
           q == IF r.ready THEN Append(a.ready, x) ELSE a.ready
           one == IF r.ready THEN 1 ELSE 0
           b == [fs |-> gs, ready |-> q]
<1>1. a.fs \in FrameStates(f) /\ FrameOK(a.fs, f) /\ a.ready \in Seq(Tagged) /\ a = [fs |-> a.fs, ready |-> a.ready]
  BY DEF Accs
<1>2. is \in Iterations(f) /\ is.iter = iter
  BY <1>1, GetIs DEF Living
<1>3. /\ filled \in Iterations(f) /\ filled.iter = iter
      /\ filled.outstanding_ops = is.outstanding_ops
      /\ filled.outstanding_frame_count = is.outstanding_frame_count
      /\ filled.pending = r.is.pending
  <2>1. r.is \in Iterations(f) /\ r.is.iter = iter /\ r.is.outstanding_ops = is.outstanding_ops
        /\ r.is.outstanding_frame_count = is.outstanding_frame_count
    BY <1>2 DEF Counts
  <2>2. [r.is EXCEPT !.input_tensors = @ \union {Entry(out, e)}] \in Iterations(f)
    BY <2>1 DEF Iterations
  <2> QED
    BY <2>1, <2>2 DEF Iterations
<1> HIDE DEF filled
<1>4. /\ js \in Iterations(f) /\ js.iter = iter
      /\ js.outstanding_ops = is.outstanding_ops + one
      /\ js.outstanding_frame_count = is.outstanding_frame_count
      /\ js.pending = r.is.pending
  <2>1. CASE r.ready
    <3>1. filled.outstanding_ops + 1 \in Int
      BY <1>3, IterationFields
    <3>2. js = [filled EXCEPT !.outstanding_ops = @ + 1] /\ one = 1
      BY <2>1
    <3> HIDE DEF js, one
    <3> QED
      BY <1>3, <3>1, <3>2 DEF Iterations
  <2>2. CASE ~ r.ready
    <3>1. is.outstanding_ops \in Int
      BY <1>2, IterationFields
    <3> QED
      BY <1>3, <2>2, <3>1
  <2> QED
    BY <2>1, <2>2
<1>5. Arrive(a, f, iter, out, e, r) = b
  <2>1. CASE r.ready
    BY <2>1 DEF Arrive, filled
  <2>2. CASE ~ r.ready
    <3>1. [a EXCEPT !.fs = gs] = b
      BY <1>1, <2>2
    <3> QED
      BY <2>2, <3>1 DEF Arrive, filled
  <2> QED
    BY <2>1, <2>2
<1>6. x \in Tagged
  BY DEF Tagged, NodesOf
<1>7. q \in Seq(Tagged) /\ \A M : Among(q, M) = Among(a.ready, M) + (IF r.ready THEN IfIn(x, M) ELSE 0)
  <2>1. \A M : Among(a.ready, M) \in Nat
    BY <1>1, AmongIs
  <2> HIDE DEF x
  <2> QED
    BY <1>1, <1>6, <2>1, AmongAppend
<1>8. /\ \A i \in Nat : IfIn(x, NodesIn(f, i)) = IF i = iter THEN 1 ELSE 0
      /\ \A n \in Enters, i \in Nat : IfIn(x, OneNode(n, f, i)) = IF i = iter /\ n = e.to THEN 1 ELSE 0
      /\ \A M : (\A y \in Tagged : y \in M => y.frame # f) => IfIn(x, M) = 0
  BY <1>6 DEF IfIn, NodesIn, OneNode, Tagged
<1> HIDE DEF js, x
<1>9. /\ FrameOK(gs, f) /\ Alike(a.fs, gs) /\ GetIteration(gs, iter) = js
      /\ \A j \in Nat : j # iter /\ Living(a.fs, j) => GetIteration(gs, j) = GetIteration(a.fs, j)
  BY <1>1, <1>4, InPlace
<1> HIDE DEF gs
<1>10. \A j \in Nat : Living(gs, j) <=> Living(a.fs, j)
  BY <1>9 DEF Alike
<1>11. b \in Accs(f)
  BY <1>7, <1>9 DEF Accs, FrameOK
<1>12. ASSUME NEW i \in Nat
       PROVE  /\ SubIn(gs, i) = SubIn(a.fs, i)
              /\ OpsIn(gs, i) = OpsIn(a.fs, i) + (IF i = iter THEN one ELSE 0)
  <2>1. CASE i = iter
    BY <1>4, <1>9, <1>10, <2>1 DEF SubIn, OpsIn
  <2>2. CASE i # iter
    <3>1. OpsIn(a.fs, i) \in Int
      BY <1>1, GetIs
    <3> QED
      BY <1>9, <1>10, <2>2, <3>1 DEF SubIn, OpsIn
  <2> QED
    BY <2>1, <2>2
<1>13. ASSUME NEW n \in Enters, NEW i \in Nat, graph.frame[n] = FrameInfo(f)
       PROVE  MayIn(gs, n, i) + (IF r.ready THEN IfIn(x, OneNode(n, f, i)) ELSE 0) <= MayIn(a.fs, n, i)
  <2>0. n \in NodesOf(FrameInfo(f))
    BY <1>13, GraphFacts DEF NodesOf
  <2>1. CASE i = iter /\ n = e.to
    <3>1. is.pending[n] \in Int /\ js.pending[n] = is.pending[n] - 1
      BY <1>2, <1>4, <2>0, <2>1, IterationFields
    <3>2. MayIn(gs, n, i) = (IF js.pending[n] > 0 THEN 1 ELSE 0) /\ MayIn(a.fs, n, i) = (IF is.pending[n] > 0 THEN 1 ELSE 0)
      BY <1>9, <1>10, <2>1 DEF MayIn
    <3>3. r.ready <=> js.pending[n] = 0
      BY <1>4, <2>1
    <3>4. (IF r.ready THEN IfIn(x, OneNode(n, f, i)) ELSE 0) = IF js.pending[n] = 0 THEN 1 ELSE 0
      BY <1>8, <2>1, <3>3
    <3> QED
      BY <3>1, <3>2, <3>4
  <2>2. CASE ~ (i = iter /\ n = e.to)
    <3>1. MayIn(gs, n, i) = MayIn(a.fs, n, i)
      <4>1. CASE i = iter
        <5>1. js.pending[n] = is.pending[n]
          BY <1>4, <2>0, <2>2, <4>1 DEF Counts
        <5> QED
          BY <1>9, <1>10, <4>1, <5>1 DEF MayIn
      <4>2. CASE i # iter
        BY <1>9, <1>10, <4>2 DEF MayIn, Alike
      <4> QED
        BY <4>1, <4>2
    <3>2. (IF r.ready THEN IfIn(x, OneNode(n, f, i)) ELSE 0) = 0
      BY <1>8, <2>2
    <3>3. MayIn(a.fs, n, i) \in Nat
      BY MovesNumbers
    <3> QED
      BY <3>1, <3>2, <3>3
  <2> QED
    BY <2>1, <2>2
<1>14. Moves(a, b, f)
  <2>1. ASSUME NEW i \in Nat
        PROVE  /\ SubIn(gs, i) = SubIn(a.fs, i)
               /\ OpsIn(gs, i) - OpsIn(a.fs, i) = Among(q, NodesIn(f, i)) - Among(a.ready, NodesIn(f, i))
    <3>1. OpsIn(a.fs, i) \in Int /\ Among(a.ready, NodesIn(f, i)) \in Nat
      BY MovesNumbers
    <3>2. Among(q, NodesIn(f, i)) = Among(a.ready, NodesIn(f, i)) + (IF i = iter THEN one ELSE 0)
      BY <1>7, <1>8, <3>1
    <3>3. one \in Int
      OBVIOUS
    <3> HIDE DEF q, one
    <3> QED
      BY <1>12, <3>1, <3>2, <3>3
  <2>2. ASSUME NEW n \in Enters, NEW i \in Nat, graph.frame[n] = FrameInfo(f)
        PROVE  MayIn(gs, n, i) + Among(q, OneNode(n, f, i)) <= MayIn(a.fs, n, i) + Among(a.ready, OneNode(n, f, i))
    <3> DEFINE d == IF r.ready THEN IfIn(x, OneNode(n, f, i)) ELSE 0
    <3>1. MayIn(gs, n, i) + d <= MayIn(a.fs, n, i)
      BY <1>13, <2>2
    <3>2. Among(q, OneNode(n, f, i)) = Among(a.ready, OneNode(n, f, i)) + d
      BY <1>7
    <3>3. MayIn(a.fs, n, i) \in Nat /\ Among(a.ready, OneNode(n, f, i)) \in Nat
      BY MovesNumbers
    <3>4. MayIn(gs, n, i) \in Nat /\ d \in Nat
      BY DEF MayIn, IfIn
    <3> HIDE DEF d, q
    <3> QED
      BY <3>1, <3>2, <3>3, <3>4
  <2>3. ASSUME NEW M, \A y \in Tagged : y \in M => y.frame # f
        PROVE  Among(q, M) = Among(a.ready, M)
    <3>1. Among(a.ready, M) \in Nat
      BY MovesNumbers
    <3>2. IfIn(x, M) = 0
      BY <1>8, <2>3
    <3> HIDE DEF q
    <3> QED
      BY <1>7, <3>1, <3>2
  <2>4. gs.num_pending_inputs = a.fs.num_pending_inputs
    BY <1>9 DEF Alike
  <2> HIDE DEF q
  <2> QED
    BY <2>1, <2>2, <2>3, <2>4 DEF Moves
<1> QED
  BY <1>5, <1>9, <1>11, <1>14

\* ActivateEdge: a node that gets ready is counted, and may not get ready again.
LEMMA EdgeMoves ==
    ASSUME GraphOK, NEW f \in Paths, NEW a \in Accs(f), NEW iter \in Nat, Living(a.fs, iter),
           NEW out \in Outputs(f), NEW is_dead, NEW k \in DOMAIN graph.out[out.node]
    PROVE  LET b == ActivateEdge(a, f, iter, out, is_dead, graph.out[out.node][k])
           IN  b \in Accs(f) /\ Moves(a, b, f) /\ Alike(a.fs, b.fs)
<1> DEFINE e == graph.out[out.node][k]
           is == GetIteration(a.fs, iter)
           r == IF Kind(e.to) = "merge" THEN ActivateMerge(is, out, e, IsEnter(out.node))
                                        ELSE ActivateOther(is, out, e, is_dead)
<1>1. /\ out.node \in DOMAIN graph.kind /\ Leads(graph, out.node, FrameInfo(f))
      /\ out.iter \in Nat /\ out.live \in SUBSET (0 .. 1)
  BY DEF Outputs, Into
<1>2. graph.out[out.node] \in Seq([to : DOMAIN graph.kind, slot : Int, at : Int])
  BY <1>1, GraphFacts
<1>3. e \in [to : DOMAIN graph.kind, slot : Int, at : Int]
  BY <1>2, SeqOf
<1>4. a.fs \in FrameStates(f)
  BY DEF Accs
<1>5. is \in Iterations(f)
  BY <1>4, GetIs
<1>6. CASE Kind(e.to) = "sink"
  <2>1. ActivateEdge(a, f, iter, out, is_dead, e) = a
    BY <1>6 DEF ActivateEdge
  <2>2. Moves(a, a, f) /\ Alike(a.fs, a.fs)
    BY MovesSelf DEF Alike
  <2> HIDE DEF e
  <2> QED
    BY <2>1, <2>2 DEF e
<1>7. CASE Kind(e.to) # "sink"
  <2>1. e.to \in NodesOf(FrameInfo(f))
    BY <1>1, <1>3, <1>7 DEF Leads, Kind, NodesOf
  <2>2. Entry(out, e) \in [node : DOMAIN graph.kind, at : Int, from : DOMAIN graph.kind, iter : Nat]
    BY <1>1, <1>3 DEF Entry
  <2>3. ActivateEdge(a, f, iter, out, is_dead, e) = Arrive(a, f, iter, out, e, r)
    BY <1>7 DEF ActivateEdge
  <2> HIDE DEF e
  <2>4. /\ Counts(f, e.to, is, r.is)
        /\ r.ready \in BOOLEAN /\ r.dead \in BOOLEAN /\ r.need \in BOOLEAN
        /\ e.to \in Enters => /\ r.is.pending[e.to] = is.pending[e.to] - 1
                              /\ r.ready <=> r.is.pending[e.to] = 0
    <3>1. CASE Kind(e.to) = "merge"
      <4>1. e.to \notin Enters
        BY <1>3, <3>1, GraphFacts DEF IsEnter
      <4>2. IsEnter(out.node) \in BOOLEAN
        BY DEF IsEnter
      <4>3. r = ActivateMerge(is, out, e, IsEnter(out.node))
        BY <3>1
      <4> HIDE DEF r, is
      <4> QED
        BY <1>1, <1>5, <2>1, <4>1, <4>2, <4>3, MergeCounts
    <3>2. CASE Kind(e.to) # "merge"
      <4>1. r = ActivateOther(is, out, e, is_dead)
        BY <3>2
      <4> HIDE DEF r, is
      <4> QED
        BY <1>5, <2>1, <4>1, OtherCounts
    <3> QED
      BY <3>1, <3>2
  <2> HIDE DEF r
  <2>5. LET b == Arrive(a, f, iter, out, e, r)
        IN  b \in Accs(f) /\ Moves(a, b, f) /\ Alike(a.fs, b.fs)
    BY <2>1, <2>2, <2>4, ArriveMoves
  <2> QED
    BY <2>3, <2>5 DEF e
<1> QED
  BY <1>6, <1>7

-----------------------------------------------------------------------------
(* Folds: a function of the steps that have been taken.                    *)

\* Steps that lead from the set of one step to that of the next can be taken.
LeadsOn(n, S, F, ini) ==
    n \in Nat /\ ini \in S[0] /\ \A k \in 1 .. n : \A a \in S[k - 1] : F[k][a] \in S[k]
FoldOf(g, n, S, F, ini) ==
    /\ g = [k \in 0 .. n |-> IF k = 0 THEN ini ELSE F[k][g[k - 1]]]
    /\ \A k \in 0 .. n : g[k] \in S[k]

\* A function over an interval that goes on from its value before is there.
LEMMA FoldExists ==
    ASSUME NEW n, NEW S, NEW F, NEW ini, LeadsOn(n, S, F, ini)
    PROVE  \E g : FoldOf(g, n, S, F, ini)
<1> DEFINE Ok(m) == \E g : /\ g = [k \in 0 .. m |-> IF k = 0 THEN ini ELSE F[k][g[k - 1]]]
                           /\ \A k \in 0 .. m : g[k] \in S[k]
           T == {m \in 0 .. n : Ok(m)}
<1>0. n \in Nat /\ ini \in S[0] /\ \A k \in 1 .. n : \A a \in S[k - 1] : F[k][a] \in S[k]
  BY DEF LeadsOn
<1>1. 0 \in T
  <2> DEFINE g == [k \in 0 .. 0 |-> ini]
  <2>1. g = [k \in 0 .. 0 |-> IF k = 0 THEN ini ELSE F[k][g[k - 1]]] /\ \A k \in 0 .. 0 : g[k] \in S[k]
    BY <1>0
  <2> HIDE DEF g
  <2> QED
    BY <1>0, <2>1
<1>2. ASSUME NEW m \in 1 .. n, m - 1 \in T PROVE m \in T
  <2>1. PICK g : /\ g = [k \in 0 .. (m - 1) |-> IF k = 0 THEN ini ELSE F[k][g[k - 1]]]
                 /\ \A k \in 0 .. (m - 1) : g[k] \in S[k]
    BY <1>2
  <2> DEFINE h == [k \in 0 .. m |-> IF k = m THEN F[m][g[m - 1]] ELSE g[k]]
  <2>2. h[m] = F[m][g[m - 1]] /\ \A k \in 0 .. (m - 1) : h[k] = g[k]
    OBVIOUS
  <2>3. \A k \in 0 .. m : h[k] = IF k = 0 THEN ini ELSE F[k][h[k - 1]]
    <3>1. \A k \in 0 .. (m - 1) : g[k] = IF k = 0 THEN ini ELSE F[k][g[k - 1]]
      BY <2>1
    <3>2. ASSUME NEW k \in 0 .. (m - 1) PROVE h[k] = IF k = 0 THEN ini ELSE F[k][h[k - 1]]
      <4>1. k = 0 \/ k - 1 \in 0 .. (m - 1)
        OBVIOUS
      <4> HIDE DEF h
      <4> QED
        BY <2>2, <3>1, <3>2, <4>1
    <3>3. h[m] = F[m][h[m - 1]]
      <4>1. m - 1 \in 0 .. (m - 1)
        OBVIOUS
      <4> HIDE DEF h
      <4> QED
        BY <2>2, <4>1
    <3>4. \A k \in 0 .. m : k \in 0 .. (m - 1) \/ k = m
      OBVIOUS
    <3> HIDE DEF h
    <3> QED
      BY <3>2, <3>3, <3>4
  <2>4. h = [k \in 0 .. m |-> IF k = 0 THEN ini ELSE F[k][h[k - 1]]]
    <3>1. h = [k \in 0 .. m |-> h[k]]
      OBVIOUS
    <3> HIDE DEF h
    <3> QED
      BY <2>3, <3>1
  <2>5. \A k \in 0 .. m : h[k] \in S[k]
    <3>1. g[m - 1] \in S[m - 1]
      BY <2>1
    <3>2. F[m][g[m - 1]] \in S[m]
      BY <1>0, <3>1
    <3> QED
      BY <2>1, <2>2, <3>2
  <2> HIDE DEF h
  <2>6. Ok(m)
    BY <2>4, <2>5
  <2> QED
    BY <2>6
<1> HIDE DEF T
<1>3. \A k \in 0 .. n : k \in T
  BY <1>0, <1>1, <1>2, NatInd
<1>4. n \in T
  BY <1>0, <1>3
<1> QED
  BY <1>4 DEF T, FoldOf

\* And so they stay in these sets.
LEMMA FoldStays ==
    ASSUME NEW n \in Nat, NEW S, NEW h, h[0] \in S[0],
           \A k \in 1 .. n : h[k - 1] \in S[k - 1] => h[k] \in S[k]
    PROVE  \A k \in 0 .. n : h[k] \in S[k]
<1> DEFINE T == {k \in 0 .. n : h[k] \in S[k]}
<1>1. 0 \in T /\ \A k \in 1 .. n : k - 1 \in T => k \in T
  OBVIOUS
<1> HIDE DEF T
<1>2. \A k \in 0 .. n : k \in T
  BY <1>1, NatInd
<1> QED
  BY <1>2 DEF T

\* What stays within a frame: its iterations, and the counts of its nodes.
LEMMA NodesMove ==
    ASSUME GraphOK, NEW f \in Paths, NEW acc \in Accs(f), NEW iter \in Nat, Living(acc.fs, iter),
           NEW out \in Outputs(f), NEW is_dead
    PROVE  LET b == ActivateNodes(acc, f, iter, out, is_dead)
           IN  b \in Accs(f) /\ Moves(acc, b, f) /\ Alike(acc.fs, b.fs)
<1> DEFINE edges == graph.out[out.node]
           n == Len(edges)
           after[k \in 0 .. n] ==
              IF k = 0 THEN acc ELSE ActivateEdge(after[k - 1], f, iter, out, is_dead, edges[k])
           Good == {a \in Accs(f) : Moves(acc, a, f) /\ Alike(acc.fs, a.fs)}
           S == [k \in 0 .. n |-> Good]
           F == [k \in 1 .. n |-> [a \in Good |-> ActivateEdge(a, f, iter, out, is_dead, edges[k])]]
<1>1. n \in Nat /\ DOMAIN edges = 1 .. n
  <2>1. out.node \in DOMAIN graph.kind
    BY DEF Outputs, Into
  <2>2. edges \in Seq([to : DOMAIN graph.kind, slot : Int, at : Int])
    BY <2>1, GraphFacts
  <2> HIDE DEF edges
  <2> QED
    BY <2>2
<1>2. acc \in Good
  BY MovesSelf DEF Alike
<1>3. ASSUME NEW a \in Good, NEW k \in 1 .. n
      PROVE  ActivateEdge(a, f, iter, out, is_dead, edges[k]) \in Good
  <2> DEFINE b == ActivateEdge(a, f, iter, out, is_dead, edges[k])
  <2>1. a \in Accs(f) /\ Moves(acc, a, f) /\ Alike(acc.fs, a.fs)
    OBVIOUS
  <2>2. Living(a.fs, iter)
    BY <2>1 DEF Alike
  <2>3. b \in Accs(f) /\ Moves(a, b, f) /\ Alike(a.fs, b.fs)
    BY <1>1, <2>1, <2>2, EdgeMoves
  <2> HIDE DEF b
  <2>4. Moves(acc, b, f)
    BY <2>1, <2>3, MovesOn
  <2>5. Alike(acc.fs, b.fs)
    BY <2>1, <2>3 DEF Alike
  <2>6. b \in Good
    BY <2>3, <2>4, <2>5
  <2> QED
    BY <2>6 DEF b
<1> HIDE DEF Good, n
<1>4. S[0] = Good /\ \A k \in 1 .. n : S[k - 1] = Good /\ S[k] = Good
  BY <1>1
<1>5. \A k \in 1 .. n : \A a \in Good : F[k][a] = ActivateEdge(a, f, iter, out, is_dead, edges[k])
  OBVIOUS
<1> HIDE DEF S, F, edges
<1>6. LeadsOn(n, S, F, acc)
  BY <1>1, <1>2, <1>3, <1>4, <1>5 DEF LeadsOn
<1>7. PICK g : /\ g = [k \in 0 .. n |-> IF k = 0 THEN acc ELSE F[k][g[k - 1]]]
               /\ \A k \in 0 .. n : g[k] \in S[k]
  BY <1>6, FoldExists DEF FoldOf
<1>8. g = [k \in 0 .. n |-> IF k = 0 THEN acc ELSE ActivateEdge(g[k - 1], f, iter, out, is_dead, edges[k])]
  <2>1. \A k \in 0 .. n : g[k] \in Good
    BY <1>1, <1>4, <1>7
  <2>2. ASSUME NEW k \in 0 .. n
        PROVE  (IF k = 0 THEN acc ELSE F[k][g[k - 1]]) =
               (IF k = 0 THEN acc ELSE ActivateEdge(g[k - 1], f, iter, out, is_dead, edges[k]))
    <3>1. k = 0 \/ (k \in 1 .. n /\ k - 1 \in 0 .. n)
      BY <1>1
    <3> QED
      BY <1>5, <2>1, <3>1
  <2> QED
    BY <1>7, <2>2
<1>9. after = [k \in 0 .. n |-> IF k = 0 THEN acc ELSE ActivateEdge(after[k - 1], f, iter, out, is_dead, edges[k])]
  BY <1>8
<1> HIDE DEF after
<1>10. \A k \in 0 .. n : after[k] \in Good
  <2>1. after[0] \in S[0]
    BY <1>1, <1>2, <1>4, <1>9
  <2>2. ASSUME NEW k \in 1 .. n, after[k - 1] \in S[k - 1] PROVE after[k] \in S[k]
    <3>1. after[k] = ActivateEdge(after[k - 1], f, iter, out, is_dead, edges[k])
      BY <1>1, <1>9
    <3> QED
      BY <1>3, <1>4, <2>2, <3>1
  <2>3. \A k \in 0 .. n : after[k] \in S[k]
    BY <1>1, <2>1, <2>2, FoldStays
  <2> QED
    BY <1>1, <1>4, <2>3 DEF S
<1>11. ActivateNodes(acc, f, iter, out, is_dead) = after[n]
  BY DEF ActivateNodes, after, edges, n
<1>12. after[n] \in Good
  BY <1>1, <1>10
<1> QED
  BY <1>11, <1>12 DEF Good

\* ActivateAll, edge by edge.
LEMMA AllMove ==
    ASSUME GraphOK, NEW f \in Paths, NEW acc \in Accs(f), NEW iter \in Nat, Living(acc.fs, iter),
           NEW outs \in Seq(Outputs(f))
    PROVE  LET b == ActivateAll(acc, f, iter, outs)
           IN  b \in Accs(f) /\ Moves(acc, b, f) /\ Alike(acc.fs, b.fs)
<1> DEFINE n == Len(outs)
           after[k \in 0 .. n] ==
              IF k = 0 THEN acc ELSE ActivateNodes(after[k - 1], f, iter, outs[k], outs[k].live = {})
           Good == {a \in Accs(f) : Moves(acc, a, f) /\ Alike(acc.fs, a.fs)}
           S == [k \in 0 .. n |-> Good]
           F == [k \in 1 .. n |-> [a \in Good |-> ActivateNodes(a, f, iter, outs[k], outs[k].live = {})]]
<1>1. n \in Nat /\ \A k \in 1 .. n : outs[k] \in Outputs(f)
  OBVIOUS
<1>2. acc \in Good
  BY MovesSelf DEF Alike
<1>3. ASSUME NEW a \in Good, NEW k \in 1 .. n
      PROVE  ActivateNodes(a, f, iter, outs[k], outs[k].live = {}) \in Good
  <2> DEFINE b == ActivateNodes(a, f, iter, outs[k], outs[k].live = {})
  <2>1. a \in Accs(f) /\ Moves(acc, a, f) /\ Alike(acc.fs, a.fs)
    OBVIOUS
  <2>2. Living(a.fs, iter)
    BY <2>1 DEF Alike
  <2>3. b \in Accs(f) /\ Moves(a, b, f) /\ Alike(a.fs, b.fs)
    BY <1>1, <2>1, <2>2, NodesMove
  <2> HIDE DEF b
  <2>4. Moves(acc, b, f)
    BY <2>1, <2>3, MovesOn
  <2>5. Alike(acc.fs, b.fs)
    BY <2>1, <2>3 DEF Alike
  <2>6. b \in Good
    BY <2>3, <2>4, <2>5
  <2> QED
    BY <2>6 DEF b
<1> HIDE DEF Good, n
<1>4. S[0] = Good /\ \A k \in 1 .. n : S[k - 1] = Good /\ S[k] = Good
  BY <1>1
<1>5. \A k \in 1 .. n : \A a \in Good : F[k][a] = ActivateNodes(a, f, iter, outs[k], outs[k].live = {})
  OBVIOUS
<1> HIDE DEF S, F
<1>6. LeadsOn(n, S, F, acc)
  BY <1>1, <1>2, <1>3, <1>4, <1>5 DEF LeadsOn
<1>7. PICK g : /\ g = [k \in 0 .. n |-> IF k = 0 THEN acc ELSE F[k][g[k - 1]]]
               /\ \A k \in 0 .. n : g[k] \in S[k]
  BY <1>6, FoldExists DEF FoldOf
<1>8. g = [k \in 0 .. n |-> IF k = 0 THEN acc
                            ELSE ActivateNodes(g[k - 1], f, iter, outs[k], outs[k].live = {})]
  <2>1. \A k \in 0 .. n : g[k] \in Good
    BY <1>1, <1>4, <1>7
  <2>2. ASSUME NEW k \in 0 .. n
        PROVE  (IF k = 0 THEN acc ELSE F[k][g[k - 1]]) =
               (IF k = 0 THEN acc ELSE ActivateNodes(g[k - 1], f, iter, outs[k], outs[k].live = {}))
    <3>1. k = 0 \/ (k \in 1 .. n /\ k - 1 \in 0 .. n)
      BY <1>1
    <3> QED
      BY <1>5, <2>1, <3>1
  <2> QED
    BY <1>7, <2>2
<1>9. after = [k \in 0 .. n |-> IF k = 0 THEN acc
                                ELSE ActivateNodes(after[k - 1], f, iter, outs[k], outs[k].live = {})]
  BY <1>8
<1> HIDE DEF after
<1>10. \A k \in 0 .. n : after[k] \in Good
  <2>1. after[0] \in S[0]
    BY <1>1, <1>2, <1>4, <1>9
  <2>2. ASSUME NEW k \in 1 .. n, after[k - 1] \in S[k - 1] PROVE after[k] \in S[k]
    <3>1. after[k] = ActivateNodes(after[k - 1], f, iter, outs[k], outs[k].live = {})
      BY <1>1, <1>9
    <3> QED
      BY <1>3, <1>4, <2>2, <3>1
  <2>3. \A k \in 0 .. n : after[k] \in S[k]
    BY <1>1, <2>1, <2>2, FoldStays
  <2> QED
    BY <1>1, <1>4, <2>3 DEF S
<1>11. ActivateAll(acc, f, iter, outs) = after[n]
  BY DEF ActivateAll, after, n
<1>12. after[n] \in Good
  BY <1>1, <1>10
<1> QED
  BY <1>11, <1>12 DEF Good

\* The iterations are what they were.
LEMMA SameIterations ==
    ASSUME GraphOK, NEW f \in Paths, NEW fs, FrameOK(fs, f), NEW gs \in FrameStates(f),
           gs.iterations = fs.iterations, gs.iteration_count = fs.iteration_count,
           gs.num_outstanding_iterations = fs.num_outstanding_iterations,
           gs.num_pending_inputs <= fs.num_pending_inputs
    PROVE  /\ FrameOK(gs, f)
           /\ \A i \in Nat : /\ Living(gs, i) <=> Living(fs, i)
                             /\ OpsIn(gs, i) = OpsIn(fs, i) /\ SubIn(gs, i) = SubIn(fs, i)
                             /\ \A n : MayIn(gs, n, i) = MayIn(fs, n, i)
<1>1. fs \in FrameStates(f) /\ Window(fs) /\ (fs.num_pending_inputs > 0 => Living(fs, 0))
  BY DEF FrameOK
<1>2. gs.max_parallel_iterations = fs.max_parallel_iterations
  BY <1>1, FrameFields
<1>3. \A i : Slot(gs, i) = Slot(fs, i) /\ GetIteration(gs, i) = GetIteration(fs, i)
  BY <1>2 DEF Slot, GetIteration
<1>4. \A i : Living(gs, i) <=> Living(fs, i)
  BY <1>3 DEF Living
<1>5. \A i : /\ OpsIn(gs, i) = OpsIn(fs, i) /\ SubIn(gs, i) = SubIn(fs, i)
             /\ \A n : MayIn(gs, n, i) = MayIn(fs, n, i)
  BY <1>3, <1>4 DEF OpsIn, SubIn, MayIn
<1>6. Oldest(gs) = Oldest(fs)
  BY DEF Oldest
<1>7. Window(gs)
  BY <1>1, <1>2, <1>3, <1>4, <1>6 DEF Window
<1>8. gs.num_pending_inputs > 0 => Living(gs, 0)
  <2>1. gs.num_pending_inputs \in Int /\ fs.num_pending_inputs \in Int
    BY <1>1, FrameFields
  <2> QED
    BY <1>1, <1>4, <2>1
<1> QED
  BY <1>4, <1>5, <1>7, <1>8 DEF FrameOK

\* Nothing becomes ready while a frame changes what it keeps for its iterations.
LEMMA Rests ==
    ASSUME GraphOK, NEW f \in Paths, NEW acc \in Accs(f), NEW gs \in FrameStates(f), FrameOK(gs, f),
           gs.num_pending_inputs = acc.fs.num_pending_inputs,
           \A i \in Nat : /\ OpsIn(gs, i) = OpsIn(acc.fs, i) /\ SubIn(gs, i) = SubIn(acc.fs, i)
                          /\ \A n \in Enters : graph.frame[n] = FrameInfo(f) => MayIn(gs, n, i) <= MayIn(acc.fs, n, i)
    PROVE  LET b == [acc EXCEPT !.fs = gs]
           IN  b \in Accs(f) /\ b.fs = gs /\ b.ready = acc.ready /\ Moves(acc, b, f)
<1> DEFINE b == [acc EXCEPT !.fs = gs]
<1>1. acc \in [fs : FrameStates(f), ready : Seq(Tagged)]
  BY DEF Accs
<1>2. b.fs = gs /\ b.ready = acc.ready /\ b \in Accs(f)
  BY <1>1 DEF Accs
<1> HIDE DEF b
<1>3. ASSUME NEW i \in Nat
      PROVE  OpsIn(b.fs, i) - OpsIn(acc.fs, i) = Among(b.ready, NodesIn(f, i)) - Among(acc.ready, NodesIn(f, i))
  <2>1. OpsIn(acc.fs, i) \in Int /\ Among(acc.ready, NodesIn(f, i)) \in Nat
    BY MovesNumbers
  <2>2. OpsIn(b.fs, i) = OpsIn(acc.fs, i) /\ b.ready = acc.ready
    BY <1>2
  <2> QED
    BY <2>1, <2>2
<1>4. ASSUME NEW n \in Enters, NEW i \in Nat, graph.frame[n] = FrameInfo(f)
      PROVE  MayIn(b.fs, n, i) + Among(b.ready, OneNode(n, f, i))
                <= MayIn(acc.fs, n, i) + Among(acc.ready, OneNode(n, f, i))
  <2>1. MayIn(acc.fs, n, i) \in Nat /\ Among(acc.ready, OneNode(n, f, i)) \in Nat /\ MayIn(b.fs, n, i) \in Nat
    BY <1>2, MovesNumbers
  <2>2. MayIn(b.fs, n, i) <= MayIn(acc.fs, n, i) /\ b.ready = acc.ready
    BY <1>2, <1>4
  <2> QED
    BY <2>1, <2>2
<1>5. Moves(acc, b, f)
  BY <1>2, <1>3, <1>4 DEF Moves
<1> QED
  BY <1>2, <1>5 DEF b

\* A value for all iterations, while the first one is outstanding.
LEMMA LoopInvMoves ==
    ASSUME GraphOK, NEW f \in Paths, NEW acc \in Accs(f), Living(acc.fs, 0), NEW out \in Outputs(f)
    PROVE  LET b == AddLoopInv(acc, f, out)
           IN  b \in Accs(f) /\ Moves(acc, b, f) /\ (RootsWait(acc.fs) => RootsWait(b.fs))
<1> DEFINE n == acc.fs.iteration_count + 1
           gs == [acc.fs EXCEPT !.inv_values = Append(@, out)]
           kept == [acc EXCEPT !.fs = gs]
           start == [acc EXCEPT !.fs.inv_values = Append(@, out)]
           after[k \in 0 .. n] ==
              IF k = 0 THEN start
              ELSE ActivateNodes(after[k - 1], f, k - 1, out, out.live = {})
           Good == {a \in Accs(f) : Moves(acc, a, f) /\ Alike(gs, a.fs)}
           S == [k \in 0 .. n |-> Good]
           F == [k \in 1 .. n |-> [a \in Good |-> ActivateNodes(a, f, k - 1, out, out.live = {})]]
<1>1. acc.fs \in FrameStates(f) /\ FrameOK(acc.fs, f) /\ acc.ready \in Seq(Tagged)
  BY DEF Accs
<1>2. acc.fs.iteration_count \in Nat /\ n \in Nat /\ acc.fs.num_pending_inputs \in Int
  BY <1>1, FrameFields
<1>3. \A i \in 0 .. acc.fs.iteration_count : Living(acc.fs, i)
  <2>1. 0 \in Oldest(acc.fs) .. acc.fs.iteration_count
    BY <1>1, LivingIs
  <2>2. Oldest(acc.fs) \in Int
    BY <1>1, FrameFields DEF Oldest
  <2>3. \A i \in 0 .. acc.fs.iteration_count : i \in Oldest(acc.fs) .. acc.fs.iteration_count
    BY <1>2, <2>1, <2>2
  <2> QED
    BY <1>1, <2>3 DEF FrameOK, Window
<1>4. /\ gs \in FrameStates(f) /\ gs.iterations = acc.fs.iterations
      /\ gs.iteration_count = acc.fs.iteration_count
      /\ gs.num_outstanding_iterations = acc.fs.num_outstanding_iterations
      /\ gs.num_pending_inputs = acc.fs.num_pending_inputs
      /\ gs.next_iter_roots = acc.fs.next_iter_roots
      /\ gs.max_parallel_iterations = acc.fs.max_parallel_iterations
  <2>1. acc.fs.inv_values \in Seq(Outputs(f))
    BY <1>1, FrameFields
  <2>2. Append(acc.fs.inv_values, out) \in Seq(Outputs(f))
    BY <2>1
  <2> QED
    BY <1>1, <2>2 DEF FrameStates
<1>5. kept = start
  OBVIOUS
<1> HIDE DEF gs, start
<1>6. /\ FrameOK(gs, f)
      /\ \A i \in Nat : /\ Living(gs, i) <=> Living(acc.fs, i)
                        /\ OpsIn(gs, i) = OpsIn(acc.fs, i) /\ SubIn(gs, i) = SubIn(acc.fs, i)
                        /\ \A m : MayIn(gs, m, i) = MayIn(acc.fs, m, i)
  <2>1. gs.num_pending_inputs <= acc.fs.num_pending_inputs
    BY <1>2, <1>4
  <2> QED
    BY <1>1, <1>4, <2>1, SameIterations
<1>7. kept \in Accs(f) /\ kept.fs = gs /\ Moves(acc, kept, f)
  <2>1. \A i \in Nat : \A m \in Enters : MayIn(gs, m, i) <= MayIn(acc.fs, m, i)
    <3> TAKE i \in Nat
    <3> TAKE m \in Enters
    <3>1. MayIn(gs, m, i) = MayIn(acc.fs, m, i) /\ MayIn(acc.fs, m, i) \in Nat
      BY <1>6, MovesNumbers
    <3> QED
      BY <3>1
  <2> QED
    BY <1>4, <1>6, <2>1, Rests
<1> HIDE DEF kept
<1>8. kept \in Good
  BY <1>7 DEF Alike
<1>9. ASSUME NEW a \in Good, NEW k \in 1 .. n
      PROVE  ActivateNodes(a, f, k - 1, out, out.live = {}) \in Good
  <2> DEFINE b == ActivateNodes(a, f, k - 1, out, out.live = {})
  <2>1. a \in Accs(f) /\ Moves(acc, a, f) /\ Alike(gs, a.fs)
    OBVIOUS
  <2>2. k - 1 \in 0 .. acc.fs.iteration_count /\ k - 1 \in Nat
    BY <1>2
  <2>3. Living(a.fs, k - 1)
    BY <1>3, <1>6, <2>1, <2>2 DEF Alike
  <2>4. b \in Accs(f) /\ Moves(a, b, f) /\ Alike(a.fs, b.fs)
    BY <2>1, <2>2, <2>3, NodesMove
  <2> HIDE DEF b
  <2>5. Moves(acc, b, f)
    BY <2>1, <2>4, MovesOn
  <2>6. Alike(gs, b.fs)
    BY <2>1, <2>4 DEF Alike
  <2>7. b \in Good
    BY <2>4, <2>5, <2>6
  <2> QED
    BY <2>7 DEF b
<1> HIDE DEF Good, n
<1>10. S[0] = Good /\ \A k \in 1 .. n : S[k - 1] = Good /\ S[k] = Good
  BY <1>2
<1>11. \A k \in 1 .. n : \A a \in Good : F[k][a] = ActivateNodes(a, f, k - 1, out, out.live = {})
  OBVIOUS
<1> HIDE DEF S, F
<1>12. LeadsOn(n, S, F, kept)
  BY <1>2, <1>8, <1>9, <1>10, <1>11 DEF LeadsOn
<1>13. PICK g : /\ g = [k \in 0 .. n |-> IF k = 0 THEN kept ELSE F[k][g[k - 1]]]
                /\ \A k \in 0 .. n : g[k] \in S[k]
  BY <1>12, FoldExists DEF FoldOf
<1>14. g = [k \in 0 .. n |-> IF k = 0 THEN start
                             ELSE ActivateNodes(g[k - 1], f, k - 1, out, out.live = {})]
  <2>1. \A k \in 0 .. n : g[k] \in Good
    BY <1>2, <1>10, <1>13
  <2>2. ASSUME NEW k \in 0 .. n
        PROVE  (IF k = 0 THEN kept ELSE F[k][g[k - 1]]) =
               (IF k = 0 THEN start
                ELSE ActivateNodes(g[k - 1], f, k - 1, out, out.live = {}))
    <3>1. k = 0 \/ (k \in 1 .. n /\ k - 1 \in 0 .. n)
      BY <1>2
    <3> QED
      BY <1>5, <1>11, <2>1, <3>1
  <2> QED
    BY <1>13, <2>2
<1>15. after = [k \in 0 .. n |-> IF k = 0 THEN start
                                 ELSE ActivateNodes(after[k - 1], f, k - 1, out, out.live = {})]
  BY <1>14
<1> HIDE DEF after
<1>16. \A k \in 0 .. n : after[k] \in Good
  <2>1. after[0] \in S[0]
    BY <1>2, <1>5, <1>8, <1>10, <1>15
  <2>2. ASSUME NEW k \in 1 .. n, after[k - 1] \in S[k - 1] PROVE after[k] \in S[k]
    <3>1. after[k] = ActivateNodes(after[k - 1], f, k - 1, out, out.live = {})
      BY <1>2, <1>15
    <3> QED
      BY <1>9, <1>10, <2>2, <3>1
  <2>3. \A k \in 0 .. n : after[k] \in S[k]
    BY <1>2, <2>1, <2>2, FoldStays
  <2> QED
    BY <1>2, <1>10, <2>3 DEF S
<1>17. AddLoopInv(acc, f, out) = after[n]
  BY DEF AddLoopInv, after, n, start
<1>18. after[n] \in Accs(f) /\ Moves(acc, after[n], f) /\ Alike(gs, after[n].fs)
  BY <1>2, <1>16 DEF Good
<1>19. RootsWait(acc.fs) => RootsWait(after[n].fs)
  BY <1>4, <1>18 DEF RootsWait, Alike
<1> QED
  BY <1>17, <1>18, <1>19

\* The iteration that begins has no nodes yet.
LEMMA BeginMoves ==
    ASSUME GraphOK, NEW f \in Paths, NEW acc \in Accs(f),
           acc.fs.num_outstanding_iterations < acc.fs.max_parallel_iterations
    PROVE  LET b == [acc EXCEPT !.fs = Begun(acc.fs, FrameInfo(f))]
           IN  /\ b \in Accs(f) /\ b.fs = Begun(acc.fs, FrameInfo(f)) /\ b.ready = acc.ready
               /\ Moves(acc, b, f)
<1> DEFINE fs == acc.fs
           gs == Begun(fs, FrameInfo(f))
           next == fs.iteration_count + 1
<1>1. fs \in FrameStates(f) /\ FrameOK(fs, f)
  BY DEF Accs
<1>2. /\ FrameOK(gs, f) /\ gs.iteration_count = next
      /\ gs.num_pending_inputs = fs.num_pending_inputs
      /\ \A j \in Nat : Living(gs, j) <=> Living(fs, j) \/ j = next
      /\ ~ Living(fs, next) /\ GetIteration(gs, next) = IterationState(FrameInfo(f), next)
      /\ \A j \in Nat : Living(fs, j) => GetIteration(gs, j) = GetIteration(fs, j)
  BY <1>1, BeginNext
<1>3. fs.iteration_count \in Nat /\ next \in Nat
  BY <1>1, FrameFields
<1>4. LET is == IterationState(FrameInfo(f), next)
      IN  is.outstanding_ops = 0 /\ is.outstanding_frame_count = 0
  BY <1>3, StateIs
<1> HIDE DEF gs, next
<1>5. ASSUME NEW i \in Nat
      PROVE  OpsIn(gs, i) = OpsIn(fs, i) /\ SubIn(gs, i) = SubIn(fs, i)
  BY <1>2, <1>4 DEF OpsIn, SubIn
<1>6. ASSUME NEW i \in Nat, NEW n \in Enters PROVE MayIn(gs, n, i) <= MayIn(fs, n, i)
  <2>1. CASE Living(fs, i)
    BY <1>2, <2>1 DEF MayIn
  <2>2. CASE i = next
    <3>1. MayIn(fs, n, i) = 1
      BY <1>2, <1>3, <2>2 DEF MayIn, next
    <3> QED
      BY <3>1 DEF MayIn
  <2>3. CASE ~ Living(fs, i) /\ i # next
    <3>1. ~ Living(gs, i) /\ (i > gs.iteration_count <=> i > fs.iteration_count /\ i # next)
      BY <1>2, <1>3, <2>3 DEF next
    <3>2. i > gs.iteration_count => i > fs.iteration_count
      BY <3>1
    <3> QED
      BY <2>3, <3>1, <3>2 DEF MayIn
  <2> QED
    BY <2>1, <2>2, <2>3
<1>7. gs \in FrameStates(f)
  BY <1>2 DEF FrameOK
<1> QED
  BY <1>2, <1>5, <1>6, <1>7, Rests DEF gs

\* IncrementIteration starts an iteration and counts what it makes ready there.
LEMMA IncrementMoves ==
    ASSUME GraphOK, NEW f \in Paths, NEW acc \in Accs(f),
           acc.fs.num_outstanding_iterations < acc.fs.max_parallel_iterations
    PROVE  LET b == IncrementIteration(acc, f)
               next == acc.fs.iteration_count + 1
           IN  /\ b \in Accs(f) /\ Moves(acc, b, f) /\ b.fs.next_iter_roots = <<>>
               /\ b.fs.iteration_count = next /\ Oldest(b.fs) = Oldest(acc.fs)
               /\ \A j \in Nat : Living(b.fs, j) <=> Living(acc.fs, j) \/ j = next
<1> DEFINE fs == acc.fs
           next == fs.iteration_count + 1
           gs == Begun(fs, FrameInfo(f))
           begun == [acc EXCEPT !.fs = gs]
           nexts == ActivateAll(begun, f, next, fs.next_iter_roots)
           b == ActivateAll(nexts, f, next, gs.inv_values)
<1>1. fs \in FrameStates(f) /\ FrameOK(fs, f)
  BY DEF Accs
<1>2. begun \in Accs(f) /\ begun.fs = gs /\ Moves(acc, begun, f)
  BY BeginMoves
<1>3. /\ FrameOK(gs, f) /\ gs.iteration_count = next /\ gs.next_iter_roots = <<>>
      /\ Oldest(gs) = Oldest(fs)
      /\ gs.inv_values = fs.inv_values
      /\ \A j \in Nat : Living(gs, j) <=> Living(fs, j) \/ j = next
  BY <1>1, BeginNext
<1>4. next \in Nat /\ fs.next_iter_roots \in Seq(Outputs(f)) /\ gs.inv_values \in Seq(Outputs(f))
  BY <1>1, <1>3, FrameFields
<1>5. IncrementIteration(acc, f) = b
  BY DEF IncrementIteration, Begun
<1> HIDE DEF gs, next, begun
<1>6. nexts \in Accs(f) /\ Moves(begun, nexts, f) /\ Alike(gs, nexts.fs)
  BY <1>2, <1>3, <1>4, AllMove
<1>7. Living(nexts.fs, next)
  BY <1>3, <1>4, <1>6 DEF Alike
<1> HIDE DEF nexts
<1>8. b \in Accs(f) /\ Moves(nexts, b, f) /\ Alike(nexts.fs, b.fs)
  BY <1>4, <1>6, <1>7, AllMove
<1> HIDE DEF b
<1>9. Moves(acc, b, f)
  <2>1. Moves(acc, nexts, f)
    BY <1>2, <1>6, MovesOn
  <2> QED
    BY <1>6, <1>8, <2>1, MovesOn
<1>10. Alike(gs, b.fs)
  BY <1>6, <1>8 DEF Alike
<1>11. b.fs.next_iter_roots = <<>> /\ b.fs.iteration_count = next /\ Oldest(b.fs) = Oldest(fs)
      /\ \A j \in Nat : Living(b.fs, j) <=> Living(fs, j) \/ j = next
  BY <1>3, <1>10 DEF Alike, Oldest
<1> QED
  BY <1>5, <1>8, <1>9, <1>11 DEF next

-----------------------------------------------------------------------------
(* The end of iterations.                                                  *)

\* The iterations that end after one another are an interval, and nothing runs in them.
LEMMA DoneIs ==
    ASSUME NEW fs, NEW i0 \in Nat, fs.iteration_count \in Nat, i0 <= fs.iteration_count + 1
    PROVE  \E m \in Int : /\ DoneFrom(fs, i0) = i0 .. m /\ i0 <= m + 1 /\ m <= fs.iteration_count
                          /\ \A j \in i0 .. m : NothingOutstanding(fs, j)
<1> DEFINE last == fs.iteration_count
           T == {i \in Nat : i >= i0 /\ i \notin DoneFrom(fs, i0)}
<1>1. \A i : i \in DoneFrom(fs, i0) <=> i \in i0 .. last /\ \A j \in i0 .. i : NothingOutstanding(fs, j)
  BY DEF DoneFrom
<1>2. last + 1 \in T
  BY <1>1
<1>3. PICK k \in T : \A i \in T : k <= i
  <2>1. T \in SUBSET Nat /\ T # {}
    BY <1>2
  <2> HIDE DEF T
  <2> QED
    BY <2>1, NatMin
<1>4. k \in Nat /\ k >= i0 /\ k <= last + 1 /\ k \notin DoneFrom(fs, i0)
  BY <1>2, <1>3
<1>5. ASSUME NEW i \in i0 .. (k - 1) PROVE i \in DoneFrom(fs, i0)
  <2>1. i \in Nat /\ i >= i0 /\ ~ (k <= i)
    BY <1>4
  <2> QED
    BY <1>3, <2>1
<1>6. ASSUME NEW i \in DoneFrom(fs, i0) PROVE i \in i0 .. (k - 1)
  <2>1. i \in i0 .. last /\ \A j \in i0 .. i : NothingOutstanding(fs, j)
    BY <1>1
  <2>2. CASE k <= i
    <3>1. k \in i0 .. last /\ \A j \in i0 .. k : j \in i0 .. i
      BY <1>4, <2>1, <2>2
    <3>2. k \in DoneFrom(fs, i0)
      BY <1>1, <2>1, <3>1
    <3> QED
      BY <1>4, <3>2
  <2>3. CASE ~ (k <= i)
    BY <1>4, <2>1, <2>3
  <2> QED
    BY <2>2, <2>3
<1>7. DoneFrom(fs, i0) = i0 .. (k - 1)
  BY <1>5, <1>6
<1>8. \A j \in i0 .. (k - 1) : NothingOutstanding(fs, j)
  <2> TAKE j \in i0 .. (k - 1)
  <2>1. j \in DoneFrom(fs, i0) /\ j \in i0 .. j
    BY <1>4, <1>5
  <2> QED
    BY <1>1, <2>1
<1>9. k - 1 \in Int /\ i0 <= (k - 1) + 1 /\ k - 1 <= last
  BY <1>4
<1> QED
  BY <1>7, <1>8, <1>9

\* The iterations that end have nothing outstanding, and no node of theirs can run any more.
LEMMA EndMoves ==
    ASSUME GraphOK, NEW f \in Paths, NEW acc \in Accs(f), NEW m \in Int,
           Oldest(acc.fs) <= m + 1, m <= acc.fs.iteration_count,
           Oldest(acc.fs) <= m => acc.fs.num_pending_inputs <= 0,
           \A j \in Oldest(acc.fs) .. m : NothingOutstanding(acc.fs, j)
    PROVE  LET gs == Free(acc.fs, Oldest(acc.fs) .. m)
               b == [acc EXCEPT !.fs = gs]
           IN  /\ b \in Accs(f) /\ b.fs = gs /\ b.ready = acc.ready /\ Moves(acc, b, f)
               /\ FrameOK(gs, f) /\ Oldest(gs) = m + 1
               /\ gs.num_pending_inputs = acc.fs.num_pending_inputs
               /\ gs.iteration_count = acc.fs.iteration_count
               /\ gs.num_outstanding_iterations = acc.fs.iteration_count - m
               /\ gs.next_iter_roots = acc.fs.next_iter_roots
<1> DEFINE fs == acc.fs
           gs == Free(fs, Oldest(fs) .. m)
<1>1. fs \in FrameStates(f) /\ FrameOK(fs, f)
  BY DEF Accs
<1>2. /\ FrameOK(gs, f) /\ Oldest(gs) = m + 1
      /\ gs.num_pending_inputs = fs.num_pending_inputs /\ gs.iteration_count = fs.iteration_count
      /\ gs.num_outstanding_iterations = fs.iteration_count - m
      /\ gs.next_iter_roots = fs.next_iter_roots
      /\ \A j \in Nat : Living(gs, j) <=> Living(fs, j) /\ j > m
      /\ \A j \in Nat : Living(gs, j) => GetIteration(gs, j) = GetIteration(fs, j)
  BY <1>1, FreeOldest
<1>3. fs.iteration_count \in Nat
  BY <1>1, FrameFields
<1> HIDE DEF gs
<1>4. ASSUME NEW i \in Nat
      PROVE  /\ OpsIn(gs, i) = OpsIn(fs, i) /\ SubIn(gs, i) = SubIn(fs, i)
             /\ \A n \in Enters : MayIn(gs, n, i) <= MayIn(fs, n, i)
  <2>0. \A n : MayIn(fs, n, i) \in Nat
    BY MovesNumbers
  <2>1. CASE Living(gs, i)
    <3>1. Living(fs, i) /\ GetIteration(gs, i) = GetIteration(fs, i)
      BY <1>2, <2>1
    <3>2. \A n : MayIn(gs, n, i) = MayIn(fs, n, i)
      BY <2>1, <3>1 DEF MayIn
    <3>3. \A n \in Enters : MayIn(gs, n, i) <= MayIn(fs, n, i)
      BY <2>0, <3>2
    <3> QED
      BY <2>1, <3>1, <3>3 DEF OpsIn, SubIn
  <2>2. CASE ~ Living(gs, i) /\ ~ Living(fs, i)
    <3>1. \A n : MayIn(gs, n, i) = MayIn(fs, n, i)
      BY <1>2, <2>2 DEF MayIn
    <3>2. \A n \in Enters : MayIn(gs, n, i) <= MayIn(fs, n, i)
      BY <2>0, <3>1
    <3> QED
      BY <2>2, <3>2 DEF OpsIn, SubIn
  <2>3. CASE ~ Living(gs, i) /\ Living(fs, i)
    <3>1. i \in Oldest(fs) .. fs.iteration_count /\ ~ (i > m)
      BY <1>1, <1>2, <2>3, LivingIs
    <3>2. Oldest(fs) \in Int
      BY <1>1, FrameFields DEF Oldest
    <3>3. i \in Oldest(fs) .. m /\ ~ (i > fs.iteration_count)
      BY <1>3, <3>1, <3>2
    <3>4. GetIteration(fs, i).outstanding_ops = 0 /\ GetIteration(fs, i).outstanding_frame_count = 0
      BY <3>3 DEF NothingOutstanding
    <3>5. \A n : MayIn(gs, n, i) = 0
      BY <1>2, <2>3, <3>3 DEF MayIn
    <3>6. \A n \in Enters : MayIn(gs, n, i) <= MayIn(fs, n, i)
      BY <2>0, <3>5
    <3> QED
      BY <2>3, <3>4, <3>6 DEF OpsIn, SubIn
  <2> QED
    BY <2>1, <2>2, <2>3
<1>5. gs \in FrameStates(f)
  BY <1>2 DEF FrameOK
<1>6. LET b == [acc EXCEPT !.fs = gs]
      IN  b \in Accs(f) /\ b.fs = gs /\ b.ready = acc.ready /\ Moves(acc, b, f)
  BY <1>2, <1>4, <1>5, Rests
<1> QED
  BY <1>2, <1>6 DEF gs

\* An iteration that ends is the oldest one.
LEMMA CleanupMoves ==
    ASSUME GraphOK, NEW f \in Paths, NEW acc \in Accs(f), NEW iter \in Nat, Living(acc.fs, iter)
    PROVE  LET b == CleanupIterations(acc, f, iter)
           IN  b \in Accs(f) /\ Moves(acc, b, f) /\ (RootsWait(acc.fs) => RootsWait(b.fs))
<1> DEFINE fs == acc.fs
           gs == Free(fs, {iter})
           freed == [acc EXCEPT !.fs = gs]
           next == IF freed.fs.next_iter_roots = <<>> THEN freed ELSE IncrementIteration(freed, f)
           hs == Free(next.fs, DoneFrom(next.fs, iter + 1))
           done == [next EXCEPT !.fs = hs]
           b == CleanupIterations(acc, f, iter)
<1>1. fs \in FrameStates(f) /\ FrameOK(fs, f)
  BY DEF Accs
<1>2. /\ fs.iteration_count \in Nat /\ fs.num_outstanding_iterations \in Nat
      /\ fs.max_parallel_iterations = Parallel(f) /\ Parallel(f) \in Nat
      /\ fs.num_pending_inputs \in Int
  BY <1>1, FrameFields, PathInfo
<1>3. Oldest(fs) \in Int /\ Oldest(fs) >= 0 /\ iter \in Oldest(fs) .. fs.iteration_count
  <2>1. Oldest(fs) \in Int
    BY <1>2 DEF Oldest
  <2>2. Oldest(fs) >= 0
    BY <1>1 DEF FrameOK, Window
  <2>3. Living(fs, iter)
    OBVIOUS
  <2> HIDE DEF fs
  <2>4. iter \in Oldest(fs) .. fs.iteration_count
    BY <1>1, <2>3, LivingIs
  <2> QED
    BY <2>1, <2>2, <2>4
<1>4. fs.num_outstanding_iterations <= Parallel(f)
  BY <1>1, <1>2 DEF FrameOK, Window
<1>5. CASE ~ IsIterationDone(fs, iter)
  <2>1. b = acc
    BY <1>5 DEF CleanupIterations
  <2>2. Moves(acc, acc, f)
    BY MovesSelf
  <2> HIDE DEF b
  <2> QED
    BY <2>1, <2>2 DEF b
<1>6. CASE IsIterationDone(fs, iter)
  <2>1. iter = Oldest(fs) /\ fs.num_pending_inputs <= 0
    <3>1. CASE iter = 0
      <4>1. fs.num_pending_inputs = 0
        BY <1>6, <3>1 DEF IsIterationDone
      <4> QED
        BY <1>3, <3>1, <4>1
    <3>2. CASE iter # 0
      <4>1. GetIteration(fs, iter - 1) = NoIteration /\ iter - 1 \in Nat
        BY <1>6, <3>2 DEF IsIterationDone
      <4>2. ~ Living(fs, iter - 1)
        BY <4>1 DEF Living, NoIteration
      <4>3. ~ (iter - 1 \in Oldest(fs) .. fs.iteration_count)
        BY <1>1, <4>1, <4>2, LivingIs
      <4>4. iter = Oldest(fs)
        BY <1>2, <1>3, <4>3
      <4>5. ~ Living(fs, 0)
        BY <1>1, <1>3, <3>2, <4>4, LivingIs
      <4> QED
        BY <1>1, <1>2, <4>4, <4>5 DEF FrameOK
    <3> QED
      BY <3>1, <3>2
  <2>2. {iter} = Oldest(fs) .. iter /\ \A j \in Oldest(fs) .. iter : j = iter
    BY <2>1
  <2>3. NothingOutstanding(fs, iter)
    BY <1>6 DEF IsIterationDone
  <2>4. /\ freed \in Accs(f) /\ freed.fs = gs /\ Moves(acc, freed, f)
        /\ FrameOK(gs, f) /\ Oldest(gs) = iter + 1
        /\ gs.num_pending_inputs = fs.num_pending_inputs
        /\ gs.iteration_count = fs.iteration_count
        /\ gs.num_outstanding_iterations = fs.iteration_count - iter
        /\ gs.next_iter_roots = fs.next_iter_roots
    <3>1. iter \in Int /\ Oldest(fs) <= iter + 1 /\ iter <= fs.iteration_count
      BY <1>2, <1>3
    <3>2. \A j \in Oldest(fs) .. iter : NothingOutstanding(fs, j)
      BY <2>2, <2>3
    <3>3. gs = Free(fs, Oldest(fs) .. iter)
      BY <2>2
    <3>4. Oldest(fs) <= iter => fs.num_pending_inputs <= 0
      BY <2>1
    <3> DEFINE ks == Free(acc.fs, Oldest(acc.fs) .. iter)
               c == [acc EXCEPT !.fs = ks]
    <3>5. /\ c \in Accs(f) /\ c.fs = ks /\ c.ready = acc.ready /\ Moves(acc, c, f)
          /\ FrameOK(ks, f) /\ Oldest(ks) = iter + 1
          /\ ks.num_pending_inputs = acc.fs.num_pending_inputs
          /\ ks.iteration_count = acc.fs.iteration_count
          /\ ks.num_outstanding_iterations = acc.fs.iteration_count - iter
          /\ ks.next_iter_roots = acc.fs.next_iter_roots
      BY <3>1, <3>2, <3>4, EndMoves
    <3>6. ks = gs /\ c = freed
      BY <3>3
    <3> HIDE DEF ks, c, gs, freed
    <3> QED
      BY <3>5, <3>6
  <2>5. gs.num_outstanding_iterations < gs.max_parallel_iterations
    <3>1. gs.num_outstanding_iterations = fs.num_outstanding_iterations - 1
      BY <1>2, <2>1, <2>4 DEF Oldest
    <3>2. gs.max_parallel_iterations = Parallel(f)
      BY <2>4, FrameFields DEF FrameOK
    <3> QED
      BY <1>2, <1>4, <3>1, <3>2
  <2> HIDE DEF gs, freed
  <2>6. /\ next \in Accs(f) /\ Moves(freed, next, f) /\ next.fs.next_iter_roots = <<>>
        /\ Oldest(next.fs) = iter + 1 /\ iter <= next.fs.iteration_count
    <3>1. CASE gs.next_iter_roots = <<>>
      <4>1. next = freed
        BY <2>4, <3>1
      <4>2. Moves(freed, freed, f)
        BY <2>4, MovesSelf
      <4> HIDE DEF next
      <4> QED
        BY <1>2, <1>3, <2>4, <3>1, <4>1, <4>2
    <3>2. CASE gs.next_iter_roots # <<>>
      <4>1. next = IncrementIteration(freed, f)
        BY <2>4, <3>2
      <4> HIDE DEF next
      <4>2. /\ next \in Accs(f) /\ Moves(freed, next, f) /\ next.fs.next_iter_roots = <<>>
            /\ next.fs.iteration_count = gs.iteration_count + 1 /\ Oldest(next.fs) = Oldest(gs)
        BY <2>4, <2>5, <4>1, IncrementMoves
      <4> QED
        BY <1>2, <1>3, <2>4, <4>2
    <3> QED
      BY <3>1, <3>2
  <2>7. next.fs \in FrameStates(f) /\ FrameOK(next.fs, f) /\ next.fs.iteration_count \in Nat
    BY <2>6, FrameFields DEF Accs
  <2>8. next.fs.num_pending_inputs <= 0
    BY <2>1, <2>4, <2>6 DEF Moves
  <2>9. b = done
    BY <1>2, <1>3, <1>6 DEF CleanupIterations, freed, gs
  <2> HIDE DEF next
  <2>10. PICK m \in Int : /\ DoneFrom(next.fs, iter + 1) = (iter + 1) .. m
                          /\ iter + 1 <= m + 1 /\ m <= next.fs.iteration_count
                          /\ \A j \in (iter + 1) .. m : NothingOutstanding(next.fs, j)
    <3>1. iter + 1 \in Nat /\ iter + 1 <= next.fs.iteration_count + 1
      BY <2>6, <2>7
    <3> QED
      BY <2>7, <3>1, DoneIs
  <2>11. done \in Accs(f) /\ Moves(next, done, f) /\ done.fs.next_iter_roots = next.fs.next_iter_roots
    <3>1. hs = Free(next.fs, Oldest(next.fs) .. m)
      BY <2>6, <2>10
    <3>2. \A j \in Oldest(next.fs) .. m : NothingOutstanding(next.fs, j)
      BY <2>6, <2>10
    <3>3. Oldest(next.fs) <= m + 1
      BY <2>6, <2>10
    <3> HIDE DEF hs
    <3> QED
      BY <2>6, <2>8, <2>10, <3>1, <3>2, <3>3, EndMoves
  <2> HIDE DEF done, b
  <2>12. Moves(acc, done, f)
    <3>1. Moves(acc, next, f)
      BY <2>4, <2>6, MovesOn
    <3> QED
      BY <2>6, <2>11, <3>1, MovesOn
  <2>13. RootsWait(done.fs)
    BY <2>6, <2>11 DEF RootsWait
  <2> QED
    BY <2>9, <2>11, <2>12, <2>13 DEF b
<1> QED
  BY <1>5, <1>6

\* The counts of one iteration are lowered by ops and by sub.
Lowers(a, b, f, iter, ops, sub) ==
    /\ \A i \in Nat :
          /\ SubIn(b.fs, i) = SubIn(a.fs, i) - (IF i = iter THEN sub ELSE 0)
          /\ OpsIn(b.fs, i) - OpsIn(a.fs, i) =
                Among(b.ready, NodesIn(f, i)) - Among(a.ready, NodesIn(f, i)) - (IF i = iter THEN ops ELSE 0)
    /\ \A n \in Enters, i \in Nat :
          graph.frame[n] = FrameInfo(f) =>
             MayIn(b.fs, n, i) + Among(b.ready, OneNode(n, f, i))
                <= MayIn(a.fs, n, i) + Among(a.ready, OneNode(n, f, i))
    /\ \A M : (\A x \in Tagged : x \in M => x.frame # f) => Among(b.ready, M) = Among(a.ready, M)

\* A move lowers nothing.
LEMMA MovesLower ==
    ASSUME GraphOK, NEW f \in Paths, NEW a \in Accs(f), NEW b \in Accs(f), NEW iter, Moves(a, b, f)
    PROVE  Lowers(a, b, f, iter, 0, 0) /\ b.fs.num_pending_inputs = a.fs.num_pending_inputs
<1>1. ASSUME NEW i \in Nat
      PROVE  /\ SubIn(b.fs, i) = SubIn(a.fs, i) - 0
             /\ OpsIn(b.fs, i) - OpsIn(a.fs, i) =
                   Among(b.ready, NodesIn(f, i)) - Among(a.ready, NodesIn(f, i)) - 0
  <2>1. /\ SubIn(a.fs, i) \in Int /\ Among(b.ready, NodesIn(f, i)) \in Nat
        /\ Among(a.ready, NodesIn(f, i)) \in Nat
    BY MovesNumbers
  <2>2. /\ SubIn(b.fs, i) = SubIn(a.fs, i)
        /\ OpsIn(b.fs, i) - OpsIn(a.fs, i) = Among(b.ready, NodesIn(f, i)) - Among(a.ready, NodesIn(f, i))
    BY DEF Moves
  <2> QED
    BY <2>1, <2>2
<1> QED
  BY <1>1 DEF Moves, Lowers

\* What is lowered adds up.
LEMMA LowersOn ==
    ASSUME GraphOK, NEW f \in Paths, NEW a \in Accs(f), NEW b \in Accs(f), NEW c \in Accs(f),
           NEW iter, NEW o1 \in Int, NEW s1 \in Int, NEW o2 \in Int, NEW s2 \in Int,
           Lowers(a, b, f, iter, o1, s1), Lowers(b, c, f, iter, o2, s2)
    PROVE  Lowers(a, c, f, iter, o1 + o2, s1 + s2)
<1>1. ASSUME NEW i \in Nat
      PROVE  /\ SubIn(c.fs, i) = SubIn(a.fs, i) - (IF i = iter THEN s1 + s2 ELSE 0)
             /\ OpsIn(c.fs, i) - OpsIn(a.fs, i) =
                   Among(c.ready, NodesIn(f, i)) - Among(a.ready, NodesIn(f, i))
                   - (IF i = iter THEN o1 + o2 ELSE 0)
  <2>1. /\ OpsIn(a.fs, i) \in Int /\ OpsIn(b.fs, i) \in Int /\ OpsIn(c.fs, i) \in Int
        /\ SubIn(a.fs, i) \in Int /\ SubIn(b.fs, i) \in Int /\ SubIn(c.fs, i) \in Int
        /\ Among(a.ready, NodesIn(f, i)) \in Nat /\ Among(b.ready, NodesIn(f, i)) \in Nat
        /\ Among(c.ready, NodesIn(f, i)) \in Nat
    BY MovesNumbers
  <2>2. /\ SubIn(b.fs, i) = SubIn(a.fs, i) - (IF i = iter THEN s1 ELSE 0)
        /\ OpsIn(b.fs, i) - OpsIn(a.fs, i) = Among(b.ready, NodesIn(f, i)) - Among(a.ready, NodesIn(f, i))
                                             - (IF i = iter THEN o1 ELSE 0)
        /\ SubIn(c.fs, i) = SubIn(b.fs, i) - (IF i = iter THEN s2 ELSE 0)
        /\ OpsIn(c.fs, i) - OpsIn(b.fs, i) = Among(c.ready, NodesIn(f, i)) - Among(b.ready, NodesIn(f, i))
                                             - (IF i = iter THEN o2 ELSE 0)
    BY DEF Lowers
  <2> QED
    BY <2>1, <2>2
<1>2. ASSUME NEW n \in Enters, NEW i \in Nat, graph.frame[n] = FrameInfo(f)
      PROVE  MayIn(c.fs, n, i) + Among(c.ready, OneNode(n, f, i))
                <= MayIn(a.fs, n, i) + Among(a.ready, OneNode(n, f, i))
  <2>1. /\ MayIn(a.fs, n, i) \in Nat /\ MayIn(b.fs, n, i) \in Nat /\ MayIn(c.fs, n, i) \in Nat
        /\ Among(a.ready, OneNode(n, f, i)) \in Nat /\ Among(b.ready, OneNode(n, f, i)) \in Nat
        /\ Among(c.ready, OneNode(n, f, i)) \in Nat
    BY MovesNumbers
  <2>2. /\ MayIn(b.fs, n, i) + Among(b.ready, OneNode(n, f, i))
                <= MayIn(a.fs, n, i) + Among(a.ready, OneNode(n, f, i))
        /\ MayIn(c.fs, n, i) + Among(c.ready, OneNode(n, f, i))
                <= MayIn(b.fs, n, i) + Among(b.ready, OneNode(n, f, i))
    BY <1>2 DEF Lowers
  <2> QED
    BY <2>1, <2>2
<1>3. \A M : (\A x \in Tagged : x \in M => x.frame # f) => Among(c.ready, M) = Among(a.ready, M)
  BY DEF Lowers
<1> QED
  BY <1>1, <1>2, <1>3 DEF Lowers

LowerBy(is, js, f, ops, sub) ==
    /\ js \in Iterations(f) /\ js.iter = is.iter /\ js.pending = is.pending
    /\ ops \in Int /\ js.outstanding_ops = is.outstanding_ops - ops
    /\ sub \in Int /\ js.outstanding_frame_count = is.outstanding_frame_count - sub
\* The counts of one iteration are lowered, and the others stay.
LEMMA LowerOne ==
    ASSUME GraphOK, NEW f \in Paths, NEW acc \in Accs(f), NEW iter \in Nat, Living(acc.fs, iter),
           NEW ops, NEW sub, NEW js, LowerBy(GetIteration(acc.fs, iter), js, f, ops, sub)
    PROVE  LET gs == SetIteration(acc.fs, iter, js)
               b == [acc EXCEPT !.fs = gs]
           IN  /\ b \in Accs(f) /\ b.fs = gs /\ b.ready = acc.ready
               /\ Alike(acc.fs, gs) /\ GetIteration(gs, iter) = js
               /\ Lowers(acc, b, f, iter, ops, sub)
               /\ gs.num_pending_inputs = acc.fs.num_pending_inputs
               /\ RootsWait(acc.fs) => RootsWait(gs)
<1> DEFINE is == GetIteration(acc.fs, iter)
           gs == SetIteration(acc.fs, iter, js)
           b == [acc EXCEPT !.fs = gs]
<1>1. acc.fs \in FrameStates(f) /\ FrameOK(acc.fs, f) /\ acc.ready \in Seq(Tagged)
      /\ acc \in [fs : FrameStates(f), ready : Seq(Tagged)]
  BY DEF Accs
<1>2. is \in Iterations(f)
  BY <1>1, GetIs
<1>20. /\ js \in Iterations(f) /\ js.iter = iter /\ js.pending = is.pending /\ ops \in Int /\ sub \in Int
       /\ js.outstanding_ops = is.outstanding_ops - ops
       /\ js.outstanding_frame_count = is.outstanding_frame_count - sub
  BY DEF LowerBy, Living
<1>3. /\ FrameOK(gs, f) /\ Alike(acc.fs, gs) /\ GetIteration(gs, iter) = js
      /\ \A j \in Nat : j # iter /\ Living(acc.fs, j) => GetIteration(gs, j) = GetIteration(acc.fs, j)
  BY <1>1, <1>20, InPlace
<1> HIDE DEF gs
<1>4. b.fs = gs /\ b.ready = acc.ready /\ b \in Accs(f)
  BY <1>1, <1>3 DEF Accs, FrameOK
<1> HIDE DEF b
<1>5. \A j \in Nat : Living(gs, j) <=> Living(acc.fs, j)
  BY <1>3 DEF Alike
<1>6. ASSUME NEW i \in Nat
      PROVE  /\ SubIn(gs, i) = SubIn(acc.fs, i) - (IF i = iter THEN sub ELSE 0)
             /\ OpsIn(gs, i) = OpsIn(acc.fs, i) - (IF i = iter THEN ops ELSE 0)
             /\ \A n : MayIn(gs, n, i) = MayIn(acc.fs, n, i)
  <2>1. CASE i = iter
    BY <1>3, <1>5, <1>20, <2>1 DEF SubIn, OpsIn, MayIn
  <2>2. CASE i # iter
    <3>1. SubIn(acc.fs, i) \in Int /\ OpsIn(acc.fs, i) \in Int
      BY MovesNumbers
    <3>2. SubIn(gs, i) = SubIn(acc.fs, i) /\ OpsIn(gs, i) = OpsIn(acc.fs, i)
          /\ \A n : MayIn(gs, n, i) = MayIn(acc.fs, n, i)
      BY <1>3, <1>5, <2>2 DEF SubIn, OpsIn, MayIn, Alike
    <3> QED
      BY <2>2, <3>1, <3>2
  <2> QED
    BY <2>1, <2>2
<1>7. ASSUME NEW i \in Nat
      PROVE  OpsIn(b.fs, i) - OpsIn(acc.fs, i) =
                Among(b.ready, NodesIn(f, i)) - Among(acc.ready, NodesIn(f, i)) - (IF i = iter THEN ops ELSE 0)
  <2>1. OpsIn(acc.fs, i) \in Int /\ Among(acc.ready, NodesIn(f, i)) \in Nat
    BY MovesNumbers
  <2>2. OpsIn(b.fs, i) = OpsIn(acc.fs, i) - (IF i = iter THEN ops ELSE 0) /\ b.ready = acc.ready
    BY <1>4, <1>6
  <2> QED
    BY <1>20, <2>1, <2>2
<1>8. ASSUME NEW n \in Enters, NEW i \in Nat, graph.frame[n] = FrameInfo(f)
      PROVE  MayIn(b.fs, n, i) + Among(b.ready, OneNode(n, f, i))
                <= MayIn(acc.fs, n, i) + Among(acc.ready, OneNode(n, f, i))
  <2>1. MayIn(acc.fs, n, i) \in Nat /\ Among(acc.ready, OneNode(n, f, i)) \in Nat
    BY MovesNumbers
  <2>2. MayIn(b.fs, n, i) = MayIn(acc.fs, n, i) /\ b.ready = acc.ready
    BY <1>4, <1>6
  <2> QED
    BY <2>1, <2>2
<1>9. /\ gs.num_pending_inputs = acc.fs.num_pending_inputs
      /\ RootsWait(acc.fs) => RootsWait(gs)
  BY <1>3 DEF Alike, RootsWait
<1>10. Lowers(acc, b, f, iter, ops, sub)
  BY <1>4, <1>6, <1>7, <1>8 DEF Lowers
<1> QED
  BY <1>3, <1>4, <1>9, <1>10 DEF gs, b

\* An end of a node in its iteration.
LEMMA DecrementMoves ==
    ASSUME GraphOK, NEW f \in Paths, NEW acc \in Accs(f), NEW iter \in Nat, Living(acc.fs, iter)
    PROVE  LET d == DecrementOutstandingOps(acc, f, iter)
               b == [fs |-> d.fs, ready |-> d.ready]
           IN  /\ b \in Accs(f) /\ Lowers(acc, b, f, iter, 1, 0)
               /\ d.fs.num_pending_inputs = acc.fs.num_pending_inputs
               /\ RootsWait(acc.fs) => RootsWait(d.fs)
               /\ d.done \in BOOLEAN /\ (d.done => IsFrameDone(d.fs))
<1> DEFINE is == GetIteration(acc.fs, iter)
           js == [is EXCEPT !.outstanding_ops = @ - 1]
           gs == SetIteration(acc.fs, iter, js)
           c == [acc EXCEPT !.fs = gs]
           e == CleanupIterations(c, f, iter)
           d == DecrementOutstandingOps(acc, f, iter)
           b == [fs |-> d.fs, ready |-> d.ready]
<1>1. acc.fs \in FrameStates(f) /\ FrameOK(acc.fs, f) /\ acc.ready \in Seq(Tagged)
  BY DEF Accs
<1>2. is \in Iterations(f)
  BY <1>1, GetIs
<1>3. is.outstanding_ops \in Int /\ is.outstanding_frame_count \in Int
  BY <1>2, IterationFields
<1>4. LowerBy(is, js, f, 1, 0)
  BY <1>2, <1>3 DEF Iterations, LowerBy
<1> HIDE DEF js
<1>6. /\ c \in Accs(f) /\ c.fs = gs /\ c.ready = acc.ready
      /\ Alike(acc.fs, gs) /\ GetIteration(gs, iter) = js
      /\ Lowers(acc, c, f, iter, 1, 0)
      /\ gs.num_pending_inputs = acc.fs.num_pending_inputs
      /\ RootsWait(acc.fs) => RootsWait(gs)
  BY <1>4, LowerOne
<1>7. Living(c.fs, iter)
  BY <1>6 DEF Alike
<1>8. d = IF GetIteration(gs, iter).outstanding_ops # 0
          THEN [fs |-> gs, ready |-> acc.ready, done |-> FALSE]
          ELSE Looked(e)
  BY DEF DecrementOutstandingOps, js, is
<1> HIDE DEF gs, c, d
<1>9. CASE GetIteration(gs, iter).outstanding_ops # 0
  <2>1. d = [fs |-> gs, ready |-> acc.ready, done |-> FALSE]
    BY <1>8, <1>9
  <2>2. d.fs = gs /\ d.ready = acc.ready /\ d.done = FALSE
    BY <2>1
  <2>3. c = [fs |-> gs, ready |-> acc.ready]
    BY <1>6 DEF Accs
  <2>4. b = c
    BY <2>2, <2>3
  <2> HIDE DEF b
  <2> QED
    BY <1>6, <2>2, <2>4 DEF b, d
<1>10. CASE ~ (GetIteration(gs, iter).outstanding_ops # 0)
  <2>1. d = Looked(e)
    BY <1>8, <1>10
  <2>2. d.fs = e.fs /\ d.ready = e.ready /\ d.done = IsFrameDone(e.fs)
    BY <2>1 DEF Looked
  <2>3. e \in Accs(f) /\ Moves(c, e, f) /\ (RootsWait(c.fs) => RootsWait(e.fs))
    BY <1>6, <1>7, CleanupMoves
  <2> HIDE DEF e
  <2>4. e = [fs |-> e.fs, ready |-> e.ready]
    BY <2>3 DEF Accs
  <2>5. b = e
    BY <2>2, <2>4
  <2>6. Lowers(c, e, f, iter, 0, 0) /\ e.fs.num_pending_inputs = c.fs.num_pending_inputs
    BY <1>6, <2>3, MovesLower
  <2>7. Lowers(acc, e, f, iter, 1 + 0, 0 + 0)
    BY <1>6, <2>3, <2>6, LowersOn
  <2>8. 1 + 0 = 1 /\ 0 + 0 = 0
    OBVIOUS
  <2>9. d.done \in BOOLEAN
    BY <2>2 DEF IsFrameDone
  <2> HIDE DEF b
  <2> QED
    BY <1>6, <2>2, <2>3, <2>5, <2>6, <2>7, <2>8, <2>9 DEF b, d
<1> QED
  BY <1>9, <1>10

\* The end of a frame that was entered from an iteration.
LEMMA CleanupLowers ==
    ASSUME GraphOK, NEW f \in Paths, NEW acc \in Accs(f), NEW iter \in Nat, Living(acc.fs, iter)
    PROVE  LET gs == SetIteration(acc.fs, iter, [GetIteration(acc.fs, iter) EXCEPT !.outstanding_frame_count = @ - 1])
               b == CleanupIterations([acc EXCEPT !.fs = gs], f, iter)
           IN  /\ b \in Accs(f) /\ Lowers(acc, b, f, iter, 0, 1)
               /\ b.fs.num_pending_inputs = acc.fs.num_pending_inputs
               /\ RootsWait(acc.fs) => RootsWait(b.fs)
<1> DEFINE is == GetIteration(acc.fs, iter)
           js == [is EXCEPT !.outstanding_frame_count = @ - 1]
           gs == SetIteration(acc.fs, iter, js)
           c == [acc EXCEPT !.fs = gs]
           b == CleanupIterations(c, f, iter)
<1>1. acc.fs \in FrameStates(f) /\ FrameOK(acc.fs, f) /\ acc.ready \in Seq(Tagged)
  BY DEF Accs
<1>2. is \in Iterations(f)
  BY <1>1, GetIs
<1>3. is.outstanding_ops \in Int /\ is.outstanding_frame_count \in Int
  BY <1>2, IterationFields
<1>4. LowerBy(is, js, f, 0, 1)
  BY <1>2, <1>3 DEF Iterations, LowerBy
<1> HIDE DEF js
<1>6. /\ c \in Accs(f) /\ c.fs = gs
      /\ Alike(acc.fs, gs)
      /\ Lowers(acc, c, f, iter, 0, 1)
      /\ gs.num_pending_inputs = acc.fs.num_pending_inputs
      /\ RootsWait(acc.fs) => RootsWait(gs)
  BY <1>4, LowerOne
<1>7. Living(c.fs, iter)
  BY <1>6 DEF Alike
<1> HIDE DEF gs, c
<1>8. b \in Accs(f) /\ Moves(c, b, f) /\ (RootsWait(c.fs) => RootsWait(b.fs))
  BY <1>6, <1>7, CleanupMoves
<1> HIDE DEF b
<1>9. Lowers(c, b, f, iter, 0, 0) /\ b.fs.num_pending_inputs = c.fs.num_pending_inputs
  BY <1>6, <1>8, MovesLower
<1>10. Lowers(acc, b, f, iter, 0 + 0, 1 + 0)
  BY <1>6, <1>8, <1>9, LowersOn
<1>11. 1 + 0 = 1 /\ 0 + 0 = 0
  OBVIOUS
<1> QED
  BY <1>6, <1>8, <1>9, <1>10, <1>11 DEF b, c, gs, js, is

\* A frame that is entered from an iteration.
LEMMA EnteredLowers ==
    ASSUME GraphOK, NEW f \in Paths, NEW acc \in Accs(f), NEW iter \in Nat, Living(acc.fs, iter)
    PROVE  LET gs == SetIteration(acc.fs, iter, [GetIteration(acc.fs, iter) EXCEPT !.outstanding_frame_count = @ + 1])
               b == [acc EXCEPT !.fs = gs]
           IN  /\ b \in Accs(f) /\ b.fs = gs /\ b.ready = acc.ready /\ Lowers(acc, b, f, iter, 0, -1)
               /\ gs.num_pending_inputs = acc.fs.num_pending_inputs
               /\ RootsWait(acc.fs) => RootsWait(gs)
<1> DEFINE is == GetIteration(acc.fs, iter)
           js == [is EXCEPT !.outstanding_frame_count = @ + 1]
<1>1. acc.fs \in FrameStates(f) /\ FrameOK(acc.fs, f) /\ acc.ready \in Seq(Tagged)
  BY DEF Accs
<1>2. is \in Iterations(f)
  BY <1>1, GetIs
<1>3. is.outstanding_ops \in Int /\ is.outstanding_frame_count \in Int
  BY <1>2, IterationFields
<1>4. LowerBy(is, js, f, 0, -1)
  BY <1>2, <1>3 DEF Iterations, LowerBy
<1> HIDE DEF js
<1> QED
  BY <1>4, LowerOne DEF js

\* Nothing of the counts of a frame changes when its lists do, or when it waits for less.
LEMMA SameLowers ==
    ASSUME GraphOK, NEW f \in Paths, NEW acc \in Accs(f), NEW gs \in FrameStates(f), NEW iter,
           gs.iterations = acc.fs.iterations, gs.iteration_count = acc.fs.iteration_count,
           gs.num_outstanding_iterations = acc.fs.num_outstanding_iterations,
           gs.num_pending_inputs <= acc.fs.num_pending_inputs
    PROVE  LET b == [acc EXCEPT !.fs = gs]
           IN  /\ b \in Accs(f) /\ b.fs = gs /\ b.ready = acc.ready /\ Lowers(acc, b, f, iter, 0, 0)
               /\ \A i \in Nat : Living(gs, i) <=> Living(acc.fs, i)
<1> DEFINE b == [acc EXCEPT !.fs = gs]
<1>1. acc \in [fs : FrameStates(f), ready : Seq(Tagged)] /\ FrameOK(acc.fs, f)
  BY DEF Accs
<1>2. /\ FrameOK(gs, f)
      /\ \A i \in Nat : /\ Living(gs, i) <=> Living(acc.fs, i)
                        /\ OpsIn(gs, i) = OpsIn(acc.fs, i) /\ SubIn(gs, i) = SubIn(acc.fs, i)
                        /\ \A n : MayIn(gs, n, i) = MayIn(acc.fs, n, i)
  BY <1>1, SameIterations
<1>3. b \in Accs(f) /\ b.fs = gs /\ b.ready = acc.ready
  BY <1>1, <1>2 DEF Accs
<1> HIDE DEF b
<1>4. ASSUME NEW i \in Nat
      PROVE  /\ SubIn(b.fs, i) = SubIn(acc.fs, i) - (IF i = iter THEN 0 ELSE 0)
             /\ OpsIn(b.fs, i) - OpsIn(acc.fs, i) =
                   Among(b.ready, NodesIn(f, i)) - Among(acc.ready, NodesIn(f, i)) - (IF i = iter THEN 0 ELSE 0)
  <2>1. OpsIn(acc.fs, i) \in Int /\ SubIn(acc.fs, i) \in Int /\ Among(acc.ready, NodesIn(f, i)) \in Nat
    BY MovesNumbers
  <2> QED
    BY <1>2, <1>3, <2>1
<1>5. ASSUME NEW n \in Enters, NEW i \in Nat
      PROVE  MayIn(b.fs, n, i) + Among(b.ready, OneNode(n, f, i))
                <= MayIn(acc.fs, n, i) + Among(acc.ready, OneNode(n, f, i))
  <2>1. MayIn(acc.fs, n, i) \in Nat /\ Among(acc.ready, OneNode(n, f, i)) \in Nat
    BY MovesNumbers
  <2> QED
    BY <1>2, <1>3, <2>1
<1>6. Lowers(acc, b, f, iter, 0, 0)
  BY <1>3, <1>4, <1>5 DEF Lowers
<1> QED
  BY <1>2, <1>3, <1>6 DEF b

-----------------------------------------------------------------------------
(* What is given to the threads: no node is lost, and none is given twice. *)

\* The prefixes of a sequence grow by one element.
LEMMA PrefixIs ==
    ASSUME NEW S, NEW s \in Seq(S)
    PROVE  /\ SubSeq(s, 1, 0) = <<>> /\ SubSeq(s, 1, Len(s)) = s
           /\ \A k \in 1 .. Len(s) :
                 /\ SubSeq(s, 1, k - 1) \in Seq(S) /\ s[k] \in S
                 /\ SubSeq(s, 1, k) = Append(SubSeq(s, 1, k - 1), s[k])
<1>1. SubSeq(s, 1, 0) = <<>> /\ SubSeq(s, 1, Len(s)) = s
  OBVIOUS
<1>2. ASSUME NEW k \in 1 .. Len(s)
      PROVE  /\ SubSeq(s, 1, k - 1) \in Seq(S) /\ s[k] \in S
             /\ SubSeq(s, 1, k) = Append(SubSeq(s, 1, k - 1), s[k])
  <2> DEFINE p == SubSeq(s, 1, k - 1)
             q == SubSeq(s, 1, k)
  <2>1. p \in Seq(S) /\ Len(p) = k - 1 /\ \A j \in 1 .. (k - 1) : p[j] = s[j]
    OBVIOUS
  <2>2. q \in Seq(S) /\ Len(q) = k /\ \A j \in 1 .. k : q[j] = s[j]
    OBVIOUS
  <2>3. s[k] \in S
    OBVIOUS
  <2> HIDE DEF p, q
  <2>4. q = Append(p, s[k])
    BY <2>1, <2>2, <2>3
  <2> QED
    BY <2>1, <2>3, <2>4 DEF p, q
<1> QED
  BY <1>1, <1>2

\* What a prefix has when it grows by one element.
LEMMA PrefixAmong ==
    ASSUME NEW S, NEW s \in Seq(S), NEW k \in 1 .. Len(s), NEW M
    PROVE  /\ Among(SubSeq(s, 1, k), M) = Among(SubSeq(s, 1, k - 1), M) + IfIn(s[k], M)
           /\ Among(SubSeq(s, 1, k - 1), M) \in Nat /\ IfIn(s[k], M) \in Nat
<1>1. /\ SubSeq(s, 1, k - 1) \in Seq(S) /\ s[k] \in S
      /\ SubSeq(s, 1, k) = Append(SubSeq(s, 1, k - 1), s[k])
  BY PrefixIs
<1> DEFINE p == SubSeq(s, 1, k - 1)
<1> HIDE DEF p
<1>2. Among(Append(p, s[k]), M) = Among(p, M) + IfIn(s[k], M)
  BY <1>1, AmongAppend DEF p
<1>3. Among(p, M) \in Nat
  BY <1>1, AmongIs DEF p
<1>4. IfIn(s[k], M) \in Nat
  BY DEF IfIn
<1> QED
  BY <1>1, <1>2, <1>3, <1>4 DEF p

Spread == [inline : Seq(Tagged), expensive : Seq(Tagged), given : Seq(Tagged)]
Holds(d, M) == Among(d.inline, M) + Among(d.expensive, M) + Among(d.given, M)

\* DispatchNode keeps what was dispatched, and the node.
LEMMA DispatchOne ==
    ASSUME NEW d \in Spread, NEW x \in Tagged
    PROVE  LET e == DispatchNode(d, x)
           IN  e \in Spread /\ \A M : Holds(e, M) = Holds(d, M) + IfIn(x, M)
<1> DEFINE e == DispatchNode(d, x)
<1>1. d.inline \in Seq(Tagged) /\ d.expensive \in Seq(Tagged) /\ d.given \in Seq(Tagged)
  BY DEF Spread
<1>2. CASE Cheap(x)
  <2>1. e = [d EXCEPT !.inline = Append(d.inline, x)]
    BY <1>2 DEF DispatchNode
  <2>2. Append(d.inline, x) \in Seq(Tagged)
    BY <1>1
  <2>3. /\ e \in Spread /\ e.inline = Append(d.inline, x)
        /\ e.expensive = d.expensive /\ e.given = d.given
    BY <2>1, <2>2 DEF Spread
  <2> HIDE DEF e
  <2>4. ASSUME NEW M PROVE Holds(e, M) = Holds(d, M) + IfIn(x, M)
    <3>1. Among(e.inline, M) = Among(d.inline, M) + IfIn(x, M)
      BY <1>1, <2>3, AmongAppend
    <3>2. Among(d.inline, M) \in Nat /\ Among(d.expensive, M) \in Nat /\ Among(d.given, M) \in Nat
      BY <1>1, AmongIs
    <3>3. IfIn(x, M) \in Nat
      BY DEF IfIn
    <3> QED
      BY <2>3, <3>1, <3>2, <3>3 DEF Holds
  <2> QED
    BY <2>3, <2>4 DEF e
<1>3. CASE ~ Cheap(x)
  <2>1. e = [d EXCEPT !.expensive = <<x>>, !.given = d.given \o d.expensive]
    BY <1>3 DEF DispatchNode
  <2>2. d.given \o d.expensive \in Seq(Tagged) /\ <<x>> \in Seq(Tagged)
    BY <1>1
  <2>3. /\ e \in Spread /\ e.inline = d.inline
        /\ e.expensive = <<x>> /\ e.given = d.given \o d.expensive
    BY <2>1, <2>2 DEF Spread
  <2> HIDE DEF e
  <2>4. ASSUME NEW M PROVE Holds(e, M) = Holds(d, M) + IfIn(x, M)
    <3>1. Among(e.given, M) = Among(d.given, M) + Among(d.expensive, M)
      BY <1>1, <2>3, AmongConcat
    <3>2. Among(d.inline, M) \in Nat /\ Among(d.expensive, M) \in Nat /\ Among(d.given, M) \in Nat
      BY <1>1, AmongIs
    <3>3. Among(e.expensive, M) = IfIn(x, M)
      BY <2>3, AmongOne
    <3>4. IfIn(x, M) \in Nat
      BY DEF IfIn
    <3> QED
      BY <2>3, <3>1, <3>2, <3>3, <3>4 DEF Holds
  <2> QED
    BY <2>3, <2>4 DEF e
<1> QED
  BY <1>2, <1>3

\* A part of the nodes in a set.
First(nodes, k, M) == Among(SubSeq(nodes, 1, k), M)

\* Before the first element there is nothing.
LEMMA FirstNothing ==
    ASSUME NEW S, NEW s \in Seq(S), NEW M
    PROVE  First(s, 0, M) = 0
<1>1. SubSeq(s, 1, 0) = <<>>
  BY PrefixIs
<1>2. Among(SubSeq(s, 1, 0), M) = Among(<<>>, M)
  BY <1>1, Zenon
<1> QED
  BY <1>2, AmongNothing, Zenon DEF First

\* Dispatch loses no node and copies none, whatever stays and whatever is given.
LEMMA DispatchKeeps ==
    ASSUME NEW inline \in Seq(Tagged), NEW nodes \in Seq(Tagged)
    PROVE  LET d == Dispatch(inline, nodes)
           IN  /\ d.inline \in Seq(Tagged) /\ d.given \in Seq(Tagged)
               /\ \A M : Among(d.inline, M) + Among(d.given, M) = Among(inline, M) + Among(nodes, M)
<1> DEFINE n == Len(nodes)
           ini == [inline |-> inline, expensive |-> <<>>, given |-> <<>>]
           after[k \in 0 .. n] == IF k = 0 THEN ini ELSE DispatchNode(after[k - 1], nodes[k])
           Good(k) == {d \in Spread : \A M : Holds(d, M) = Among(inline, M) + First(nodes, k, M)}
           S == [k \in 0 .. n |-> Good(k)]
           F == [k \in 1 .. n |-> [d \in Spread |-> DispatchNode(d, nodes[k])]]
<1>1. n \in Nat /\ \A k \in 1 .. n : nodes[k] \in Tagged
  OBVIOUS
<1>2. ini \in Good(0)
  <2>1. ini \in Spread
    BY DEF Spread
  <2>2. ASSUME NEW M PROVE Holds(ini, M) = Among(inline, M) + First(nodes, 0, M)
    <3>1. First(nodes, 0, M) = 0 /\ Among(<<>>, M) = 0 /\ Among(inline, M) \in Nat
      BY FirstNothing, AmongNothing, AmongIs
    <3>2. ini.inline = inline /\ ini.expensive = <<>> /\ ini.given = <<>>
      OBVIOUS
    <3> HIDE DEF ini
    <3> QED
      BY <3>1, <3>2 DEF Holds
  <2> QED
    BY <2>1, <2>2
<1>3. ASSUME NEW k \in 1 .. n, NEW d \in Good(k - 1) PROVE DispatchNode(d, nodes[k]) \in Good(k)
  <2> DEFINE e == DispatchNode(d, nodes[k])
  <2>1. d \in Spread /\ \A M : Holds(d, M) = Among(inline, M) + First(nodes, k - 1, M)
    OBVIOUS
  <2>2. e \in Spread /\ \A M : Holds(e, M) = Holds(d, M) + IfIn(nodes[k], M)
    BY <1>1, <2>1, DispatchOne
  <2> HIDE DEF e
  <2>3. ASSUME NEW M PROVE Holds(e, M) = Among(inline, M) + First(nodes, k, M)
    <3>1. /\ First(nodes, k, M) = First(nodes, k - 1, M) + IfIn(nodes[k], M)
          /\ First(nodes, k - 1, M) \in Nat /\ IfIn(nodes[k], M) \in Nat
      BY PrefixAmong DEF First
    <3>2. Among(inline, M) \in Nat
      BY AmongIs
    <3>3. Holds(e, M) = Among(inline, M) + First(nodes, k - 1, M) + IfIn(nodes[k], M)
      BY <2>1, <2>2
    <3> QED
      BY <3>1, <3>2, <3>3
  <2>4. e \in Good(k)
    BY <2>2, <2>3
  <2> QED
    BY <2>4 DEF e
<1>4. \A k \in 0 .. n : Good(k) \in SUBSET Spread
  OBVIOUS
<1> HIDE DEF Good, n
<1>5. S[0] = Good(0) /\ \A k \in 1 .. n : S[k - 1] = Good(k - 1) /\ S[k] = Good(k)
  BY <1>1
<1>6. \A k \in 1 .. n : \A d \in Spread : F[k][d] = DispatchNode(d, nodes[k])
  OBVIOUS
<1> HIDE DEF S, F
<1>7. LeadsOn(n, S, F, ini)
  <2>1. ASSUME NEW k \in 1 .. n, NEW d \in S[k - 1] PROVE F[k][d] \in S[k]
    <3>1. d \in Good(k - 1) /\ d \in Spread
      BY <1>1, <1>4, <1>5
    <3> QED
      BY <1>3, <1>5, <1>6, <3>1
  <2> HIDE DEF ini
  <2> QED
    BY <1>1, <1>2, <1>5, <2>1 DEF LeadsOn
<1> HIDE DEF ini
<1>8. PICK g : /\ g = [k \in 0 .. n |-> IF k = 0 THEN ini ELSE F[k][g[k - 1]]]
               /\ \A k \in 0 .. n : g[k] \in S[k]
  BY <1>7, FoldExists DEF FoldOf
<1>9. g = [k \in 0 .. n |-> IF k = 0 THEN ini ELSE DispatchNode(g[k - 1], nodes[k])]
  <2>1. ASSUME NEW k \in 0 .. n
        PROVE  (IF k = 0 THEN ini ELSE F[k][g[k - 1]]) =
               (IF k = 0 THEN ini ELSE DispatchNode(g[k - 1], nodes[k]))
    <3>1. CASE k = 0
      BY <3>1
    <3>2. CASE k # 0
      <4>1. k \in 1 .. n /\ k - 1 \in 0 .. n
        BY <1>1, <3>2
      <4>2. g[k - 1] \in S[k - 1]
        BY <1>8, <4>1
      <4>3. g[k - 1] \in Spread
        BY <1>4, <1>5, <4>1, <4>2
      <4> QED
        BY <1>6, <3>2, <4>1, <4>3
    <3> QED
      BY <3>1, <3>2
  <2> QED
    BY <1>8, <2>1
<1>10. after = [k \in 0 .. n |-> IF k = 0 THEN ini ELSE DispatchNode(after[k - 1], nodes[k])]
  BY <1>9
<1> HIDE DEF after
<1>11. \A k \in 0 .. n : after[k] \in S[k]
  <2>1. after[0] \in S[0]
    BY <1>1, <1>2, <1>5, <1>10
  <2>2. ASSUME NEW k \in 1 .. n, after[k - 1] \in S[k - 1] PROVE after[k] \in S[k]
    <3>1. after[k] = DispatchNode(after[k - 1], nodes[k])
      BY <1>1, <1>10
    <3> QED
      BY <1>3, <1>5, <2>2, <3>1
  <2> QED
    BY <1>1, <2>1, <2>2, FoldStays
<1> DEFINE d == after[n]
           e == Dispatch(inline, nodes)
<1>12. d \in Spread /\ \A M : Holds(d, M) = Among(inline, M) + Among(nodes, M)
  <2>1. d \in S[n] /\ n \in 0 .. n
    BY <1>1, <1>11
  <2>2. d \in Good(n)
    BY <1>1, <2>1 DEF S
  <2>3. \A M : First(nodes, n, M) = Among(nodes, M)
    BY PrefixIs DEF First, n
  <2> HIDE DEF d
  <2> QED
    BY <2>2, <2>3 DEF Good
<1>13. e = IF d.inline = <<>> THEN [inline |-> d.expensive, given |-> d.given]
           ELSE [inline |-> d.inline, given |-> d.given \o d.expensive]
  BY DEF Dispatch, after, n, ini
<1> HIDE DEF d, e
<1>14. d.inline \in Seq(Tagged) /\ d.expensive \in Seq(Tagged) /\ d.given \in Seq(Tagged)
  BY <1>12 DEF Spread
<1>15. CASE d.inline = <<>>
  <2>1. e.inline = d.expensive /\ e.given = d.given
    BY <1>13, <1>15
  <2>2. ASSUME NEW M PROVE Among(e.inline, M) + Among(e.given, M) = Among(inline, M) + Among(nodes, M)
    <3>1. Among(d.expensive, M) \in Nat /\ Among(d.given, M) \in Nat /\ Among(d.inline, M) = 0
      BY <1>14, <1>15, AmongIs, AmongNothing
    <3>2. Among(d.inline, M) + Among(d.expensive, M) + Among(d.given, M) = Among(inline, M) + Among(nodes, M)
      BY <1>12 DEF Holds
    <3> QED
      BY <2>1, <3>1, <3>2
  <2> QED
    BY <1>14, <2>1, <2>2 DEF e
<1>16. CASE d.inline # <<>>
  <2>1. e.inline = d.inline /\ e.given = d.given \o d.expensive
    BY <1>13, <1>16
  <2>2. e.given \in Seq(Tagged)
    BY <1>14, <2>1
  <2>3. ASSUME NEW M PROVE Among(e.inline, M) + Among(e.given, M) = Among(inline, M) + Among(nodes, M)
    <3>1. Among(d.expensive, M) \in Nat /\ Among(d.given, M) \in Nat /\ Among(d.inline, M) \in Nat
      BY <1>14, AmongIs
    <3>2. Among(e.given, M) = Among(d.given, M) + Among(d.expensive, M)
      BY <1>14, <2>1, AmongConcat
    <3>3. Among(d.inline, M) + Among(d.expensive, M) + Among(d.given, M) = Among(inline, M) + Among(nodes, M)
      BY <1>12 DEF Holds
    <3> QED
      BY <2>1, <3>1, <3>2, <3>3
  <2> QED
    BY <1>14, <2>1, <2>2, <2>3 DEF e
<1> QED
  BY <1>15, <1>16

TaggedBags == UNION {[S -> Nat \ {0}] : S \in SUBSET Tagged}

\* The pool gets a closure for each node that is given.
LEMMA GivenKeeps ==
    ASSUME BagOver(pool), NEW nodes \in Seq(Tagged)
    PROVE  /\ BagOver(Given(nodes))
           /\ \A M : Copies(Given(nodes), M) = Copies(pool, M) + Among(nodes, M)
<1> DEFINE n == Len(nodes)
           after[k \in 0 .. n] == IF k = 0 THEN pool ELSE after[k - 1] (+) SetToBag({nodes[k]})
           Good(k) == {b \in TaggedBags : BagOver(b) /\ \A M : Copies(b, M) = Copies(pool, M) + First(nodes, k, M)}
           S == [k \in 0 .. n |-> Good(k)]
           Add(k, b) == b (+) SetToBag({nodes[k]})
           F == [k \in 1 .. n |-> [b \in TaggedBags |-> Add(k, b)]]
<1>1. n \in Nat /\ \A k \in 1 .. n : nodes[k] \in Tagged
  OBVIOUS
<1>2. \A b : BagOver(b) => b \in TaggedBags
  BY DEF BagOver, TaggedBags
<1>3. pool \in Good(0)
  <2>1. ASSUME NEW M PROVE Copies(pool, M) = Copies(pool, M) + First(nodes, 0, M)
    <3>1. First(nodes, 0, M) = 0 /\ Copies(pool, M) \in Nat
      BY FirstNothing, CopiesIs
    <3> QED
      BY <3>1
  <2> QED
    BY <1>2, <2>1
<1>4. ASSUME NEW k \in 1 .. n, NEW b \in Good(k - 1) PROVE Add(k, b) \in Good(k)
  <2> DEFINE c == Add(k, b)
  <2>1. BagOver(b) /\ \A M : Copies(b, M) = Copies(pool, M) + First(nodes, k - 1, M)
    OBVIOUS
  <2>2. BagOver(c) /\ \A M : Copies(c, M) = Copies(b, M) + IfIn(nodes[k], M)
    <3> DEFINE x == nodes[k]
    <3>1. x \in Tagged
      BY <1>1
    <3> HIDE DEF x
    <3>2. BagOver(b (+) SetToBag({x})) /\ \A M : Copies(b (+) SetToBag({x}), M) = Copies(b, M) + IfIn(x, M)
      BY <2>1, <3>1, BagAdds
    <3> QED
      BY <3>2 DEF x
  <2> HIDE DEF c
  <2>3. ASSUME NEW M PROVE Copies(c, M) = Copies(pool, M) + First(nodes, k, M)
    <3>1. /\ First(nodes, k, M) = First(nodes, k - 1, M) + IfIn(nodes[k], M)
          /\ First(nodes, k - 1, M) \in Nat /\ IfIn(nodes[k], M) \in Nat
      BY PrefixAmong DEF First
    <3>2. Copies(pool, M) \in Nat
      BY CopiesIs
    <3>3. Copies(c, M) = Copies(pool, M) + First(nodes, k - 1, M) + IfIn(nodes[k], M)
      BY <2>1, <2>2
    <3> QED
      BY <3>1, <3>2, <3>3
  <2>4. c \in Good(k)
    BY <1>2, <2>2, <2>3
  <2> QED
    BY <2>4 DEF c
<1>5. \A k \in 0 .. n : Good(k) \in SUBSET TaggedBags
  OBVIOUS
<1> HIDE DEF Good, n, Add
<1>6. S[0] = Good(0) /\ \A k \in 1 .. n : S[k - 1] = Good(k - 1) /\ S[k] = Good(k)
  BY <1>1
<1>7. \A k \in 1 .. n : \A b \in TaggedBags : F[k][b] = Add(k, b)
  OBVIOUS
<1> HIDE DEF S, F
<1>8. LeadsOn(n, S, F, pool)
  <2>1. ASSUME NEW k \in 1 .. n, NEW b \in S[k - 1] PROVE F[k][b] \in S[k]
    <3>1. b \in Good(k - 1) /\ b \in TaggedBags
      BY <1>1, <1>5, <1>6
    <3> QED
      BY <1>4, <1>6, <1>7, <3>1
  <2> QED
    BY <1>1, <1>3, <1>6, <2>1 DEF LeadsOn
<1>9. PICK g : /\ g = [k \in 0 .. n |-> IF k = 0 THEN pool ELSE F[k][g[k - 1]]]
               /\ \A k \in 0 .. n : g[k] \in S[k]
  BY <1>8, FoldExists DEF FoldOf
<1>10. g = [k \in 0 .. n |-> IF k = 0 THEN pool ELSE Add(k, g[k - 1])]
  <2>1. ASSUME NEW k \in 0 .. n
        PROVE  (IF k = 0 THEN pool ELSE F[k][g[k - 1]]) = (IF k = 0 THEN pool ELSE Add(k, g[k - 1]))
    <3>1. CASE k = 0
      BY <3>1
    <3>2. CASE k # 0
      <4>1. k \in 1 .. n /\ k - 1 \in 0 .. n
        BY <1>1, <3>2
      <4>2. g[k - 1] \in S[k - 1]
        BY <1>9, <4>1
      <4>3. g[k - 1] \in TaggedBags
        BY <1>5, <1>6, <4>1, <4>2
      <4> QED
        BY <1>7, <3>2, <4>1, <4>3
    <3> QED
      BY <3>1, <3>2
  <2> QED
    BY <1>9, <2>1
<1>11. after = [k \in 0 .. n |-> IF k = 0 THEN pool ELSE Add(k, after[k - 1])]
  BY <1>10 DEF Add
<1> HIDE DEF after
<1>12. \A k \in 0 .. n : after[k] \in S[k]
  <2>1. after[0] \in S[0]
    BY <1>1, <1>3, <1>6, <1>11
  <2>2. ASSUME NEW k \in 1 .. n, after[k - 1] \in S[k - 1] PROVE after[k] \in S[k]
    <3>1. after[k] = Add(k, after[k - 1])
      BY <1>1, <1>11
    <3> QED
      BY <1>4, <1>6, <2>2, <3>1
  <2> QED
    BY <1>1, <2>1, <2>2, FoldStays
<1>13. after[n] \in Good(n)
  BY <1>1, <1>12 DEF S
<1>14. \A M : First(nodes, n, M) = Among(nodes, M)
  BY PrefixIs DEF First, n
<1>15. Given(nodes) = after[n]
  BY DEF Given, after, n
<1> QED
  BY <1>13, <1>14, <1>15 DEF Good

-----------------------------------------------------------------------------
(* The graph does not change, and what is defined by it does not.          *)

\* While the graph stays, so does all that is defined from it.
LEMMA SameGraph ==
    ASSUME graph' = graph
    PROVE  /\ Names' = Names /\ Enters' = Enters /\ Paths' = Paths /\ Tagged' = Tagged
           /\ ThreadStates' = ThreadStates
           /\ \A f : FrameStates(f)' = FrameStates(f)
           /\ \A fs, f : FrameOK(fs, f)' <=> FrameOK(fs, f)
           /\ \A f, i : NodesIn(f, i)' = NodesIn(f, i)
           /\ \A b : BagOver(b)' <=> BagOver(b)
           /\ inter_threadpool' = inter_threadpool /\ GraphOK => GraphOK'
<1>1. Names' = Names /\ Enters' = Enters
  BY DEF Names, Enters
<1>2. Paths' = Paths
  BY <1>1 DEF Paths
<1>3. Tagged' = Tagged
  BY <1>2 DEF Tagged
<1>4. ThreadStates' = ThreadStates
  BY <1>2, <1>3 DEF ThreadStates
<1>5. ASSUME NEW f PROVE FrameStates(f)' = FrameStates(f)
  <2>1. Outputs(f)' = Outputs(f)
    BY DEF Outputs, Into
  <2>2. Exits(f)' = Exits(f) /\ Iterations(f)' = Iterations(f)
    BY DEF Exits, Iterations, NodesOf, Kind
  <2>3. Parallel(f)' = Parallel(f)
    BY DEF Parallel
  <2> QED
    BY <2>1, <2>2, <2>3 DEF FrameStates
<1>6. ASSUME NEW fs, NEW f PROVE FrameOK(fs, f)' <=> FrameOK(fs, f)
  BY <1>5 DEF FrameOK
<1>7. ASSUME NEW f, NEW i PROVE NodesIn(f, i)' = NodesIn(f, i)
  BY DEF NodesIn
<1>8. ASSUME NEW b PROVE BagOver(b)' <=> BagOver(b)
  BY <1>3 DEF BagOver
<1>9. inter_threadpool' = inter_threadpool /\ GraphOK => GraphOK'
  BY <1>1 DEF GraphOK
<1> QED
  BY <1>1, <1>2, <1>3, <1>4, <1>5, <1>6, <1>7, <1>8, <1>9

\* Outstanding of the next state as a sum of values.
LEMMA OutNext ==
    ASSUME graph' = graph
    PROVE  /\ \A M, places : Outstanding(M, places)' = Out(pool', asyncs', th', M, places)
           /\ \A f, i, places : Outstanding(NodesIn(f, i), places)' = Out(pool', asyncs', th', NodesIn(f, i), places)
<1>1. ASSUME NEW t \in Threads PROVE Ready(t)' = ReadyOf(th'[t])
  BY DEF Ready, ReadyOf, At
<1>2. ASSUME NEW M, NEW places, NEW t \in Threads PROVE Held(t, M, places)' = Has(th'[t], M, places)
  BY <1>1 DEF Held, Has
<1>3. ASSUME NEW M, NEW places
      PROVE  [t \in Threads |-> Held(t, M, places)'] = [t \in Threads |-> Has(th'[t], M, places)]
  BY <1>2
<1>4. \A M, places : Outstanding(M, places)' = Out(pool', asyncs', th', M, places)
  BY <1>3 DEF Outstanding, Out
<1>5. ASSUME NEW f, NEW i, NEW places
      PROVE  Outstanding(NodesIn(f, i), places)' = Out(pool', asyncs', th', NodesIn(f, i), places)
  <2>1. NodesIn(f, i)' = NodesIn(f, i)
    BY SameGraph
  <2>2. ASSUME NEW t \in Threads PROVE Held(t, NodesIn(f, i), places)' = Has(th'[t], NodesIn(f, i), places)
    BY <1>1, <2>1 DEF Held, Has
  <2>3. [t \in Threads |-> Held(t, NodesIn(f, i), places)'] = [t \in Threads |-> Has(th'[t], NodesIn(f, i), places)]
    BY <2>2
  <2> QED
    BY <2>1, <2>3 DEF Outstanding, Out
<1> QED
  BY <1>4, <1>5

\* A frame with an iteration outstanding is not done.
LEMMA LivingNotDone ==
    ASSUME GraphOK, NEW f \in Paths, NEW fs, FrameOK(fs, f), NEW i \in Nat, Living(fs, i)
    PROVE  ~ IsFrameDone(fs)
<1>1. i \in Oldest(fs) .. fs.iteration_count
  BY LivingIs
<1>2. fs.iteration_count \in Nat /\ fs.num_outstanding_iterations \in Nat
  BY FrameFields DEF FrameOK
<1>3. fs.num_outstanding_iterations # 0
  BY <1>1, <1>2 DEF Oldest
<1> QED
  BY <1>3 DEF IsFrameDone

-----------------------------------------------------------------------------
(* What is there as long as something is counted.                          *)

\* What Typed says, part by part.
LEMMA TypedParts ==
    ASSUME Typed
    PROVE  /\ th \in [Threads -> ThreadStates] /\ BagOver(pool) /\ BagOver(asyncs)
           /\ \A t \in Threads : th[t] \in ThreadStates
           /\ IsFiniteSet(DOMAIN frames) /\ DOMAIN frames \in SUBSET Paths /\ fired \in SUBSET Tagged
           /\ \A f \in DOMAIN frames : f \in Paths /\ FrameOK(frames[f], f) /\ RootsWait(frames[f])
BY DEF Typed

\* A node to run is one node of its frame and iteration.
LEMMA TaggedIs ==
    ASSUME NEW x \in Tagged
    PROVE  /\ x.node \in DOMAIN graph.kind /\ x.frame \in Paths /\ x.iter \in Nat /\ x.dead \in BOOLEAN
           /\ graph.frame[x.node] = FrameInfo(x.frame)
           /\ x \in NodesIn(x.frame, x.iter) /\ x \in OneNode(x.node, x.frame, x.iter)
           /\ \A f, i : x \in NodesIn(f, i) => f = x.frame /\ i = x.iter
           /\ \A n, f, i : x \in OneNode(n, f, i) => n = x.node /\ f = x.frame /\ i = x.iter
<1>1. x \in [node : DOMAIN graph.kind, frame : Paths, iter : Nat, dead : BOOLEAN]
  BY DEF Tagged
<1>2. x.node \in DOMAIN graph.kind /\ x.frame \in Paths /\ x.iter \in Nat /\ x.dead \in BOOLEAN
  BY <1>1
<1>3. x = [node |-> x.node, frame |-> x.frame, iter |-> x.iter, dead |-> x.dead]
  BY <1>1
<1>4. x \in NodesIn(x.frame, x.iter) /\ x \in OneNode(x.node, x.frame, x.iter)
  BY <1>2, <1>3 DEF NodesIn, OneNode
<1>5. \A f, i : x \in NodesIn(f, i) => f = x.frame /\ i = x.iter
  BY DEF NodesIn
<1>6. \A n, f, i : x \in OneNode(n, f, i) => n = x.node /\ f = x.frame /\ i = x.iter
  BY DEF OneNode
<1>7. graph.frame[x.node] = FrameInfo(x.frame)
  BY DEF Tagged
<1> QED
  BY <1>2, <1>4, <1>5, <1>6, <1>7

\* The iteration of a node that is counted is there.
LEMMA CountedIsThere ==
    ASSUME GraphOK, Typed, OpsCover, NEW f \in Paths, NEW i \in Nat,
           Out(pool, asyncs, th, NodesIn(f, i), InFrame) > 0
    PROVE  f \in DOMAIN frames /\ Living(frames[f], i) /\ ~ IsFrameDone(frames[f])
<1>1. Outstanding(NodesIn(f, i), InFrame) = Out(pool, asyncs, th, NodesIn(f, i), InFrame)
  BY OutNow
<1>2. Outstanding(NodesIn(f, i), InFrame) <= OpsOf(f, i)
  BY DEF OpsCover
<1>3. Out(pool, asyncs, th, NodesIn(f, i), InFrame) \in Nat
  BY TypedParts, OutIs
<1>4. OpsOf(f, i) # 0
  <2>1. CASE f \in DOMAIN frames
    <3>1. FrameOK(frames[f], f)
      BY <2>1, TypedParts
    <3>2. OpsIn(frames[f], i) \in Int
      BY <3>1, GetIs DEF FrameOK
    <3>3. OpsOf(f, i) \in Int
      BY <2>1, <3>2 DEF OpsOf
    <3> QED
      BY <1>1, <1>2, <1>3, <3>3
  <2>2. CASE f \notin DOMAIN frames
    <3>1. OpsOf(f, i) = 0
      BY <2>2 DEF OpsOf
    <3> QED
      BY <1>1, <1>2, <1>3, <3>1
  <2> QED
    BY <2>1, <2>2
<1>5. f \in DOMAIN frames /\ Living(frames[f], i)
  BY <1>4 DEF OpsOf, OpsIn
<1>6. FrameOK(frames[f], f)
  BY <1>5, TypedParts
<1> QED
  BY <1>5, <1>6, LivingNotDone

\* A thread has what it works on, and what is ready.
LEMMA MineIsThere ==
    ASSUME GraphOK, Typed, OpsCover, ThreadsOK, NEW t \in Threads, th[t].pc \in InFrame
    PROVE  /\ th[t].tagged_node \in Tagged /\ ~ th[t].failed
           /\ InputFrame(t) \in Paths /\ InputIter(t) \in Nat
           /\ InputFrame(t) \in DOMAIN frames /\ Living(frames[InputFrame(t)], InputIter(t))
           /\ ~ IsFrameDone(frames[InputFrame(t)])
<1> DEFINE x == th[t].tagged_node
           M == NodesIn(InputFrame(t), InputIter(t))
<1>1. ThreadOK(th[t], status) /\ th[t] \in ThreadStates
  BY TypedParts DEF ThreadsOK
<1>2. x \in Tagged
  BY <1>1 DEF ThreadOK, InFrame, Counted
<1>3. ~ th[t].failed
  BY <1>1 DEF ThreadOK, InFrame
<1>4. InputFrame(t) \in Paths /\ InputIter(t) \in Nat /\ x \in M
  BY <1>2, TaggedIs DEF InputFrame, InputIter
<1> HIDE DEF M, x
<1>5. Has(th[t], M, InFrame) # 0
  BY <1>1, <1>4, HasIs DEF x
<1>6. Has(th[t], M, InFrame) \in Nat
  BY <1>1, HasIs
<1>7. /\ Out(pool, asyncs, th, M, InFrame) \in Nat
      /\ Has(th[t], M, InFrame) <= Out(pool, asyncs, th, M, InFrame)
  BY TypedParts, OutIs
<1>8. Out(pool, asyncs, th, M, InFrame) > 0
  BY <1>5, <1>6, <1>7
<1> QED
  BY <1>2, <1>3, <1>4, <1>8, CountedIsThere DEF M, x

\* The iteration of a node that waits to run is outstanding, and so is its frame.
LEMMA ReadyIsThere ==
    ASSUME GraphOK, Typed, OpsCover,
           NEW x, \/ x \in DOMAIN pool \/ x \in DOMAIN asyncs
                  \/ \E t \in Threads : \/ \E k \in DOMAIN th[t].inline_ready : x = th[t].inline_ready[k]
                                        \/ \E k \in DOMAIN ReadyOf(th[t]) : x = ReadyOf(th[t])[k]
    PROVE  x \in Tagged /\ x.frame \in DOMAIN frames /\ Living(frames[x.frame], x.iter)
<1>1. x \in Tagged
  <2>1. CASE x \in DOMAIN pool \/ x \in DOMAIN asyncs
    BY <2>1, TypedParts DEF BagOver
  <2>2. CASE \E t \in Threads : \/ \E k \in DOMAIN th[t].inline_ready : x = th[t].inline_ready[k]
                                \/ \E k \in DOMAIN ReadyOf(th[t]) : x = ReadyOf(th[t])[k]
    <3>1. PICK t \in Threads : \/ \E k \in DOMAIN th[t].inline_ready : x = th[t].inline_ready[k]
                               \/ \E k \in DOMAIN ReadyOf(th[t]) : x = ReadyOf(th[t])[k]
      BY <2>2
    <3>2. th[t].inline_ready \in Seq(Tagged) /\ ReadyOf(th[t]) \in Seq(Tagged)
      BY TypedParts, HasIs DEF ThreadStates
    <3> QED
      BY <3>1, <3>2, SeqOf
  <2> QED
    BY <2>1, <2>2
<1>2. x.frame \in Paths /\ x.iter \in Nat /\ x \in NodesIn(x.frame, x.iter)
  BY <1>1, TaggedIs
<1> DEFINE M == NodesIn(x.frame, x.iter)
<1> HIDE DEF M
<1>3. Out(pool, asyncs, th, M, InFrame) # 0
  <2>1. CASE x \in DOMAIN pool \/ x \in DOMAIN asyncs
    BY <1>2, <2>1, TypedParts, OutIs DEF M
  <2>2. CASE \E t \in Threads : \/ \E k \in DOMAIN th[t].inline_ready : x = th[t].inline_ready[k]
                                \/ \E k \in DOMAIN ReadyOf(th[t]) : x = ReadyOf(th[t])[k]
    <3>1. PICK t \in Threads : \/ \E k \in DOMAIN th[t].inline_ready : x = th[t].inline_ready[k]
                               \/ \E k \in DOMAIN ReadyOf(th[t]) : x = ReadyOf(th[t])[k]
      BY <2>2
    <3>2. Has(th[t], M, InFrame) # 0
      BY <1>2, <3>1, TypedParts, HasIs DEF M
    <3> QED
      BY <3>2, TypedParts, OutIs
  <2>3. \/ x \in DOMAIN pool \/ x \in DOMAIN asyncs
        \/ \E t \in Threads : \/ \E k \in DOMAIN th[t].inline_ready : x = th[t].inline_ready[k]
                              \/ \E k \in DOMAIN ReadyOf(th[t]) : x = ReadyOf(th[t])[k]
    OBVIOUS
  <2> QED
    BY <2>1, <2>2, <2>3
<1>4. Out(pool, asyncs, th, M, InFrame) \in Nat
  BY TypedParts, OutIs
<1>5. Out(pool, asyncs, th, M, InFrame) > 0
  BY <1>3, <1>4
<1> QED
  BY <1>1, <1>2, <1>5, CountedIsThere DEF M

\* The frames entered from an iteration, and those it is to be told of, can be counted.
LEMMA KidsFinite ==
    ASSUME Typed, NEW f, NEW i
    PROVE  /\ IsFiniteSet(Kids(f, i)) /\ Cardinality(Kids(f, i)) \in Nat
           /\ IsFiniteSet(Told(f, i)) /\ Cardinality(Told(f, i)) \in Nat
           /\ Cardinality(Kids(f, i)) = 0 <=> Kids(f, i) = {}
           /\ Cardinality(Told(f, i)) = 0 <=> Told(f, i) = {}
<1>1. Kids(f, i) \in SUBSET DOMAIN frames /\ Told(f, i) \in SUBSET Threads
  BY DEF Kids, Told
<1>2. IsFiniteSet(DOMAIN frames) /\ IsFiniteSet(Threads)
  BY TypedParts, ThreadsAssumption
<1>3. IsFiniteSet(Kids(f, i)) /\ IsFiniteSet(Told(f, i))
  BY <1>1, <1>2, FS_Subset
<1> QED
  BY <1>3, FS_CardinalityType, FS_EmptySet

\* The iteration that a frame was entered from is outstanding while the frame is, and until it
\* is told of its end.
LEMMA ParentIsThere ==
    ASSUME GraphOK, Typed, SubCover, NEW c \in Paths, c # <<>>,
           c \in DOMAIN frames \/ \E t \in Threads : At(t, "cleanup") /\ th[t].frame = c
    PROVE  /\ ParentFrame(c) \in DOMAIN frames /\ ParentIter(c) \in Nat
           /\ Living(frames[ParentFrame(c)], ParentIter(c)) /\ ~ IsFrameDone(frames[ParentFrame(c)])
<1> DEFINE f == ParentFrame(c)
           i == ParentIter(c)
<1>1. f \in Paths /\ i \in Nat
  BY PathParent
<1>2. Kids(f, i) # {} \/ Told(f, i) # {}
  BY DEF Kids, Told
<1> HIDE DEF f, i
<1>3. Cardinality(Kids(f, i)) + Cardinality(Told(f, i)) <= SubOf(f, i)
  BY <1>1 DEF SubCover
<1>4. SubOf(f, i) # 0
  <2>1. /\ Cardinality(Kids(f, i)) \in Nat /\ Cardinality(Told(f, i)) \in Nat
        /\ Cardinality(Kids(f, i)) # 0 \/ Cardinality(Told(f, i)) # 0
    BY <1>2, KidsFinite
  <2> QED
    BY <1>3, <2>1
<1>5. f \in DOMAIN frames /\ Living(frames[f], i)
  BY <1>4 DEF SubOf, SubIn
<1>6. FrameOK(frames[f], f)
  BY <1>5, TypedParts
<1> QED
  BY <1>1, <1>5, <1>6, LivingNotDone DEF f, i

\* The Enters of a frame that have not fired can be counted.
LEMMA UnfiredIs ==
    ASSUME GraphOK, NEW c
    PROVE  /\ IsFiniteSet(Unfired(c)) /\ Cardinality(Unfired(c)) \in Nat
           /\ Cardinality(Unfired(c)) = 0 <=> Unfired(c) = {}
<1>1. Unfired(c) \in SUBSET Enters
  BY DEF Unfired
<1>2. IsFiniteSet(Unfired(c))
  BY <1>1, GraphFacts, FS_Subset
<1> QED
  BY <1>2, FS_CardinalityType, FS_EmptySet

\* An Enter that is on its way has not fired, and its frame has not ended.
LEMMA EnteringOnce ==
    ASSUME GraphOK, Typed, ThreadsOK, EnterOnce, InputsCount,
           NEW t \in Threads, th[t].pc \in Entering, Node(t) \in Enters
    PROVE  /\ ~ HasFired(Node(t), InputFrame(t), InputIter(t))
           /\ Child(t) \in Paths /\ Child(t) # <<>> /\ FrameInfo(Child(t)) = graph.enters[Node(t)]
           /\ ParentFrame(Child(t)) = InputFrame(t) /\ ParentIter(Child(t)) = InputIter(t)
           /\ Node(t) \in Unfired(Child(t)) /\ Node(t) \in Into(Child(t)) /\ Child(t) \notin closed
           /\ Child(t) \in DOMAIN frames =>
                 /\ frames[Child(t)].num_pending_inputs > 0
                 /\ Living(frames[Child(t)], 0) /\ ~ IsFrameDone(frames[Child(t)])
<1> DEFINE x == th[t].tagged_node
           n == x.node
           f == x.frame
           i == x.iter
           M == OneNode(n, f, i)
           c == MakeFrameName(f, i, graph.enters[n])
<1>1. ThreadOK(th[t], status) /\ th[t] \in ThreadStates
  BY TypedParts DEF ThreadsOK
<1>2. x \in Tagged
  BY <1>1 DEF ThreadOK, Entering, Counted
<1>3. f \in Paths /\ i \in Nat /\ x \in M /\ graph.frame[n] = FrameInfo(f) /\ n \in Enters
  BY <1>2, TaggedIs DEF Node
<1>4. Node(t) = n /\ InputFrame(t) = f /\ InputIter(t) = i /\ Child(t) = c
  BY DEF Node, InputFrame, InputIter, Child
<1> HIDE DEF M
<1>5. Has(th[t], M, Entering) # 0 /\ Has(th[t], M, Entering) \in Nat
  BY <1>1, <1>3, HasIs
<1>6. /\ Out(pool, asyncs, th, M, Entering) \in Nat
      /\ Has(th[t], M, Entering) <= Out(pool, asyncs, th, M, Entering)
  BY TypedParts, OutIs
<1>7. Outstanding(M, Entering) = Out(pool, asyncs, th, M, Entering)
  BY OutNow
<1>8. Outstanding(M, Entering) + MayOf(n, f, i) + (IF HasFired(n, f, i) THEN 1 ELSE 0) <= 1
  BY <1>3 DEF EnterOnce, M
<1>9. MayOf(n, f, i) \in Nat
  BY DEF MayOf, MayIn
<1>10. ~ HasFired(n, f, i)
  BY <1>5, <1>6, <1>7, <1>8, <1>9
<1> HIDE DEF x, n, f, i
<1>11. c \in Paths /\ c # <<>> /\ ParentFrame(c) = f /\ ParentIter(c) = i
       /\ FrameInfo(c) = graph.enters[n] /\ n \in Into(c)
  BY <1>3, PathChild
<1> HIDE DEF c
<1>12. n \in Unfired(c)
  BY <1>3, <1>10, <1>11 DEF Unfired
<1>13. c \notin closed
  BY <1>11, <1>12 DEF InputsCount
<1>14. ASSUME c \in DOMAIN frames
       PROVE  frames[c].num_pending_inputs > 0 /\ Living(frames[c], 0) /\ ~ IsFrameDone(frames[c])
  <2>1. frames[c].num_pending_inputs = Cardinality(Unfired(c))
    BY <1>11, <1>14 DEF InputsCount
  <2>2. Cardinality(Unfired(c)) \in Nat /\ Cardinality(Unfired(c)) # 0
    BY <1>12, UnfiredIs
  <2>3. frames[c].num_pending_inputs > 0
    BY <2>1, <2>2
  <2>4. FrameOK(frames[c], c)
    BY <1>14, TypedParts
  <2>5. Living(frames[c], 0)
    BY <2>3, <2>4 DEF FrameOK
  <2> QED
    BY <2>1, <2>2, <2>3, <2>5 DEF IsFrameDone
<1> QED
  BY <1>4, <1>10, <1>11, <1>12, <1>13, <1>14

-----------------------------------------------------------------------------
(* How a step of one thread changes what is counted.                       *)

\* The thread is in this state after the step.
ThreadMoves(t, r) ==
    /\ t \in Threads /\ r \in ThreadStates /\ th' = [th EXCEPT ![t] = r]
    /\ graph' = graph /\ inter_threadpool' = inter_threadpool
    /\ BagOver(pool') /\ BagOver(asyncs')
FramesTyped(F) ==
    /\ IsFiniteSet(DOMAIN F) /\ DOMAIN F \in SUBSET Paths /\ F = [f \in DOMAIN F |-> F[f]]
    /\ \A f \in DOMAIN F : FrameOK(F[f], f) /\ RootsWait(F[f])
FramesKept ==
    /\ FramesTyped(frames') /\ DOMAIN frames \in SUBSET DOMAIN frames' /\ closed \in SUBSET closed'
Delta(t, r, M, places) ==
    (Copies(pool', M) - Copies(pool, M)) + (Copies(asyncs', M) - Copies(asyncs, M))
    + (Has(r, M, places) - Has(th[t], M, places))

\* What is outstanding after the step of a thread.
LEMMA Moving ==
    ASSUME Typed, NEW t, NEW r, ThreadMoves(t, r), NEW M, NEW places
    PROVE  /\ Out(pool', asyncs', th', M, places) = Out(pool, asyncs, th, M, places) + Delta(t, r, M, places)
           /\ Out(pool, asyncs, th, M, places) \in Nat /\ Delta(t, r, M, places) \in Int
           /\ Out(pool', asyncs', th', M, places) \in Nat
<1>1. /\ t \in Threads /\ r \in ThreadStates /\ th' = [th EXCEPT ![t] = r]
      /\ BagOver(pool') /\ BagOver(asyncs')
  BY DEF ThreadMoves
<1>2. BagOver(pool) /\ BagOver(asyncs) /\ th \in [Threads -> ThreadStates] /\ th[t] \in ThreadStates
  BY <1>1, TypedParts
<1>3. OutChanges(pool, asyncs, th, pool', asyncs', t, r, M, places)
  BY <1>1, <1>2, OutMoves
<1>4. /\ Copies(pool', M) \in Nat /\ Copies(pool, M) \in Nat
      /\ Copies(asyncs', M) \in Nat /\ Copies(asyncs, M) \in Nat
      /\ Has(r, M, places) \in Nat /\ Has(th[t], M, places) \in Nat
  BY <1>1, <1>2, CopiesIs, HasIs
<1>5. Out(pool, asyncs, th, M, places) \in Nat
  BY <1>2, OutIs
<1>6. [th EXCEPT ![t] = r] \in [Threads -> ThreadStates]
  BY <1>1, <1>2
<1>7. Out(pool', asyncs', th', M, places) \in Nat
  BY <1>1, <1>6, OutIs
<1> QED
  BY <1>1, <1>3, <1>4, <1>5, <1>7 DEF Delta, OutChanges

\* The step of a thread keeps the types of what it leaves alone.
LEMMA TypedKept ==
    ASSUME Typed, NEW t, NEW r, ThreadMoves(t, r), FramesTyped(frames'),
           status' \in BOOLEAN, aborted' \in BOOLEAN, fired' \in SUBSET Tagged
    PROVE  Typed'
<1>1. /\ t \in Threads /\ r \in ThreadStates /\ th' = [th EXCEPT ![t] = r] /\ graph' = graph
      /\ BagOver(pool') /\ BagOver(asyncs')
  BY DEF ThreadMoves
<1>2. th' \in [Threads -> ThreadStates]
  BY <1>1, TypedParts
<1>3. /\ Paths' = Paths /\ Tagged' = Tagged /\ ThreadStates' = ThreadStates
      /\ \A fs, f : FrameOK(fs, f)' <=> FrameOK(fs, f)
      /\ \A b : BagOver(b)' <=> BagOver(b)
  BY <1>1, SameGraph
<1>4. (BagOver(pool))' /\ (BagOver(asyncs))'
  BY <1>1, <1>3 DEF BagOver
<1>5. ASSUME NEW f \in DOMAIN frames' PROVE (FrameOK(frames[f], f) /\ RootsWait(frames[f]))'
  <2>1. FrameOK(frames'[f], f) /\ RootsWait(frames'[f])
    BY DEF FramesTyped
  <2>2. (FrameStates(f))' = FrameStates(f)
    BY <1>1, SameGraph
  <2> QED
    BY <2>1, <2>2 DEF FrameOK, RootsWait
<1>6. /\ (th \in [Threads -> ThreadStates])' /\ (fired \in SUBSET Tagged)'
      /\ (status \in BOOLEAN /\ aborted \in BOOLEAN)'
  BY <1>2, <1>3
<1>7. /\ IsFiniteSet(DOMAIN frames') /\ (DOMAIN frames \in SUBSET Paths)'
      /\ frames' = [f \in DOMAIN frames' |-> frames'[f]]
  BY <1>3 DEF FramesTyped
<1> QED
  BY <1>4, <1>5, <1>6, <1>7 DEF Typed

\* The counts of a frame are numbers.
LEMMA OpsNumbers ==
    ASSUME GraphOK, NEW F, FramesTyped(F), NEW f \in DOMAIN F, NEW i \in Nat
    PROVE  /\ f \in Paths /\ FrameOK(F[f], f) /\ OpsIn(F[f], i) \in Int /\ SubIn(F[f], i) \in Int
           /\ \A n : MayIn(F[f], n, i) \in 0 .. 1
<1>1. f \in Paths /\ FrameOK(F[f], f)
  BY DEF FramesTyped
<1>2. F[f] \in FrameStates(f)
  BY <1>1 DEF FrameOK
<1> QED
  BY <1>1, <1>2, GetIs

\* The frames have the type that the lemmas on sections assume.
LEMMA TypedFrames ==
    ASSUME Typed
    PROVE  FramesTyped(frames)
BY DEF Typed, FramesTyped

\* The count of an iteration follows that of its nodes.
LEMMA OpsKept ==
    ASSUME GraphOK, Typed, OpsCover, NEW t, NEW r, ThreadMoves(t, r), FramesTyped(frames'),
           \A f \in Paths, i \in Nat :
              /\ Delta(t, r, NodesIn(f, i), InFrame) <= OpsOf(f, i)' - OpsOf(f, i)
              /\ Sound' => Sound /\ Delta(t, r, NodesIn(f, i), InFrame) = OpsOf(f, i)' - OpsOf(f, i)
    PROVE  OpsCover'
<1>1. graph' = graph
  BY DEF ThreadMoves
<1>2. Paths' = Paths
  BY <1>1, SameGraph
<1>3. ASSUME NEW f \in Paths, NEW i \in Nat
      PROVE  /\ Outstanding(NodesIn(f, i), InFrame)' <= OpsOf(f, i)'
             /\ Sound' => Outstanding(NodesIn(f, i), InFrame)' = OpsOf(f, i)'
  <2> DEFINE M == NodesIn(f, i)
             now == Out(pool, asyncs, th, M, InFrame)
             next == Out(pool', asyncs', th', M, InFrame)
             d == Delta(t, r, M, InFrame)
             a == OpsOf(f, i)
             b == OpsOf(f, i)'
  <2>1. Outstanding(NodesIn(f, i), InFrame)' = next
    BY <1>1, OutNext
  <2>2. now <= a /\ (Sound => now = a)
    BY OutNow DEF OpsCover
  <2>3. next = now + d /\ now \in Nat /\ d \in Int
    BY Moving
  <2>4. d <= b - a /\ (Sound' => Sound /\ d = b - a)
    OBVIOUS
  <2>5. a \in Int
    BY TypedFrames, OpsNumbers DEF OpsOf
  <2>6. b \in Int
    BY OpsNumbers DEF OpsOf
  <2> HIDE DEF M, now, next, d, a, b
  <2>7. next <= b /\ (Sound' => next = b)
    BY <2>2, <2>3, <2>4, <2>5, <2>6
  <2> QED
    BY <2>1, <2>7 DEF b
<1> QED
  BY <1>2, <1>3 DEF OpsCover

\* An Enter fires once.
LEMMA EnterKept ==
    ASSUME GraphOK, Typed, EnterOnce, NEW t, NEW r, ThreadMoves(t, r), FramesTyped(frames'),
           \A n \in Enters, f \in Paths, i \in Nat :
              graph.frame[n] = FrameInfo(f) =>
                 Delta(t, r, OneNode(n, f, i), Entering) + MayOf(n, f, i)' + (IF HasFired(n, f, i)' THEN 1 ELSE 0)
                    <= MayOf(n, f, i) + (IF HasFired(n, f, i) THEN 1 ELSE 0)
    PROVE  EnterOnce'
<1>1. graph' = graph
  BY DEF ThreadMoves
<1>2. Paths' = Paths /\ Enters' = Enters
  BY <1>1, SameGraph
<1>3. ASSUME NEW n \in Enters, NEW f \in Paths, NEW i \in Nat, graph.frame[n] = FrameInfo(f)
      PROVE  Outstanding(OneNode(n, f, i), Entering)' + MayOf(n, f, i)' + (IF HasFired(n, f, i)' THEN 1 ELSE 0) <= 1
  <2> DEFINE M == OneNode(n, f, i)
             now == Out(pool, asyncs, th, M, Entering)
             next == Out(pool', asyncs', th', M, Entering)
             d == Delta(t, r, M, Entering)
             a == MayOf(n, f, i)
             b == MayOf(n, f, i)'
             g == IF HasFired(n, f, i) THEN 1 ELSE 0
             h == IF HasFired(n, f, i)' THEN 1 ELSE 0
  <2>1. Outstanding(OneNode(n, f, i), Entering)' = next
    BY <1>1, OutNext
  <2>2. now + a + g <= 1
    BY <1>3, OutNow DEF EnterOnce
  <2>3. next = now + d /\ now \in Nat /\ d \in Int
    BY Moving
  <2>4. d + b + h <= a + g
    BY <1>3
  <2>5. a \in Int /\ b \in Int
    BY DEF MayOf, MayIn
  <2>6. g \in Int /\ h \in Int
    OBVIOUS
  <2> HIDE DEF M, now, next, d, a, b, g, h
  <2>7. next + b + h <= 1
    BY <2>2, <2>3, <2>4, <2>5, <2>6
  <2> QED
    BY <2>1, <2>7 DEF b, h
<1> QED
  BY <1>1, <1>2, <1>3 DEF EnterOnce

-----------------------------------------------------------------------------
(* A section of a frame: one thread, with the lock of one frame.           *)

Leaving(t, r, places) == th[t].pc \in places /\ r.pc \notin places
Ended(t, r) == IF Leaving(t, r, InFrame) THEN 1 ELSE 0

Section(t, r, g, b, iter, sub) ==
    /\ ThreadMoves(t, r) /\ pool' = pool /\ asyncs' = asyncs /\ status' = status /\ aborted' = aborted
    /\ r.inline_ready = th[t].inline_ready /\ r.tagged_node = th[t].tagged_node
    /\ r.failed = th[t].failed /\ th[t].tagged_node \in Tagged
    /\ \A places \in {InFrame, Entering} : r.pc \in places => th[t].pc \in places
    /\ g \in DOMAIN frames /\ b \in Accs(g) /\ b.ready = ReadyOf(r)
    /\ Leaving(t, r, InFrame) => g = InputFrame(t) /\ iter = InputIter(t)
    /\ Lowers([fs |-> frames[g], ready |-> ReadyOf(th[t])], b, g, iter, Ended(t, r), sub)
    /\ FramesKept
    /\ frames'[g] = b.fs /\ \A f \in DOMAIN frames : f # g => frames'[f] = frames[f]
    /\ \A f \in DOMAIN frames' : f \notin DOMAIN frames =>
          f \notin closed /\ \A i \in Nat : OpsIn(frames'[f], i) = 0 /\ SubIn(frames'[f], i) = 0
    /\ fired' = IF Leaving(t, r, Entering) THEN fired \union {th[t].tagged_node} ELSE fired

\* A critical section keeps the types.
LEMMA SectionTyped ==
    ASSUME Typed, NEW t, NEW r, NEW g, NEW b, NEW iter, NEW sub, Section(t, r, g, b, iter, sub)
    PROVE  Typed'
<1>1. ThreadMoves(t, r) /\ FramesTyped(frames')
  BY DEF Section, FramesKept
<1>2. status' \in BOOLEAN /\ aborted' \in BOOLEAN /\ fired' \in SUBSET Tagged
  BY TypedParts DEF Section, Typed
<1> QED
  BY <1>1, <1>2, TypedKept

\* What the thread of a critical section has more or less of some nodes.
LEMMA SectionDelta ==
    ASSUME Typed, NEW t, NEW r, NEW g, NEW b, NEW iter, NEW sub, Section(t, r, g, b, iter, sub),
           NEW M, NEW places \in {InFrame, Entering}
    PROVE  /\ Delta(t, r, M, places) = Among(b.ready, M) - Among(ReadyOf(th[t]), M)
                 - (IF Leaving(t, r, places) THEN IfIn(th[t].tagged_node, M) ELSE 0)
           /\ Among(b.ready, M) \in Nat /\ Among(ReadyOf(th[t]), M) \in Nat
<1> DEFINE x == th[t].tagged_node
<1>1. /\ t \in Threads /\ r \in ThreadStates /\ th[t] \in ThreadStates
  BY TypedParts DEF Section, ThreadMoves
<1>2. /\ pool' = pool /\ asyncs' = asyncs
      /\ r.inline_ready = th[t].inline_ready /\ r.tagged_node = th[t].tagged_node
      /\ r.pc \in places => th[t].pc \in places
      /\ b.ready = ReadyOf(r)
  BY DEF Section
<1>3. /\ Among(r.inline_ready, M) \in Nat /\ Among(ReadyOf(r), M) \in Nat
      /\ Among(th[t].inline_ready, M) \in Nat /\ Among(ReadyOf(th[t]), M) \in Nat
  BY <1>1, HasIs
<1>4. Copies(pool, M) \in Nat /\ Copies(asyncs, M) \in Nat
  BY TypedParts, CopiesIs
<1>5. /\ Has(r, M, places) = Among(th[t].inline_ready, M) + Among(b.ready, M)
                             + (IF r.pc \in places /\ x \in M THEN 1 ELSE 0)
      /\ Has(th[t], M, places) = Among(th[t].inline_ready, M) + Among(ReadyOf(th[t]), M)
                             + (IF th[t].pc \in places /\ x \in M THEN 1 ELSE 0)
  BY <1>2 DEF Has
<1>6. (IF r.pc \in places /\ x \in M THEN 1 ELSE 0) =
      (IF th[t].pc \in places /\ x \in M THEN 1 ELSE 0) - (IF Leaving(t, r, places) THEN IfIn(x, M) ELSE 0)
  BY <1>2 DEF Leaving, IfIn
<1>7. IfIn(x, M) \in Nat
  BY DEF IfIn
<1>8. Copies(pool', M) = Copies(pool, M) /\ Copies(asyncs', M) = Copies(asyncs, M)
  BY <1>2
<1> HIDE DEF x
<1> QED
  BY <1>2, <1>3, <1>4, <1>5, <1>6, <1>7, <1>8 DEF Delta, x

\* A critical section keeps OpsCover: what gets ready is counted, and what is lowered was the
\* thread's.
LEMMA SectionOps ==
    ASSUME GraphOK, Typed, OpsCover, NEW t, NEW r, NEW g, NEW b, NEW iter, NEW sub,
           Section(t, r, g, b, iter, sub)
    PROVE  OpsCover'
<1> DEFINE x == th[t].tagged_node
           a == [fs |-> frames[g], ready |-> ReadyOf(th[t])]
<1>1. ThreadMoves(t, r) /\ FramesTyped(frames') /\ t \in Threads /\ x \in Tagged
  BY DEF Section, FramesKept, ThreadMoves
<1>2. g \in DOMAIN frames /\ g \in Paths /\ b \in Accs(g)
  BY TypedParts DEF Section
<1>3. Sound' => Sound
  <2>1. \A u \in Threads : th'[u].failed = th[u].failed
    BY TypedParts DEF Section, ThreadMoves
  <2> QED
    BY <2>1 DEF Sound, Section
<1>4. ASSUME NEW f \in Paths, NEW i \in Nat
      PROVE  Delta(t, r, NodesIn(f, i), InFrame) = OpsOf(f, i)' - OpsOf(f, i)
  <2> DEFINE M == NodesIn(f, i)
  <2>1. /\ Delta(t, r, M, InFrame) = Among(b.ready, M) - Among(a.ready, M)
              - (IF Leaving(t, r, InFrame) THEN IfIn(x, M) ELSE 0)
        /\ Among(b.ready, M) \in Nat /\ Among(a.ready, M) \in Nat
    BY SectionDelta
  <2>2. CASE f = g
    <3>1. OpsOf(f, i) = OpsIn(a.fs, i) /\ OpsOf(f, i)' = OpsIn(b.fs, i)
      BY <1>2, <2>2 DEF OpsOf, Section, FramesKept
    <3>2. OpsIn(a.fs, i) \in Int /\ OpsIn(b.fs, i) \in Int
      <4>1. OpsIn(frames[g], i) \in Int
        BY <1>2, TypedFrames, OpsNumbers
      <4>2. OpsIn(b.fs, i) \in Int
        BY <1>2, MovesNumbers
      <4> QED
        BY <4>1, <4>2
    <3>3. OpsIn(b.fs, i) - OpsIn(a.fs, i) =
             Among(b.ready, M) - Among(a.ready, M) - (IF i = iter THEN Ended(t, r) ELSE 0)
      <4>1. Lowers(a, b, g, iter, Ended(t, r), sub)
        BY DEF Section
      <4> HIDE DEF a
      <4> QED
        BY <2>2, <4>1 DEF Lowers
    <3>4. (IF i = iter THEN Ended(t, r) ELSE 0) = (IF Leaving(t, r, InFrame) THEN IfIn(x, M) ELSE 0)
      <4>1. CASE Leaving(t, r, InFrame)
        <5>1. g = x.frame /\ iter = x.iter
          BY <4>1 DEF Section, InputFrame, InputIter
        <5>2. x \in M <=> i = iter
          BY <1>1, <2>2, <5>1, TaggedIs
        <5> QED
          BY <4>1, <5>2 DEF IfIn, Ended
      <4>2. CASE ~ Leaving(t, r, InFrame)
        BY <4>2 DEF Ended
      <4> QED
        BY <4>1, <4>2
    <3> HIDE DEF M, a
    <3> QED
      BY <2>1, <3>1, <3>2, <3>3, <3>4 DEF M
  <2>3. CASE f # g
    <3>1. OpsOf(f, i)' = OpsOf(f, i)
      <4>1. CASE f \in DOMAIN frames
        BY <2>3, <4>1 DEF OpsOf, Section, FramesKept
      <4>2. CASE f \notin DOMAIN frames /\ f \in DOMAIN frames'
        BY <2>3, <4>2 DEF OpsOf, Section
      <4>3. CASE f \notin DOMAIN frames /\ f \notin DOMAIN frames'
        BY <2>3, <4>3 DEF OpsOf
      <4> QED
        BY <4>1, <4>2, <4>3
    <3>2. \A y \in Tagged : y \in M => y.frame # g
      BY <2>3, TaggedIs
    <3>3. Among(b.ready, M) = Among(a.ready, M)
      <4>1. Lowers(a, b, g, iter, Ended(t, r), sub)
        BY DEF Section
      <4> HIDE DEF a, M
      <4> QED
        BY <3>2, <4>1 DEF Lowers
    <3>4. Leaving(t, r, InFrame) => IfIn(x, M) = 0
      <4>1. Leaving(t, r, InFrame) => x.frame = g
        BY DEF Section, InputFrame
      <4> QED
        BY <1>1, <3>2, <4>1 DEF IfIn
    <3>5. OpsOf(f, i) \in Int
      BY TypedFrames, OpsNumbers DEF OpsOf
    <3> HIDE DEF M, a, x
    <3> QED
      BY <2>1, <3>1, <3>3, <3>4, <3>5 DEF M
  <2> QED
    BY <2>2, <2>3
<1>5. ASSUME NEW f \in Paths, NEW i \in Nat PROVE OpsOf(f, i) \in Int /\ OpsOf(f, i)' \in Int
  BY <1>1, TypedFrames, OpsNumbers DEF OpsOf
<1>6. \A f \in Paths, i \in Nat :
         /\ Delta(t, r, NodesIn(f, i), InFrame) <= OpsOf(f, i)' - OpsOf(f, i)
         /\ Sound' => Sound /\ Delta(t, r, NodesIn(f, i), InFrame) = OpsOf(f, i)' - OpsOf(f, i)
  BY <1>3, <1>4, <1>5
<1> QED
  BY <1>1, <1>6, OpsKept

\* A critical section keeps EnterOnce: an Enter that gets ready could still get ready before.
LEMMA SectionEnter ==
    ASSUME GraphOK, Typed, EnterOnce, NEW t, NEW r, NEW g, NEW b, NEW iter, NEW sub,
           Section(t, r, g, b, iter, sub)
    PROVE  EnterOnce'
<1> DEFINE x == th[t].tagged_node
           a == [fs |-> frames[g], ready |-> ReadyOf(th[t])]
           leaving == Leaving(t, r, Entering)
<1>1. ThreadMoves(t, r) /\ FramesTyped(frames') /\ t \in Threads /\ x \in Tagged
  BY DEF Section, FramesKept, ThreadMoves
<1>2. g \in DOMAIN frames /\ g \in Paths /\ b \in Accs(g)
  BY TypedParts DEF Section
<1>3. ASSUME NEW n \in Enters, NEW f \in Paths, NEW i \in Nat, graph.frame[n] = FrameInfo(f)
      PROVE  Delta(t, r, OneNode(n, f, i), Entering) + MayOf(n, f, i)' + (IF HasFired(n, f, i)' THEN 1 ELSE 0)
                <= MayOf(n, f, i) + (IF HasFired(n, f, i) THEN 1 ELSE 0)
  <2> DEFINE M == OneNode(n, f, i)
             took == IF leaving THEN IfIn(x, M) ELSE 0
             had == IF HasFired(n, f, i) THEN 1 ELSE 0
             has == IF HasFired(n, f, i)' THEN 1 ELSE 0
             may == MayOf(n, f, i)
             mayn == MayOf(n, f, i)'
             d == Delta(t, r, M, Entering)
             p == Among(b.ready, M)
             q == Among(a.ready, M)
  <2>1. d = p - q - took /\ p \in Nat /\ q \in Nat
    BY SectionDelta
  <2>2. has <= had + took
    <3>1. fired' = IF leaving THEN fired \union {x} ELSE fired
      BY DEF Section
    <3>2. HasFired(n, f, i)' => HasFired(n, f, i) \/ (leaving /\ x.node = n /\ x.frame = f /\ x.iter = i)
      BY <3>1 DEF HasFired
    <3>3. x.node = n /\ x.frame = f /\ x.iter = i => x \in M
      BY <1>1, TaggedIs
    <3> HIDE DEF x, leaving, M
    <3> QED
      BY <3>2, <3>3 DEF IfIn
  <2>3. mayn + p <= may + q /\ may \in 0 .. 1 /\ mayn \in 0 .. 1
    <3>1. may \in 0 .. 1 /\ mayn \in 0 .. 1
      BY DEF MayOf, MayIn
    <3>2. CASE f = g
      <4>1. may = MayIn(a.fs, n, i) /\ mayn = MayIn(b.fs, n, i)
        BY <1>2, <3>2 DEF MayOf, Section, FramesKept
      <4>2. Lowers(a, b, g, iter, Ended(t, r), sub)
        BY DEF Section
      <4> HIDE DEF a, may, mayn
      <4>3. MayIn(b.fs, n, i) + Among(b.ready, OneNode(n, g, i)) <= MayIn(a.fs, n, i) + Among(a.ready, OneNode(n, g, i))
        BY <1>3, <3>2, <4>2 DEF Lowers
      <4> QED
        BY <3>1, <3>2, <4>1, <4>3
    <3>3. CASE f # g
      <4>1. mayn <= may
        <5>1. CASE f \in DOMAIN frames
          BY <3>1, <3>3, <5>1 DEF MayOf, Section, FramesKept
        <5>2. CASE f \notin DOMAIN frames /\ f \in DOMAIN frames'
          <6>1. may = 1
            BY <5>2 DEF MayOf, Section
          <6> HIDE DEF may, mayn
          <6> QED
            BY <3>1, <6>1
        <5>3. CASE f \notin DOMAIN frames /\ f \notin DOMAIN frames'
          <6>1. may = IF f \in closed THEN 0 ELSE 1
            BY <5>3 DEF MayOf
          <6>2. mayn = IF f \in closed' THEN 0 ELSE 1
            BY <5>3 DEF MayOf
          <6>3. f \in closed => f \in closed'
            BY DEF Section, FramesKept
          <6> HIDE DEF may, mayn
          <6> QED
            BY <6>1, <6>2, <6>3
        <5> QED
          BY <5>1, <5>2, <5>3
      <4>2. \A y \in Tagged : y \in M => y.frame # g
        BY <3>3, TaggedIs
      <4>3. p = q
        <5>1. Lowers(a, b, g, iter, Ended(t, r), sub)
          BY DEF Section
        <5> HIDE DEF a, M
        <5> QED
          BY <4>2, <5>1 DEF Lowers
      <4> HIDE DEF may, mayn, p, q
      <4> QED
        BY <2>1, <3>1, <4>1, <4>3
    <3> QED
      BY <3>2, <3>3
  <2>4. took \in Int /\ had \in Int /\ has \in Int
    BY DEF IfIn
  <2> HIDE DEF took, had, has, may, mayn, d, p, q
  <2>5. d + mayn + has <= may + had
    BY <2>1, <2>2, <2>3, <2>4
  <2> QED
    BY <2>5 DEF had, has, may, mayn, d
<1> QED
  BY <1>1, <1>3, EnterKept

\* The frames that were entered from an iteration.
LEMMA SectionSub ==
    ASSUME GraphOK, Typed, SubCover, NEW t, NEW r, NEW g, NEW b, NEW iter, NEW sub \in Int,
           Section(t, r, g, b, iter, sub),
           \A f \in Paths, i \in Nat :
              Cardinality(Kids(f, i)') + Cardinality(Told(f, i)') <=
                 Cardinality(Kids(f, i)) + Cardinality(Told(f, i)) - (IF f = g /\ i = iter THEN sub ELSE 0)
    PROVE  SubCover'
<1> DEFINE a == [fs |-> frames[g], ready |-> ReadyOf(th[t])]
<1>1. FramesTyped(frames') /\ graph' = graph
  BY DEF Section, FramesKept, ThreadMoves
<1>2. g \in DOMAIN frames /\ g \in Paths /\ b \in Accs(g)
  BY TypedParts DEF Section
<1>3. Paths' = Paths
  BY <1>1, SameGraph
<1>4. ASSUME NEW f \in Paths, NEW i \in Nat
      PROVE  Cardinality(Kids(f, i)') + Cardinality(Told(f, i)') <= SubOf(f, i)'
  <2> DEFINE k == Cardinality(Kids(f, i))
             u == Cardinality(Told(f, i))
             kn == Cardinality(Kids(f, i)')
             un == Cardinality(Told(f, i)')
             s == SubOf(f, i)
             sn == SubOf(f, i)'
             e == IF f = g /\ i = iter THEN sub ELSE 0
  <2>1. k + u <= s
    BY DEF SubCover
  <2>2. kn + un <= k + u - e
    OBVIOUS
  <2>3. s \in Int
    BY TypedFrames, OpsNumbers DEF SubOf
  <2>4. sn = s - e
    <3>1. CASE f = g
      <4>1. s = SubIn(a.fs, i) /\ sn = SubIn(b.fs, i)
        BY <1>2, <3>1 DEF SubOf, Section, FramesKept
      <4>2. Lowers(a, b, g, iter, Ended(t, r), sub)
        BY DEF Section
      <4> HIDE DEF a, s, sn
      <4>3. SubIn(b.fs, i) = SubIn(a.fs, i) - (IF i = iter THEN sub ELSE 0)
        BY <4>2 DEF Lowers
      <4> QED
        BY <3>1, <4>1, <4>3
    <3>2. CASE f # g
      <4>1. SubOf(f, i)' = SubOf(f, i)
        <5>1. CASE f \in DOMAIN frames
          BY <3>2, <5>1 DEF SubOf, Section, FramesKept
        <5>2. CASE f \notin DOMAIN frames /\ f \in DOMAIN frames'
          BY <3>2, <5>2 DEF SubOf, Section
        <5>3. CASE f \notin DOMAIN frames /\ f \notin DOMAIN frames'
          BY <3>2, <5>3 DEF SubOf
        <5> QED
          BY <5>1, <5>2, <5>3
      <4>2. e = 0
        BY <3>2
      <4> QED
        BY <2>3, <4>1, <4>2
    <3> QED
      BY <3>1, <3>2
  <2>5. k \in Nat /\ u \in Nat
    BY KidsFinite
  <2>6. e \in Int
    OBVIOUS
  <2>7. kn + un \in Int => kn + un <= sn
    <3> HIDE DEF k, u, s, sn, e
    <3> QED
      BY <2>1, <2>2, <2>3, <2>4, <2>5, <2>6
  <2>8. kn \in Nat /\ un \in Nat
    <3>1. Kids(f, i)' \in SUBSET DOMAIN frames' /\ Told(f, i)' \in SUBSET Threads
      BY DEF Kids, Told
    <3>2. IsFiniteSet(Kids(f, i)') /\ IsFiniteSet(Told(f, i)')
      BY <1>1, <3>1, ThreadsAssumption, FS_Subset DEF FramesTyped
    <3> QED
      BY <3>2, FS_CardinalityType
  <2> HIDE DEF k, u, kn, un, s, sn, e
  <2>9. kn + un <= sn
    BY <2>7, <2>8
  <2> QED
    BY <2>9 DEF kn, un, sn
<1> QED
  BY <1>3, <1>4 DEF SubCover

\* The frames entered from an iteration stay while frames and the threads that end them do.
LEMMA SameKids ==
    ASSUME Typed, NEW t, NEW r, ThreadMoves(t, r), DOMAIN frames' = DOMAIN frames,
           th[t].pc # "cleanup", r.pc # "cleanup"
    PROVE  \A f, i : Kids(f, i)' = Kids(f, i) /\ Told(f, i)' = Told(f, i)
<1>1. th \in [Threads -> ThreadStates] /\ t \in Threads /\ th' = [th EXCEPT ![t] = r]
  BY TypedParts DEF ThreadMoves
<1>2. ASSUME NEW f, NEW i PROVE Kids(f, i)' = Kids(f, i)
  BY DEF Kids
<1>3. ASSUME NEW f, NEW i PROVE Told(f, i)' = Told(f, i)
  <2>1. \A u \in Threads : u # t => th'[u] = th[u]
    BY <1>1
  <2>2. th'[t].pc # "cleanup"
    BY <1>1
  <2> QED
    BY <1>1, <2>1, <2>2 DEF Told, At
<1> QED
  BY <1>2, <1>3

\* A critical section that neither makes nor ends a frame keeps SubCover.
LEMMA SectionSameSub ==
    ASSUME GraphOK, Typed, SubCover, NEW t, NEW r, NEW g, NEW b, NEW iter,
           Section(t, r, g, b, iter, 0), DOMAIN frames' = DOMAIN frames,
           th[t].pc # "cleanup", r.pc # "cleanup"
    PROVE  SubCover'
<1>1. ThreadMoves(t, r)
  BY DEF Section
<1>2. \A f, i : Kids(f, i)' = Kids(f, i) /\ Told(f, i)' = Told(f, i)
  BY <1>1, SameKids
<1>3. ASSUME NEW f \in Paths, NEW i \in Nat
      PROVE  Cardinality(Kids(f, i)') + Cardinality(Told(f, i)') <=
                 Cardinality(Kids(f, i)) + Cardinality(Told(f, i)) - (IF f = g /\ i = iter THEN 0 ELSE 0)
  <2>1. Cardinality(Kids(f, i)) \in Nat /\ Cardinality(Told(f, i)) \in Nat
    BY KidsFinite
  <2>2. Kids(f, i)' = Kids(f, i) /\ Told(f, i)' = Told(f, i)
    BY <1>2
  <2> QED
    BY <2>1, <2>2
<1> QED
  BY <1>3, SectionSub

\* The thread of a step is in order again, and the others still are.
LEMMA ThreadsKept ==
    ASSUME Typed, ThreadsOK, NEW t, NEW r, ThreadMoves(t, r), ThreadOK(r, status'), status' => status
    PROVE  ThreadsOK'
<1>1. /\ th \in [Threads -> ThreadStates] /\ t \in Threads /\ th' = [th EXCEPT ![t] = r] /\ graph' = graph
  BY TypedParts DEF ThreadMoves
<1>2. Tagged' = Tagged /\ Enters' = Enters
  BY <1>1, SameGraph
<1>3. ASSUME NEW u \in Threads PROVE ThreadOK(th'[u], status')
  <2>1. CASE u = t
    BY <1>1, <2>1
  <2>2. CASE u # t
    <3>1. th'[u] = th[u] /\ ThreadOK(th[u], status)
      BY <1>1, <2>2 DEF ThreadsOK
    <3> QED
      BY <3>1 DEF ThreadOK
  <2> QED
    BY <2>1, <2>2
<1> QED
  BY <1>2, <1>3 DEF ThreadsOK, ThreadOK

\* A critical section keeps DeletersOK: nobody else was deleting the frame that it finds done.
LEMMA SectionDeleters ==
    ASSUME GraphOK, Typed, DeletersOK, NEW t, NEW r, NEW g, NEW b, NEW iter, NEW sub,
           Section(t, r, g, b, iter, sub), ~ IsFrameDone(frames[g]),
           r.pc = "delete_frame" => r.frame = g /\ IsFrameDone(b.fs),
           r.pc = "erase_frame" => /\ th[t].pc = "delete_frame" /\ r.frame = th[t].frame
                                   /\ r.frame \in closed',
           r.pc = "enter" => Child(t) \in DOMAIN frames',
           r.pc # "cleanup"
    PROVE  DeletersOK'
<1>1. /\ th \in [Threads -> ThreadStates] /\ t \in Threads /\ th' = [th EXCEPT ![t] = r] /\ graph' = graph
      /\ r.tagged_node = th[t].tagged_node
  BY TypedParts DEF Section, ThreadMoves
<1>2. th'[t] = r /\ \A u \in Threads : u # t => th'[u] = th[u]
  BY <1>1
<1>3. /\ DOMAIN frames \in SUBSET DOMAIN frames' /\ closed \in SUBSET closed' /\ g \in DOMAIN frames
      /\ frames'[g] = b.fs /\ \A f \in DOMAIN frames : f # g => frames'[f] = frames[f]
  BY DEF Section, FramesKept
<1>4. \A u \in Threads : Child(u)' = Child(u)
  BY <1>1, <1>2 DEF Child, MakeFrameName, InputFrame, InputIter, Node
<1>5. ASSUME NEW u \in Threads, th[u].pc \in {"delete_frame", "erase_frame"}
      PROVE  /\ th[u].frame \in DOMAIN frames /\ IsFrameDone(frames[th[u].frame]) /\ th[u].frame # g
             /\ \A v \in Threads : v # u => ~ (th[v].pc \in {"delete_frame", "erase_frame"} /\ th[v].frame = th[u].frame)
  BY <1>5 DEF DeletersOK, Deleting
<1>6. ASSUME NEW u \in Threads, th'[u].pc \in {"delete_frame", "erase_frame"}
      PROVE  /\ th'[u].frame \in DOMAIN frames' /\ IsFrameDone(frames'[th'[u].frame])
             /\ u = t => th'[u].frame = g \/ (th[t].pc = "delete_frame" /\ th'[u].frame = th[t].frame)
             /\ u # t => th'[u].frame # g
  <2>1. CASE u # t
    BY <1>2, <1>3, <1>5, <1>6, <2>1
  <2>2. CASE u = t
    BY <1>2, <1>3, <1>5, <1>6, <2>2
  <2> QED
    BY <2>1, <2>2
<1>7. ASSUME NEW u \in Threads, th'[u].pc \in {"delete_frame", "erase_frame"},
             NEW v \in Threads, th'[v].pc \in {"delete_frame", "erase_frame"}, th'[u].frame = th'[v].frame
      PROVE  u = v
  <2>1. CASE u = t \/ v = t
    BY <1>2, <1>5, <1>6, <1>7, <2>1
  <2>2. CASE u # t /\ v # t
    BY <1>2, <1>5, <1>7, <2>2
  <2> QED
    BY <2>1, <2>2
<1>8. ASSUME NEW u \in Threads, th'[u].pc = "enter" PROVE Child(u)' \in DOMAIN frames'
  <2>1. CASE u = t
    BY <1>2, <1>4, <1>8, <2>1
  <2>2. CASE u # t
    BY <1>2, <1>3, <1>4, <1>8, <2>2 DEF DeletersOK, At
  <2> QED
    BY <2>1, <2>2
<1>9. ASSUME NEW u \in Threads PROVE /\ th'[u].pc = "erase_frame" => th'[u].frame \in closed'
                                     /\ th'[u].pc = "cleanup" => th'[u].frame # <<>>
  <2>1. CASE u = t
    BY <1>2, <2>1
  <2>2. CASE u # t
    BY <1>2, <1>3, <2>2 DEF DeletersOK, At
  <2> QED
    BY <2>1, <2>2
<1> QED
  BY <1>6, <1>7, <1>8, <1>9 DEF DeletersOK, Deleting, At

\* No Enter has fired.
LEMMA InputsSame ==
    ASSUME GraphOK, Typed, InputsCount, graph' = graph, DOMAIN frames' = DOMAIN frames,
           \A c \in DOMAIN frames : frames'[c].num_pending_inputs = frames[c].num_pending_inputs,
           closed \in SUBSET closed', \A c \in closed' : c \in closed \/ c = <<>> \/ Unfired(c) = {},
           fired \in SUBSET fired', \A x \in fired' : x \in fired \/ x.node \notin Enters
    PROVE  InputsCount'
<1>1. Enters' = Enters
  BY SameGraph
<1>2. ASSUME NEW n \in Enters, NEW f, NEW i PROVE HasFired(n, f, i)' <=> HasFired(n, f, i)
  BY DEF HasFired
<1>3. ASSUME NEW c PROVE Unfired(c)' = Unfired(c)
  BY <1>1, <1>2 DEF Unfired
<1>4. \A c \in DOMAIN frames' : frames'[c].num_pending_inputs =
                                   IF c = <<>> THEN 0 ELSE Cardinality(Unfired(c)')
  BY <1>3 DEF InputsCount
<1>5. \A c \in closed' \ {<<>>} : Unfired(c)' = {}
  BY <1>3 DEF InputsCount
<1>6. \A x \in fired' : x.node \in Enters' =>
          MakeFrameName(x.frame, x.iter, graph'.enters[x.node]) \in DOMAIN frames' \union closed'
  BY <1>1 DEF InputsCount
<1> QED
  BY <1>4, <1>5, <1>6 DEF InputsCount

-----------------------------------------------------------------------------
(* A step that leaves the frames as they are.                              *)

Resembles(fs, gs, f) ==
    /\ FrameOK(gs, f) /\ RootsWait(gs)
    /\ gs.num_pending_inputs = fs.num_pending_inputs
    /\ gs.num_outstanding_iterations = fs.num_outstanding_iterations
    /\ \A i \in Nat : /\ OpsIn(gs, i) = OpsIn(fs, i) /\ SubIn(gs, i) = SubIn(fs, i)
                      /\ \A n : MayIn(gs, n, i) = MayIn(fs, n, i)
FramesStay ==
    /\ DOMAIN frames' = DOMAIN frames /\ frames' = [f \in DOMAIN frames |-> frames'[f]]
    /\ \A f \in DOMAIN frames : Resembles(frames[f], frames'[f], f)

\* The counts stay when the frames do.
LEMMA Unchanged ==
    ASSUME Typed, frames' = frames
    PROVE  FramesStay
<1>1. frames = [f \in DOMAIN frames |-> frames[f]]
  BY DEF Typed
<1>2. \A f \in DOMAIN frames : FrameOK(frames[f], f) /\ RootsWait(frames[f])
  BY TypedParts
<1> QED
  BY <1>1, <1>2 DEF FramesStay, Resembles

\* Its nodes move from place to place, or are dropped when the step has failed.
Quiet(t, r) ==
    /\ ThreadMoves(t, r) /\ FramesStay /\ closed' = closed /\ fired' = fired
    /\ status' \in BOOLEAN /\ aborted' \in BOOLEAN /\ (status' => status)
    /\ ThreadOK(r, status')
    /\ Sound' => Sound
    /\ \A M : /\ Delta(t, r, M, InFrame) <= 0 /\ Delta(t, r, M, Entering) <= 0
              /\ Sound' => Delta(t, r, M, InFrame) = 0
    /\ ~ (th[t].pc \in {"cleanup", "delete_frame", "erase_frame"})
    /\ ~ (r.pc \in {"cleanup", "delete_frame", "erase_frame"})
    /\ r.pc = "enter" => r.tagged_node = th[t].tagged_node /\ Child(t) \in DOMAIN frames

\* A step that moves nodes between the bags and its thread keeps the invariant.
LEMMA QuietKeeps ==
    ASSUME Sane, NEW t, NEW r, Quiet(t, r)
    PROVE  Sane'
<1>1. /\ GraphOK /\ Typed /\ ThreadsOK /\ DeletersOK /\ OpsCover /\ SubCover /\ EnterOnce /\ InputsCount
  BY DEF Sane
<1>2. /\ ThreadMoves(t, r) /\ graph' = graph /\ inter_threadpool' = inter_threadpool
      /\ t \in Threads /\ r \in ThreadStates /\ th' = [th EXCEPT ![t] = r] /\ th \in [Threads -> ThreadStates]
  BY <1>1, TypedParts DEF Quiet, ThreadMoves
<1>3. FramesStay /\ closed' = closed /\ fired' = fired
  BY DEF Quiet
<1>4. FramesTyped(frames')
  BY <1>1, <1>3, TypedParts DEF FramesTyped, FramesStay, Resembles
<1>5. GraphOK'
  BY <1>1, <1>2, SameGraph
<1>6. Typed'
  BY <1>1, <1>2, <1>3, <1>4, TypedParts, TypedKept DEF Quiet
<1>7. ThreadsOK'
  BY <1>1, <1>2, ThreadsKept DEF Quiet
<1>8. OpsCover'
  <2>1. ASSUME NEW f \in Paths, NEW i \in Nat
        PROVE  OpsOf(f, i)' = OpsOf(f, i) /\ OpsOf(f, i) \in Int
    <3>1. OpsOf(f, i)' = OpsOf(f, i)
      BY <1>3 DEF OpsOf, FramesStay, Resembles
    <3>2. OpsOf(f, i) \in Int
      BY <1>1, TypedFrames, OpsNumbers DEF OpsOf
    <3> QED
      BY <3>1, <3>2
  <2>2. \A M : /\ Delta(t, r, M, InFrame) <= 0
               /\ Sound' => Sound /\ Delta(t, r, M, InFrame) = 0
    BY DEF Quiet
  <2>3. ASSUME NEW f \in Paths, NEW i \in Nat
        PROVE  /\ Delta(t, r, NodesIn(f, i), InFrame) <= OpsOf(f, i)' - OpsOf(f, i)
               /\ Sound' => Sound /\ Delta(t, r, NodesIn(f, i), InFrame) = OpsOf(f, i)' - OpsOf(f, i)
    <3>1. OpsOf(f, i)' - OpsOf(f, i) = 0
      BY <2>1
    <3> QED
      BY <2>2, <3>1
  <2> QED
    BY <1>1, <1>2, <1>4, <2>3, OpsKept
<1>9. SubCover'
  <2>1. \A f, i : Kids(f, i)' = Kids(f, i) /\ Told(f, i)' = Told(f, i)
    BY <1>1, <1>2, <1>3, SameKids DEF Quiet, FramesStay
  <2>2. \A f \in Paths, i \in Nat : SubOf(f, i)' = SubOf(f, i)
    BY <1>3 DEF SubOf, FramesStay, Resembles
  <2>3. Paths' = Paths
    BY <1>2, SameGraph
  <2> QED
    BY <1>1, <2>1, <2>2, <2>3 DEF SubCover
<1>10. EnterOnce'
  <2>1. ASSUME NEW n \in Enters, NEW f \in Paths, NEW i \in Nat
        PROVE  Delta(t, r, OneNode(n, f, i), Entering) + MayOf(n, f, i)' + (IF HasFired(n, f, i)' THEN 1 ELSE 0)
                  <= MayOf(n, f, i) + (IF HasFired(n, f, i) THEN 1 ELSE 0)
    <3>1. Delta(t, r, OneNode(n, f, i), Entering) <= 0
      BY DEF Quiet
    <3>2. MayOf(n, f, i)' = MayOf(n, f, i)
      BY <1>3 DEF MayOf, FramesStay, Resembles
    <3>3. HasFired(n, f, i)' <=> HasFired(n, f, i)
      BY <1>3 DEF HasFired
    <3>4. MayOf(n, f, i) \in Int /\ Delta(t, r, OneNode(n, f, i), Entering) \in Int
      BY <1>1, <1>2, Moving DEF MayOf, MayIn
    <3> QED
      BY <3>1, <3>2, <3>3, <3>4
  <2> QED
    BY <1>1, <1>2, <1>4, <2>1, EnterKept
<1>11. InputsCount'
  BY <1>1, <1>2, <1>3, InputsSame DEF FramesStay, Resembles
<1>12. DeletersOK'
  <2>1. th'[t] = r /\ \A u \in Threads : u # t => th'[u] = th[u]
    BY <1>2
  <2>2. \A u \in Threads : u # t \/ r.pc = "enter" => Child(u)' = Child(u)
    BY <1>2, <2>1 DEF Quiet, Child, MakeFrameName, InputFrame, InputIter, Node
  <2>3. \A f \in DOMAIN frames : IsFrameDone(frames'[f]) <=> IsFrameDone(frames[f])
    BY <1>3 DEF FramesStay, Resembles, IsFrameDone
  <2>4. \A u \in Threads : th'[u].pc \in {"cleanup", "delete_frame", "erase_frame"} => u # t /\ th'[u] = th[u]
    BY <2>1 DEF Quiet
  <2>5. ASSUME NEW u \in Threads, th'[u].pc = "enter" PROVE Child(u)' \in DOMAIN frames'
    <3>1. CASE u = t
      BY <1>3, <2>1, <2>2, <2>5, <3>1 DEF Quiet, FramesStay
    <3>2. CASE u # t
      BY <1>1, <1>3, <2>1, <2>2, <2>5, <3>2 DEF DeletersOK, At, FramesStay
    <3> QED
      BY <3>1, <3>2
  <2>6. ASSUME NEW u \in Threads, th'[u].pc \in {"delete_frame", "erase_frame"}
        PROVE  /\ th'[u].frame \in DOMAIN frames' /\ IsFrameDone(frames'[th'[u].frame])
               /\ \A v \in Threads : th'[v].pc \in {"delete_frame", "erase_frame"} /\ th'[v].frame = th'[u].frame => v = u
    BY <1>1, <1>3, <2>3, <2>4, <2>6 DEF DeletersOK, Deleting, FramesStay
  <2>7. \A u \in Threads : /\ th'[u].pc = "erase_frame" => th'[u].frame \in closed'
                           /\ th'[u].pc = "cleanup" => th'[u].frame # <<>>
    BY <1>1, <1>3, <2>4 DEF DeletersOK, At
  <2> QED
    BY <2>5, <2>6, <2>7 DEF DeletersOK, Deleting, At
<1> QED
  BY <1>5, <1>6, <1>7, <1>8, <1>9, <1>10, <1>11, <1>12 DEF Sane

-----------------------------------------------------------------------------
(* The steps outside the frames.                                           *)

\* An idle thread is in order.
LEMMA IdleIs ==
    /\ Idle \in ThreadStates /\ \A ok : ThreadOK(Idle, ok)
    /\ Idle.pc = "idle" /\ Idle.inline_ready = <<>> /\ Idle.failed = FALSE /\ Idle.callback = FALSE
    /\ Idle.completed = FALSE
<1>1. <<>> \in Seq(Tagged) /\ <<>> \in Paths
  BY PathRoot
<1>2. Idle \in ThreadStates
  BY <1>1 DEF Idle, ThreadStates, Places
<1> QED
  BY <1>2 DEF Idle, ThreadOK, Counted

\* What a thread has, by where it is.
LEMMA HasAt ==
    ASSUME NEW r \in ThreadStates, NEW M, NEW places \in {InFrame, Entering}
    PROVE  /\ Among(r.inline_ready, M) \in Nat /\ Among(r.ready, M) \in Nat /\ IfIn(r.tagged_node, M) \in Nat
           /\ r.pc \in {"idle", "loop", "schedule_finish", "finish"} =>
                 Has(r, M, places) = Among(r.inline_ready, M)
           /\ r.pc \in Entering => Has(r, M, places) = Among(r.inline_ready, M) + IfIn(r.tagged_node, M)
           /\ r.pc \in {"node_done", "abort", "count", "schedule_ready"} =>
                 Has(r, M, places) = Among(r.inline_ready, M) + (IF r.failed THEN 0 ELSE Among(r.ready, M))
<1>1. r.inline_ready \in Seq(Tagged) /\ r.ready \in Seq(Tagged) /\ r.failed \in BOOLEAN
  BY DEF ThreadStates
<1>2. Among(r.inline_ready, M) \in Nat /\ Among(r.ready, M) \in Nat /\ IfIn(r.tagged_node, M) \in Nat
  BY <1>1, AmongIs DEF IfIn
<1>3. Among(<<>>, M) = 0
  BY AmongNothing
<1>4. ASSUME r.pc \in {"idle", "loop", "schedule_finish", "finish"}
      PROVE  Has(r, M, places) = Among(r.inline_ready, M)
  <2>1. ReadyOf(r) = <<>> /\ r.pc \notin places
    BY <1>4 DEF ReadyOf, Counted, InFrame, Entering
  <2> QED
    BY <1>2, <1>3, <2>1 DEF Has
<1>5. ASSUME r.pc \in Entering
      PROVE  Has(r, M, places) = Among(r.inline_ready, M) + IfIn(r.tagged_node, M)
  <2>1. ReadyOf(r) = <<>> /\ r.pc \in places
    BY <1>5 DEF ReadyOf, InFrame, Entering
  <2> QED
    BY <1>2, <1>3, <2>1 DEF Has, IfIn
<1>6. ASSUME r.pc \in {"node_done", "abort", "count", "schedule_ready"}
      PROVE  Has(r, M, places) = Among(r.inline_ready, M) + (IF r.failed THEN 0 ELSE Among(r.ready, M))
  <2>1. r.pc \notin places
    BY <1>6 DEF InFrame, Entering
  <2>2. ReadyOf(r) = IF r.failed THEN <<>> ELSE r.ready
    BY <1>1, <1>6 DEF ReadyOf, Counted
  <2> QED
    BY <1>1, <1>2, <1>3, <2>1, <2>2 DEF Has
<1> QED
  BY <1>2, <1>4, <1>5, <1>6

\* The queues stay as they are.
LEMMA DeltaSame ==
    ASSUME Typed, NEW t, NEW r, ThreadMoves(t, r), pool' = pool, asyncs' = asyncs, NEW M, NEW places
    PROVE  /\ Delta(t, r, M, places) = Has(r, M, places) - Has(th[t], M, places)
           /\ Has(r, M, places) \in Nat /\ Has(th[t], M, places) \in Nat
<1>1. Copies(pool, M) \in Nat /\ Copies(asyncs, M) \in Nat
  BY TypedParts, CopiesIs
<1>2. Has(r, M, places) \in Nat /\ Has(th[t], M, places) \in Nat
  BY TypedParts, HasIs DEF ThreadMoves
<1> QED
  BY <1>1, <1>2 DEF Delta

\* A step that fails nothing was taken in a step without failures.
LEMMA SoundKept ==
    ASSUME Typed, NEW t, NEW r, ThreadMoves(t, r), status' => status,
           th[t].failed => r.failed \/ ~ status'
    PROVE  Sound' => Sound
<1>1. th \in [Threads -> ThreadStates] /\ t \in Threads /\ th' = [th EXCEPT ![t] = r]
  BY TypedParts DEF ThreadMoves
<1>2. th'[t] = r /\ \A u \in Threads : u # t => th'[u] = th[u]
  BY <1>1
<1> QED
  BY <1>1, <1>2 DEF Sound

\* What the invariant says, part by part.
LEMMA SaneParts ==
    ASSUME Sane, NEW t \in Threads
    PROVE  /\ GraphOK /\ Typed /\ ThreadsOK /\ DeletersOK /\ OpsCover /\ SubCover /\ EnterOnce /\ InputsCount
           /\ th[t] \in ThreadStates /\ ThreadOK(th[t], status) /\ BagOver(pool) /\ BagOver(asyncs)
           /\ th \in [Threads -> ThreadStates] /\ status \in BOOLEAN /\ aborted \in BOOLEAN
           /\ th[t].inline_ready \in Seq(Tagged) /\ th[t].ready \in Seq(Tagged)
           /\ th[t].failed \in BOOLEAN /\ th[t].callback \in BOOLEAN /\ th[t].completed \in BOOLEAN
<1>1. /\ GraphOK /\ Typed /\ ThreadsOK /\ DeletersOK /\ OpsCover /\ SubCover /\ EnterOnce /\ InputsCount
  BY DEF Sane
<1>2. th[t] \in ThreadStates
  BY <1>1, TypedParts
<1> QED
  BY <1>1, <1>2, TypedParts DEF ThreadsOK, ThreadStates, Typed

\* Take keeps the invariant.
LEMMA TakeKeeps ==
    ASSUME Sane, NEW t \in Threads, Take(t)
    PROVE  Sane'
<1>0. /\ GraphOK /\ Typed /\ ThreadsOK /\ th[t] \in ThreadStates /\ ThreadOK(th[t], status)
      /\ BagOver(pool) /\ BagOver(asyncs) /\ status \in BOOLEAN /\ aborted \in BOOLEAN
  BY SaneParts
<1>1. PICK x \in BagToSet(pool) :
         /\ pool' = pool (-) SetToBag({x})
         /\ th' = [th EXCEPT ![t] = [Idle EXCEPT !.pc = "loop", !.inline_ready = <<x>>]]
  BY Zenon DEF Take
<1>2. x \in DOMAIN pool /\ x \in Tagged
  BY <1>0 DEF BagToSet, BagOver
<1> DEFINE r == [Idle EXCEPT !.pc = "loop", !.inline_ready = <<x>>]
<1>3. BagOver(pool') /\ \A M : Copies(pool, M) = Copies(pool', M) + IfIn(x, M)
  BY <1>0, <1>1, <1>2, BagTakes
<1>4. th[t] = Idle
  BY <1>0 DEF Take, At, ThreadOK
<1>5. /\ r \in ThreadStates /\ r.pc = "loop" /\ r.inline_ready = <<x>> /\ r.failed = FALSE /\ r.callback = FALSE
  <2>1. <<x>> \in Seq(Tagged)
    BY <1>2
  <2> QED
    BY <2>1, IdleIs DEF ThreadStates, Idle, Places
<1> HIDE DEF r
<1>6. ThreadMoves(t, r)
  BY <1>0, <1>1, <1>3, <1>5 DEF ThreadMoves, Take, run, r
<1>7. FramesStay
  BY <1>0, Unchanged DEF Take
<1>8. ASSUME NEW M, NEW places \in {InFrame, Entering} PROVE Delta(t, r, M, places) = 0
  <2>1. Has(r, M, places) = IfIn(x, M)
    BY <1>2, <1>5, HasAt, AmongOne
  <2>2. Has(th[t], M, places) = 0
    BY <1>4, IdleIs, HasAt, AmongNothing
  <2>3. Copies(pool, M) \in Nat /\ Copies(pool', M) \in Nat /\ Copies(asyncs, M) \in Nat /\ IfIn(x, M) \in Nat
    BY <1>0, <1>3, CopiesIs DEF IfIn
  <2>4. asyncs' = asyncs
    BY DEF Take
  <2>5. Copies(pool, M) = Copies(pool', M) + IfIn(x, M) /\ Copies(asyncs', M) = Copies(asyncs, M)
    BY <1>3, <2>4
  <2> QED
    BY <2>1, <2>2, <2>3, <2>5 DEF Delta
<1>9. status' = status /\ aborted' = aborted /\ fired' = fired /\ closed' = closed
  BY DEF Take, history
<1>10. ThreadOK(r, status')
  BY <1>5 DEF ThreadOK, Counted
<1>11. Sound' => Sound
  BY <1>0, <1>4, <1>6, <1>9, IdleIs, SoundKept
<1>12. Quiet(t, r)
  <2>1. \A M : Delta(t, r, M, InFrame) = 0 /\ Delta(t, r, M, Entering) = 0
    BY <1>8
  <2> QED
    BY <1>0, <1>4, <1>5, <1>6, <1>7, <1>9, <1>10, <1>11, <2>1, IdleIs DEF Quiet
<1> QED
  BY <1>12, QuietKeeps

\* Leave keeps the invariant.
LEMMA LeaveKeeps ==
    ASSUME Sane, NEW t \in Threads, Leave(t)
    PROVE  Sane'
<1>0. /\ GraphOK /\ Typed /\ ThreadsOK /\ th[t] \in ThreadStates /\ ThreadOK(th[t], status)
      /\ BagOver(pool) /\ BagOver(asyncs) /\ status \in BOOLEAN /\ aborted \in BOOLEAN
  BY SaneParts
<1> DEFINE r == IF th[t].completed THEN [th[t] EXCEPT !.pc = "schedule_finish"] ELSE Idle
<1>1. th' = [th EXCEPT ![t] = r] /\ th[t].pc = "loop" /\ th[t].inline_ready = <<>>
  BY DEF Leave, At
<1>2. /\ r \in ThreadStates /\ r.pc \in {"schedule_finish", "idle"} /\ r.inline_ready = <<>>
      /\ ThreadOK(r, status) /\ (r.failed = th[t].failed \/ r.failed = FALSE)
  <2>1. CASE th[t].completed
    <3>1. r = [th[t] EXCEPT !.pc = "schedule_finish"]
      BY <2>1
    <3>2. /\ r \in ThreadStates /\ r.pc = "schedule_finish" /\ r.inline_ready = <<>> /\ r.failed = th[t].failed
      BY <1>0, <1>1, <3>1 DEF ThreadStates, Places
    <3>3. th[t].failed => ~ status
      BY <1>0, <1>1 DEF ThreadOK
    <3> HIDE DEF r
    <3>4. ThreadOK(r, status)
      BY <3>2, <3>3 DEF ThreadOK, Counted
    <3> QED
      BY <3>2, <3>4
  <2>2. CASE ~ th[t].completed
    <3>1. r = Idle
      BY <2>2
    <3> HIDE DEF r
    <3> QED
      BY <3>1, IdleIs
  <2> QED
    BY <2>1, <2>2
<1> HIDE DEF r
<1>3. /\ frames' = frames /\ pool' = pool /\ asyncs' = asyncs /\ graph' = graph
      /\ inter_threadpool' = inter_threadpool
      /\ status' = status /\ aborted' = aborted /\ fired' = fired /\ closed' = closed
  BY DEF Leave, run, state, history
<1>4. ThreadMoves(t, r)
  BY <1>0, <1>1, <1>2, <1>3 DEF ThreadMoves
<1>5. FramesStay
  BY <1>0, <1>3, Unchanged
<1>6. ASSUME NEW M, NEW places \in {InFrame, Entering} PROVE Delta(t, r, M, places) = 0
  <2>1. Has(r, M, places) = 0 /\ Has(th[t], M, places) = 0
    BY <1>0, <1>1, <1>2, HasAt, AmongNothing
  <2> QED
    BY <1>0, <1>3, <1>4, <2>1, DeltaSame
<1>7. Sound' => Sound
  <2>1. th[t].failed => ~ status'
    BY <1>0, <1>1, <1>3 DEF ThreadOK
  <2> QED
    BY <1>0, <1>3, <1>4, <2>1, SoundKept
<1>8. Quiet(t, r)
  <2>1. \A M : Delta(t, r, M, InFrame) = 0 /\ Delta(t, r, M, Entering) = 0
    BY <1>6
  <2> QED
    BY <1>0, <1>1, <1>2, <1>3, <1>4, <1>5, <1>7, <2>1 DEF Quiet
<1> QED
  BY <1>8, QuietKeeps

\* The values of a node are taken out of its iteration.
LEMMA ClearStays ==
    ASSUME GraphOK, Typed, NEW x \in Tagged, x.frame \in DOMAIN frames, Living(frames[x.frame], x.iter),
           frames' = ClearInputs(x)
    PROVE  FramesStay
<1> DEFINE f == x.frame
           i == x.iter
           fs == frames[f]
           is == GetIteration(fs, i)
           js == [is EXCEPT !.input_tensors = {e \in is.input_tensors : e.node # x.node}]
           gs == SetIteration(fs, i, js)
<1>1. f \in Paths /\ i \in Nat
  BY TaggedIs
<1>2. FrameOK(fs, f) /\ RootsWait(fs) /\ fs \in FrameStates(f)
  BY TypedParts DEF FrameOK
<1>3. is \in Iterations(f)
  BY <1>1, <1>2, GetIs
<1>4. /\ js \in Iterations(f) /\ js.iter = is.iter /\ js.pending = is.pending
      /\ js.outstanding_ops = is.outstanding_ops
      /\ js.outstanding_frame_count = is.outstanding_frame_count
  BY <1>3 DEF Iterations
<1>5. frames' = [frames EXCEPT ![f] = gs]
  BY DEF ClearInputs
<1>6. is.iter = i
  BY DEF Living
<1> HIDE DEF js
<1>7. /\ FrameOK(gs, f) /\ Alike(fs, gs) /\ GetIteration(gs, i) = js
      /\ \A j \in Nat : j # i /\ Living(fs, j) => GetIteration(gs, j) = GetIteration(fs, j)
  BY <1>1, <1>2, <1>4, <1>6, InPlace
<1> HIDE DEF gs, is
<1>8. Resembles(fs, gs, f)
  <2>1. RootsWait(gs)
    BY <1>2, <1>7 DEF RootsWait, Alike
  <2>2. ASSUME NEW j \in Nat
        PROVE  /\ OpsIn(gs, j) = OpsIn(fs, j) /\ SubIn(gs, j) = SubIn(fs, j)
               /\ \A n : MayIn(gs, n, j) = MayIn(fs, n, j)
    <3>1. Living(gs, j) <=> Living(fs, j)
      BY <1>7 DEF Alike
    <3>2. CASE j = i
      BY <1>4, <1>7, <3>1, <3>2 DEF OpsIn, SubIn, MayIn, is, Alike
    <3>3. CASE j # i
      BY <1>7, <3>1, <3>3 DEF OpsIn, SubIn, MayIn, Alike
    <3> QED
      BY <3>2, <3>3
  <2> QED
    BY <1>7, <2>1, <2>2 DEF Resembles, Alike
<1> HIDE DEF fs
<1>9. frames = [g \in DOMAIN frames |-> frames[g]]
  BY DEF Typed
<1>10. /\ DOMAIN frames' = DOMAIN frames /\ frames'[f] = gs
       /\ \A g \in DOMAIN frames : g # f => frames'[g] = frames[g]
       /\ frames' = [g \in DOMAIN frames |-> frames'[g]]
  BY <1>5
<1>11. ASSUME NEW g \in DOMAIN frames PROVE Resembles(frames[g], frames'[g], g)
  <2>1. CASE g = f
    BY <1>8, <1>10, <2>1 DEF fs
  <2>2. CASE g # f
    BY <1>10, <2>2, TypedParts DEF Resembles
  <2> QED
    BY <2>1, <2>2
<1> QED
  BY <1>10, <1>11 DEF FramesStay

\* Process keeps the invariant.
LEMMA ProcessKeeps ==
    ASSUME Sane, NEW t \in Threads, Process(t)
    PROVE  Sane'
<1>0. /\ GraphOK /\ Typed /\ ThreadsOK /\ OpsCover /\ th[t] \in ThreadStates /\ ThreadOK(th[t], status)
      /\ BagOver(pool) /\ BagOver(asyncs) /\ status \in BOOLEAN /\ aborted \in BOOLEAN
      /\ th[t].inline_ready \in Seq(Tagged) /\ th[t].failed \in BOOLEAN
  BY SaneParts
<1> DEFINE x == Head(th[t].inline_ready)
           skipped == x.dead /\ Kind(x.node) # "transfer"
           launched == x.node \in graph.async /\ ~ skipped
           failed == IF skipped THEN th[t].failed ELSE x.node \in graph.fails
           s == Tail(th[t].inline_ready)
<1>1. /\ th[t].pc = "loop" /\ th[t].inline_ready # <<>> /\ graph' = graph
      /\ inter_threadpool' = inter_threadpool
      /\ pool' = pool /\ status' = status /\ aborted' = aborted /\ fired' = fired /\ closed' = closed
  BY DEF Process, At, run, history
<1>2. /\ x \in Tagged /\ s \in Seq(Tagged)
      /\ \A M : Among(th[t].inline_ready, M) = IfIn(x, M) + Among(s, M)
  BY <1>0, <1>1, AmongTail
<1>3. x.frame \in DOMAIN frames /\ Living(frames[x.frame], x.iter)
  <2>1. 1 \in DOMAIN th[t].inline_ready /\ x = th[t].inline_ready[1]
    BY <1>0, <1>1
  <2> HIDE DEF x
  <2> QED
    BY <1>0, <2>1, ReadyIsThere
<1>4. failed \in BOOLEAN /\ ~ th[t].callback
  <2>1. failed \in BOOLEAN
    <3>1. CASE skipped
      <4>1. failed = th[t].failed
        BY <3>1
      <4> QED
        BY <1>0, <4>1
    <3>2. CASE ~ skipped
      <4>1. failed = (x.node \in graph.fails)
        BY <3>2
      <4> HIDE DEF failed, x
      <4> QED
        BY <4>1
    <3> QED
      BY <3>1, <3>2
  <2>2. ~ th[t].callback
    BY <1>0, <1>1 DEF ThreadOK
  <2> QED
    BY <2>1, <2>2
<1>5. ASSUME NEW M, NEW places \in {InFrame, Entering}
      PROVE  /\ Has(th[t], M, places) = IfIn(x, M) + Among(s, M)
             /\ IfIn(x, M) \in Nat /\ Among(s, M) \in Nat
  <2> HIDE DEF x, s
  <2>1. Has(th[t], M, places) = Among(th[t].inline_ready, M)
    BY <1>0, <1>1, HasAt
  <2>2. Among(s, M) \in Nat
    BY <1>2, AmongIs
  <2> QED
    BY <1>2, <2>1, <2>2 DEF IfIn
<1>6. CASE launched
  <2> DEFINE r == [th[t] EXCEPT !.inline_ready = s, !.failed = FALSE]
  <2>1. asyncs' = asyncs (+) SetToBag({x}) /\ frames' = frames
    BY <1>6 DEF Process
  <2>2. th' = [th EXCEPT ![t] = r]
    BY <1>6 DEF Process
  <2>3. /\ r \in ThreadStates /\ r.pc = "loop" /\ r.inline_ready = s /\ r.failed = FALSE /\ ~ r.callback
    BY <1>0, <1>1, <1>2, <1>4 DEF ThreadStates
  <2> HIDE DEF r, x, s
  <2>4. BagOver(asyncs') /\ \A M : Copies(asyncs', M) = Copies(asyncs, M) + IfIn(x, M)
    BY <1>0, <1>2, <2>1, BagAdds
  <2>5. ThreadMoves(t, r)
    BY <1>0, <1>1, <2>2, <2>3, <2>4 DEF ThreadMoves
  <2>6. ASSUME NEW M, NEW places \in {InFrame, Entering} PROVE Delta(t, r, M, places) = 0
    <3>1. Has(r, M, places) = Among(s, M)
      BY <2>3, HasAt
    <3>2. Copies(pool, M) \in Nat /\ Copies(asyncs, M) \in Nat
      BY <1>0, CopiesIs
    <3>3. Copies(asyncs', M) = Copies(asyncs, M) + IfIn(x, M) /\ Copies(pool', M) = Copies(pool, M)
      BY <1>1, <2>4
    <3> QED
      BY <1>5, <3>1, <3>2, <3>3 DEF Delta
  <2>7. FramesStay
    BY <1>0, <2>1, Unchanged
  <2>8. ThreadOK(r, status')
    BY <2>3 DEF ThreadOK, Counted
  <2>9. Sound' => Sound
    <3>1. th[t].failed => ~ status'
      BY <1>0, <1>1 DEF ThreadOK
    <3> QED
      BY <1>0, <1>1, <2>5, <3>1, SoundKept
  <2>10. Quiet(t, r)
    <3>1. \A M : Delta(t, r, M, InFrame) = 0 /\ Delta(t, r, M, Entering) = 0
      BY <2>6
    <3> QED
      BY <1>0, <1>1, <2>3, <2>5, <2>7, <2>8, <2>9, <3>1 DEF Quiet
  <2> QED
    BY <2>10, QuietKeeps
<1>7. CASE ~ launched
  <2> DEFINE pc == IF failed THEN "node_done" ELSE "propagate"
             r == [th[t] EXCEPT !.inline_ready = s, !.tagged_node = x, !.failed = failed, !.pc = pc]
  <2>1. asyncs' = asyncs /\ frames' = ClearInputs(x)
    BY <1>7 DEF Process
  <2>2. th' = [th EXCEPT ![t] = r]
    BY <1>7 DEF Process
  <2> HIDE DEF x, s, failed
  <2>3. /\ r \in ThreadStates /\ r.pc = pc /\ r.inline_ready = s /\ r.failed = failed /\ ~ r.callback
        /\ r.tagged_node = x
    BY <1>0, <1>1, <1>2, <1>4 DEF ThreadStates, Places, Counted
  <2>4. pc = "node_done" \/ pc = "propagate"
    OBVIOUS
  <2>5. failed <=> pc = "node_done"
    BY <1>4
  <2> HIDE DEF r, pc
  <2>6. ThreadMoves(t, r)
    BY <1>0, <1>1, <2>1, <2>2, <2>3 DEF ThreadMoves
  <2>7. ASSUME NEW M, NEW places \in {InFrame, Entering}
        PROVE  Delta(t, r, M, places) = IF failed THEN 0 - IfIn(x, M) ELSE 0
    <3>1. Delta(t, r, M, places) = Has(r, M, places) - Has(th[t], M, places)
      BY <1>0, <1>1, <2>1, <2>6, DeltaSame
    <3>2. CASE failed
      <4>1. Has(r, M, places) = Among(s, M)
        <5>1. Has(r, M, places) = Among(s, M) + 0
          BY <2>3, <2>5, <3>2, HasAt
        <5> QED
          BY <1>5, <5>1
      <4> QED
        BY <1>5, <3>1, <3>2, <4>1
    <3>3. CASE ~ failed
      <4>1. Has(r, M, places) = Among(s, M) + IfIn(x, M)
        BY <2>3, <2>4, <2>5, <3>3, HasAt DEF Entering
      <4> QED
        BY <1>5, <3>1, <3>3, <4>1
    <3> QED
      BY <3>2, <3>3
  <2>8. FramesStay
    BY <1>0, <1>2, <1>3, <2>1, ClearStays
  <2>9. ThreadOK(r, status')
    BY <1>2, <2>3, <2>4, <2>5 DEF ThreadOK, Counted
  <2>10. Sound' => Sound
    <3>1. th[t].failed => ~ status'
      BY <1>0, <1>1 DEF ThreadOK
    <3> QED
      BY <1>0, <1>1, <2>6, <3>1, SoundKept
  <2>11. Sound' => ~ failed
    <3>1. th'[t] = r
      BY <1>0, <2>2, TypedParts
    <3> QED
      BY <2>3, <3>1 DEF Sound
  <2>12. Quiet(t, r)
    <3>1. ASSUME NEW M
          PROVE  /\ Delta(t, r, M, InFrame) <= 0 /\ Delta(t, r, M, Entering) <= 0
                 /\ Sound' => Delta(t, r, M, InFrame) = 0
      <4>1. /\ Delta(t, r, M, InFrame) = IF failed THEN 0 - IfIn(x, M) ELSE 0
            /\ Delta(t, r, M, Entering) = IF failed THEN 0 - IfIn(x, M) ELSE 0
        BY <2>7
      <4>2. IfIn(x, M) \in Nat
        BY DEF IfIn
      <4> QED
        BY <2>11, <4>1, <4>2
    <3> QED
      BY <1>0, <1>1, <2>3, <2>4, <2>6, <2>8, <2>9, <2>10, <3>1 DEF Quiet
  <2> QED
    BY <2>12, QuietKeeps
<1> QED
  BY <1>6, <1>7

\* A thread goes on, and has what it had.
LEMMA StaysKeep ==
    ASSUME Sane, NEW t \in Threads, NEW r \in ThreadStates, th' = [th EXCEPT ![t] = r],
           graph' = graph, inter_threadpool' = inter_threadpool, frames' = frames,
           pool' = pool, asyncs' = asyncs, fired' = fired, closed' = closed,
           status' \in BOOLEAN, aborted' \in BOOLEAN, status' => status,
           ThreadOK(r, status'), th[t].failed => r.failed \/ ~ status',
           ~ (th[t].pc \in {"cleanup", "delete_frame", "erase_frame"}),
           ~ (r.pc \in {"cleanup", "delete_frame", "erase_frame"}),
           r.pc = "enter" => r.tagged_node = th[t].tagged_node /\ Child(t) \in DOMAIN frames,
           \A M : \A places \in {InFrame, Entering} : Has(r, M, places) = Has(th[t], M, places)
    PROVE  Sane'
<1>0. Typed /\ BagOver(pool) /\ BagOver(asyncs)
  BY SaneParts
<1>1. ThreadMoves(t, r)
  BY <1>0 DEF ThreadMoves
<1>2. FramesStay
  BY <1>0, Unchanged
<1>3. Sound' => Sound
  BY <1>0, <1>1, SoundKept
<1>4. ASSUME NEW M, NEW places \in {InFrame, Entering} PROVE Delta(t, r, M, places) = 0
  <2>1. /\ Delta(t, r, M, places) = Has(r, M, places) - Has(th[t], M, places)
        /\ Has(r, M, places) \in Nat /\ Has(th[t], M, places) \in Nat
    BY <1>0, <1>1, DeltaSame
  <2>2. Has(r, M, places) = Has(th[t], M, places)
    OBVIOUS
  <2> QED
    BY <2>1, <2>2
<1>5. Quiet(t, r)
  <2>1. \A M : Delta(t, r, M, InFrame) = 0 /\ Delta(t, r, M, Entering) = 0
    BY <1>4
  <2> QED
    BY <1>1, <1>2, <1>3, <2>1 DEF Quiet
<1> QED
  BY <1>5, QuietKeeps

\* FindChildFrame keeps the invariant.
LEMMA FindChildFrameKeeps ==
    ASSUME Sane, NEW t \in Threads, FindChildFrame(t)
    PROVE  Sane'
<1>0. /\ GraphOK /\ Typed /\ th[t] \in ThreadStates /\ ThreadOK(th[t], status)
      /\ status \in BOOLEAN /\ aborted \in BOOLEAN
  BY SaneParts
<1> DEFINE pc == IF Child(t) \in DOMAIN frames THEN "enter" ELSE "create"
           r == [th[t] EXCEPT !.pc = pc]
<1>1. th[t].pc = "propagate" /\ IsEnter(Node(t)) /\ th' = [th EXCEPT ![t] = r]
  BY <1>0, TypedParts DEF FindChildFrame, At, Goto
<1>2. /\ r \in ThreadStates /\ r.pc = pc /\ r.inline_ready = th[t].inline_ready
      /\ r.tagged_node = th[t].tagged_node /\ r.failed = th[t].failed /\ r.callback = th[t].callback
  BY <1>0 DEF ThreadStates, Places, Counted
<1>3. /\ pc \in {"enter", "create"} /\ (pc = "enter" => Child(t) \in DOMAIN frames)
  OBVIOUS
<1> HIDE DEF r, pc
<1>4. th[t].tagged_node \in Tagged /\ ~ th[t].failed /\ th[t].tagged_node.node \in Enters
  <2>1. th[t].tagged_node \in Tagged /\ ~ th[t].failed
    BY <1>0, <1>1 DEF ThreadOK, Counted
  <2> QED
    BY <1>0, <1>1, <2>1, TaggedIs, GraphFacts DEF Node
<1>5. ThreadOK(r, status)
  <2>1. r.callback => r.inline_ready = <<>>
    BY <1>0, <1>2 DEF ThreadOK
  <2> QED
    BY <1>2, <1>3, <1>4, <2>1 DEF ThreadOK, Counted
<1>6. \A M : \A places \in {InFrame, Entering} : Has(r, M, places) = Has(th[t], M, places)
  <2> TAKE M
  <2> TAKE places \in {InFrame, Entering}
  <2>1. Has(r, M, places) = Among(r.inline_ready, M) + IfIn(r.tagged_node, M)
    BY <1>2, <1>3, HasAt DEF Entering
  <2>2. Has(th[t], M, places) = Among(th[t].inline_ready, M) + IfIn(th[t].tagged_node, M)
    BY <1>0, <1>1, HasAt DEF Entering
  <2> QED
    BY <1>2, <2>1, <2>2
<1>7. /\ frames' = frames /\ pool' = pool /\ asyncs' = asyncs /\ graph' = graph
      /\ inter_threadpool' = inter_threadpool
      /\ status' = status /\ aborted' = aborted /\ fired' = fired /\ closed' = closed
  BY DEF FindChildFrame, run, state, history
<1> QED
  BY <1>0, <1>1, <1>2, <1>3, <1>4, <1>5, <1>6, <1>7, StaysKeep

\* NodeFailed keeps the invariant: from here on the counts of the iterations only bound.
LEMMA NodeFailedKeeps ==
    ASSUME Sane, NEW t \in Threads, NodeFailed(t)
    PROVE  Sane'
<1>0. /\ GraphOK /\ Typed /\ th[t] \in ThreadStates /\ ThreadOK(th[t], status)
      /\ status \in BOOLEAN /\ aborted \in BOOLEAN
  BY SaneParts
<1> DEFINE pc == IF status THEN "abort" ELSE "count"
           r == [th[t] EXCEPT !.pc = pc]
<1>1. th[t].pc = "node_done" /\ th[t].failed /\ th' = [th EXCEPT ![t] = r] /\ status' = FALSE
  BY <1>0, TypedParts DEF NodeFailed, At, Goto
<1>2. /\ r \in ThreadStates /\ r.pc = pc /\ r.inline_ready = th[t].inline_ready
      /\ r.tagged_node = th[t].tagged_node /\ r.failed = th[t].failed /\ r.callback = th[t].callback
  BY <1>0 DEF ThreadStates, Places, Counted
<1>3. pc \in {"abort", "count"}
  OBVIOUS
<1> HIDE DEF r, pc
<1>4. th[t].tagged_node \in Tagged /\ (th[t].callback => th[t].inline_ready = <<>>)
  BY <1>0, <1>1 DEF ThreadOK, Counted
<1>5. ThreadOK(r, status')
  BY <1>1, <1>2, <1>3, <1>4 DEF ThreadOK, Counted
<1>6. \A M : \A places \in {InFrame, Entering} : Has(r, M, places) = Has(th[t], M, places)
  <2> TAKE M
  <2> TAKE places \in {InFrame, Entering}
  <2>0. r.pc \in {"node_done", "abort", "count", "schedule_ready"} /\ r.failed
    BY <1>1, <1>2, <1>3
  <2>1. Has(r, M, places) = Among(r.inline_ready, M) + 0
    BY <1>2, <2>0, HasAt
  <2>2. Has(th[t], M, places) = Among(th[t].inline_ready, M) + 0
    BY <1>0, <1>1, HasAt
  <2> QED
    BY <1>2, <2>1, <2>2
<1>7. /\ frames' = frames /\ pool' = pool /\ asyncs' = asyncs /\ graph' = graph
      /\ inter_threadpool' = inter_threadpool /\ aborted' = aborted /\ fired' = fired /\ closed' = closed
  BY DEF NodeFailed, run, history
<1> QED
  BY <1>0, <1>1, <1>2, <1>3, <1>5, <1>6, <1>7, StaysKeep

\* StartAbort keeps the invariant.
LEMMA StartAbortKeeps ==
    ASSUME Sane, NEW t \in Threads, StartAbort(t)
    PROVE  Sane'
<1>0. /\ GraphOK /\ Typed /\ th[t] \in ThreadStates /\ ThreadOK(th[t], status)
      /\ status \in BOOLEAN /\ aborted \in BOOLEAN
  BY SaneParts
<1> DEFINE r == [th[t] EXCEPT !.pc = "count"]
<1>1. th[t].pc = "abort" /\ th' = [th EXCEPT ![t] = r]
  BY <1>0, TypedParts DEF StartAbort, At, Goto
<1>2. /\ r \in ThreadStates /\ r.pc = "count" /\ r.inline_ready = th[t].inline_ready /\ r.ready = th[t].ready
      /\ r.tagged_node = th[t].tagged_node /\ r.failed = th[t].failed /\ r.callback = th[t].callback
  BY <1>0 DEF ThreadStates, Places, Counted
<1> HIDE DEF r
<1>3. /\ th[t].tagged_node \in Tagged /\ (th[t].callback => th[t].inline_ready = <<>>)
      /\ th[t].failed => ~ status
  BY <1>0, <1>1 DEF ThreadOK, Counted
<1>4. ThreadOK(r, status)
  BY <1>1, <1>2, <1>3 DEF ThreadOK, Counted
<1>5. \A M : \A places \in {InFrame, Entering} : Has(r, M, places) = Has(th[t], M, places)
  <2> TAKE M
  <2> TAKE places \in {InFrame, Entering}
  <2>1. Has(r, M, places) = Among(r.inline_ready, M) + (IF r.failed THEN 0 ELSE Among(r.ready, M))
    BY <1>2, HasAt
  <2>2. Has(th[t], M, places) = Among(th[t].inline_ready, M) + (IF th[t].failed THEN 0 ELSE Among(th[t].ready, M))
    BY <1>0, <1>1, HasAt
  <2> QED
    BY <1>2, <2>1, <2>2
<1>6. /\ frames' = frames /\ pool' = pool /\ asyncs' = asyncs /\ graph' = graph /\ status' = status
      /\ inter_threadpool' = inter_threadpool /\ aborted' = TRUE /\ fired' = fired /\ closed' = closed
  BY DEF StartAbort, run, history
<1> QED
  BY <1>0, <1>1, <1>2, <1>4, <1>5, <1>6, StaysKeep

\* A thread that goes on after its node has what it had ready.
LEMMA ResumeIs ==
    ASSUME NEW r \in ThreadStates
    PROVE  /\ Resume(r) \in ThreadStates
           /\ ~ r.callback => /\ Resume(r).pc = "loop" /\ Resume(r).inline_ready = r.inline_ready
                              /\ Resume(r).failed = r.failed /\ ~ Resume(r).callback
                              /\ Resume(r).completed = r.completed
           /\ r.callback => /\ Resume(r).inline_ready = <<>> /\ ~ Resume(r).failed
                            /\ r.completed => Resume(r).pc = "schedule_finish"
                            /\ ~ r.completed => Resume(r) = Idle
                            /\ ~ Resume(r).completed
<1>1. CASE ~ r.callback
  <2>1. Resume(r) = [r EXCEPT !.pc = "loop", !.tagged_node = NoNode, !.frame = <<>>]
    BY <1>1 DEF Resume
  <2>2. <<>> \in Paths
    BY PathRoot
  <2> QED
    BY <1>1, <2>1, <2>2 DEF ThreadStates, Places
<1>2. CASE r.callback /\ r.completed
  <2>1. Resume(r) = [Idle EXCEPT !.pc = "schedule_finish"]
    BY <1>2 DEF Resume
  <2> QED
    BY <1>2, <2>1, IdleIs DEF ThreadStates, Places
<1>3. CASE r.callback /\ ~ r.completed
  <2>1. Resume(r) = Idle
    BY <1>3 DEF Resume
  <2> QED
    BY <1>3, <2>1, IdleIs
<1> QED
  BY <1>1, <1>2, <1>3

\* CountNode keeps the invariant: what was ready after a failed node is lost to the frames.
LEMMA CountNodeKeeps ==
    ASSUME Sane, NEW t \in Threads, CountNode(t)
    PROVE  Sane'
<1>0. /\ GraphOK /\ Typed /\ th[t] \in ThreadStates /\ ThreadOK(th[t], status)
      /\ status \in BOOLEAN /\ aborted \in BOOLEAN /\ th[t].failed \in BOOLEAN /\ th[t].callback \in BOOLEAN
  BY SaneParts
<1> DEFINE r0 == [th[t] EXCEPT !.completed = Completed(t)]
           r == IF th[t].failed THEN Resume(r0) ELSE [r0 EXCEPT !.pc = "schedule_ready"]
<1>1. /\ th[t].pc \in {"count", "node_done"} /\ (th[t].pc = "node_done" => ~ th[t].failed)
      /\ th' = [th EXCEPT ![t] = r]
  BY DEF CountNode, At
<1>2. Completed(t) \in BOOLEAN
  BY DEF Completed
<1>3. /\ r0 \in ThreadStates /\ r0.inline_ready = th[t].inline_ready /\ r0.ready = th[t].ready
      /\ r0.tagged_node = th[t].tagged_node /\ r0.failed = th[t].failed /\ r0.callback = th[t].callback
  BY <1>0, <1>2 DEF ThreadStates
<1>4. /\ th[t].tagged_node \in Tagged /\ (th[t].callback => th[t].inline_ready = <<>>)
      /\ th[t].failed => ~ status
  BY <1>0, <1>1 DEF ThreadOK, Counted
<1> HIDE DEF r0
<1>5. /\ frames' = frames /\ pool' = pool /\ asyncs' = asyncs /\ graph' = graph /\ status' = status
      /\ inter_threadpool' = inter_threadpool /\ aborted' = aborted /\ fired' = fired /\ closed' = closed
  BY DEF CountNode, run, history
<1>6. CASE th[t].failed
  <2>1. r = Resume(r0)
    BY <1>6
  <2> HIDE DEF r
  <2>2. /\ r \in ThreadStates /\ r.pc \in {"loop", "schedule_finish", "idle"}
        /\ r.inline_ready = th[t].inline_ready
    BY <1>3, <1>4, <2>1, ResumeIs, IdleIs
  <2>3. ThreadOK(r, status)
    <3>1. CASE r0.callback /\ ~ r0.completed
      BY <1>3, <2>1, <3>1, ResumeIs, IdleIs
    <3>2. CASE r0.callback /\ r0.completed
      <4>1. r.pc = "schedule_finish" /\ r.inline_ready = <<>> /\ ~ r.failed
        BY <1>3, <2>1, <3>2, ResumeIs
      <4> QED
        BY <4>1 DEF ThreadOK, Counted
    <3>3. CASE ~ r0.callback
      <4>1. r.pc = "loop" /\ ~ r.callback
        BY <1>3, <2>1, <3>3, ResumeIs
      <4> QED
        BY <1>4, <1>6, <4>1 DEF ThreadOK, Counted
    <3> QED
      BY <3>1, <3>2, <3>3
  <2>4. \A M : \A places \in {InFrame, Entering} : Has(r, M, places) = Has(th[t], M, places)
    <3> TAKE M
    <3> TAKE places \in {InFrame, Entering}
    <3>1. Has(r, M, places) = Among(r.inline_ready, M)
      BY <2>2, HasAt
    <3>2. Has(th[t], M, places) = Among(th[t].inline_ready, M) + 0 /\ Among(th[t].inline_ready, M) \in Nat
      BY <1>0, <1>1, <1>6, HasAt
    <3> QED
      BY <2>2, <3>1, <3>2
  <2> QED
    BY <1>0, <1>1, <1>4, <1>5, <1>6, <2>2, <2>3, <2>4, StaysKeep
<1>7. CASE ~ th[t].failed
  <2>1. r = [r0 EXCEPT !.pc = "schedule_ready"]
    BY <1>7
  <2> HIDE DEF r
  <2>2. /\ r \in ThreadStates /\ r.pc = "schedule_ready" /\ r.inline_ready = th[t].inline_ready
        /\ r.ready = th[t].ready /\ r.failed = th[t].failed /\ r.callback = th[t].callback
        /\ r.tagged_node = th[t].tagged_node
    BY <1>3, <2>1 DEF ThreadStates, Places
  <2>3. ThreadOK(r, status)
    BY <1>4, <1>7, <2>2 DEF ThreadOK, Counted
  <2>4. \A M : \A places \in {InFrame, Entering} : Has(r, M, places) = Has(th[t], M, places)
    <3> TAKE M
    <3> TAKE places \in {InFrame, Entering}
    <3>1. Has(r, M, places) = Among(r.inline_ready, M) + (IF r.failed THEN 0 ELSE Among(r.ready, M))
      BY <2>2, HasAt
    <3>2. Has(th[t], M, places) = Among(th[t].inline_ready, M) + (IF th[t].failed THEN 0 ELSE Among(th[t].ready, M))
      BY <1>0, <1>1, HasAt
    <3> QED
      BY <2>2, <3>1, <3>2
  <2> QED
    BY <1>0, <1>1, <1>5, <1>7, <2>2, <2>3, <2>4, StaysKeep
<1> QED
  BY <1>6, <1>7

\* ScheduleFinish keeps the invariant.
LEMMA ScheduleFinishKeeps ==
    ASSUME Sane, NEW t \in Threads, ScheduleFinish(t)
    PROVE  Sane'
<1>0. /\ GraphOK /\ Typed /\ th[t] \in ThreadStates /\ ThreadOK(th[t], status)
      /\ status \in BOOLEAN /\ aborted \in BOOLEAN
  BY SaneParts
<1> DEFINE r == IF num_deferred_ops > 0 THEN Idle ELSE [th[t] EXCEPT !.pc = "finish"]
<1>1. th[t].pc = "schedule_finish" /\ th' = [th EXCEPT ![t] = r]
  BY <1>0, TypedParts DEF ScheduleFinish, At, Goto
<1>2. th[t].inline_ready = <<>> /\ (th[t].failed => ~ status)
  BY <1>0, <1>1 DEF ThreadOK
<1>3. /\ r \in ThreadStates /\ r.pc \in {"idle", "finish"} /\ r.inline_ready = <<>> /\ ThreadOK(r, status)
  <2>1. CASE num_deferred_ops > 0
    <3>1. r = Idle
      BY <2>1
    <3> HIDE DEF r
    <3> QED
      BY <3>1, IdleIs
  <2>2. CASE ~ (num_deferred_ops > 0)
    <3>1. r = [th[t] EXCEPT !.pc = "finish"]
      BY <2>2
    <3> HIDE DEF r
    <3>2. r \in ThreadStates /\ r.pc = "finish" /\ r.inline_ready = <<>> /\ r.failed = th[t].failed
      BY <1>0, <1>2, <3>1 DEF ThreadStates, Places
    <3>3. ThreadOK(r, status)
      BY <1>2, <3>2 DEF ThreadOK, Counted
    <3> QED
      BY <3>2, <3>3
  <2> QED
    BY <2>1, <2>2
<1> HIDE DEF r
<1>4. \A M : \A places \in {InFrame, Entering} : Has(r, M, places) = Has(th[t], M, places)
  <2> TAKE M
  <2> TAKE places \in {InFrame, Entering}
  <2>1. Has(r, M, places) = Among(r.inline_ready, M)
    BY <1>3, HasAt
  <2>2. Has(th[t], M, places) = Among(th[t].inline_ready, M)
    BY <1>0, <1>1, HasAt
  <2> QED
    BY <1>2, <1>3, <2>1, <2>2
<1>5. /\ frames' = frames /\ pool' = pool /\ asyncs' = asyncs /\ graph' = graph /\ status' = status
      /\ inter_threadpool' = inter_threadpool /\ aborted' = aborted /\ fired' = fired /\ closed' = closed
  BY DEF ScheduleFinish, run, state, history
<1> QED
  BY <1>0, <1>1, <1>2, <1>3, <1>4, <1>5, StaysKeep

\* Finish keeps the invariant.
LEMMA FinishKeeps ==
    ASSUME Sane, NEW t \in Threads, Finish(t)
    PROVE  Sane'
<1>0. /\ GraphOK /\ Typed /\ th[t] \in ThreadStates /\ ThreadOK(th[t], status)
      /\ status \in BOOLEAN /\ aborted \in BOOLEAN
  BY SaneParts
<1>1. th[t].pc = "finish" /\ th' = [th EXCEPT ![t] = Idle]
  BY DEF Finish, At
<1>2. th[t].inline_ready = <<>> /\ (th[t].failed => ~ status)
  BY <1>0, <1>1 DEF ThreadOK
<1>3. \A M : \A places \in {InFrame, Entering} : Has(Idle, M, places) = Has(th[t], M, places)
  <2> TAKE M
  <2> TAKE places \in {InFrame, Entering}
  <2>1. Has(Idle, M, places) = Among(Idle.inline_ready, M)
    BY IdleIs, HasAt
  <2>2. Has(th[t], M, places) = Among(th[t].inline_ready, M)
    BY <1>0, <1>1, HasAt
  <2> QED
    BY <1>2, <2>1, <2>2, IdleIs
<1>4. /\ frames' = frames /\ pool' = pool /\ asyncs' = asyncs /\ graph' = graph /\ status' = status
      /\ inter_threadpool' = inter_threadpool /\ aborted' = aborted /\ fired' = fired /\ closed' = closed
  BY DEF Finish, run, state, history
<1> QED
  BY <1>0, <1>1, <1>2, <1>3, <1>4, IdleIs, StaysKeep

\* DecNumDeferredOps keeps the invariant.
LEMMA DecNumDeferredOpsKeeps ==
    ASSUME Sane, NEW t \in Threads, DecNumDeferredOps(t)
    PROVE  Sane'
<1>0. /\ GraphOK /\ Typed /\ th[t] \in ThreadStates /\ ThreadOK(th[t], status)
      /\ status \in BOOLEAN /\ aborted \in BOOLEAN
  BY SaneParts
<1> DEFINE last == num_deferred_ops = 1 /\ finish_when_deferred_ops_done
           r == IF last THEN [th[t] EXCEPT !.pc = "finish"] ELSE th[t]
<1>1. th[t].pc = "idle" /\ th[t] = Idle
  BY <1>0 DEF DecNumDeferredOps, At, ThreadOK
<1>2. th' = [th EXCEPT ![t] = r]
  <2>1. CASE last
    BY <1>0, <2>1, TypedParts DEF DecNumDeferredOps, Goto
  <2>2. CASE ~ last
    <3>1. th' = th
      BY <2>2 DEF DecNumDeferredOps
    <3>2. th = [th EXCEPT ![t] = th[t]]
      BY <1>0, TypedParts
    <3> QED
      BY <2>2, <3>1, <3>2
  <2> QED
    BY <2>1, <2>2
<1>3. /\ r \in ThreadStates /\ r.pc \in {"idle", "finish"} /\ r.inline_ready = <<>> /\ ThreadOK(r, status)
  <2>1. CASE last
    <3>1. r = [Idle EXCEPT !.pc = "finish"]
      BY <1>1, <2>1
    <3> HIDE DEF r
    <3>2. r \in ThreadStates /\ r.pc = "finish" /\ r.inline_ready = <<>> /\ ~ r.failed
      BY <3>1, IdleIs DEF ThreadStates, Places
    <3>3. ThreadOK(r, status)
      BY <3>2 DEF ThreadOK, Counted
    <3> QED
      BY <3>2, <3>3
  <2>2. CASE ~ last
    <3>1. r = Idle
      BY <1>1, <2>2
    <3> HIDE DEF r
    <3> QED
      BY <3>1, IdleIs
  <2> QED
    BY <2>1, <2>2
<1> HIDE DEF r
<1>4. \A M : \A places \in {InFrame, Entering} : Has(r, M, places) = Has(th[t], M, places)
  <2> TAKE M
  <2> TAKE places \in {InFrame, Entering}
  <2>1. Has(r, M, places) = Among(r.inline_ready, M)
    BY <1>3, HasAt
  <2>2. Has(th[t], M, places) = Among(th[t].inline_ready, M)
    BY <1>0, <1>1, HasAt
  <2> QED
    BY <1>1, <1>3, <2>1, <2>2, IdleIs
<1>5. /\ frames' = frames /\ pool' = pool /\ asyncs' = asyncs /\ graph' = graph /\ status' = status
      /\ inter_threadpool' = inter_threadpool /\ aborted' = aborted /\ fired' = fired /\ closed' = closed
  BY DEF DecNumDeferredOps, run, state, history
<1>6. ~ th[t].failed
  BY <1>1, IdleIs
<1> QED
  BY <1>0, <1>1, <1>2, <1>3, <1>4, <1>5, <1>6, StaysKeep

\* AsyncDone keeps the invariant.
LEMMA AsyncDoneKeeps ==
    ASSUME Sane, NEW t \in Threads, AsyncDone(t)
    PROVE  Sane'
<1>0. /\ GraphOK /\ Typed /\ OpsCover /\ th[t] \in ThreadStates /\ ThreadOK(th[t], status)
      /\ BagOver(pool) /\ BagOver(asyncs) /\ status \in BOOLEAN /\ aborted \in BOOLEAN
  BY SaneParts
<1> DEFINE Fails(x) == x.node \in graph.fails \union graph.never
           Next1(x) == [Idle EXCEPT !.tagged_node = x, !.callback = TRUE, !.failed = Fails(x),
                                    !.pc = IF Fails(x) THEN "node_done" ELSE "propagate"]
<1>1. PICK x \in BagToSet(asyncs) :
         /\ asyncs' = asyncs (-) SetToBag({x}) /\ frames' = ClearInputs(x)
         /\ th' = [th EXCEPT ![t] = Next1(x)]
  BY Zenon DEF AsyncDone
<1>2. x \in DOMAIN asyncs /\ x \in Tagged
  BY <1>0 DEF BagToSet, BagOver
<1>3. x.frame \in DOMAIN frames /\ Living(frames[x.frame], x.iter)
  BY <1>0, <1>2, ReadyIsThere
<1>4. th[t] = Idle
  BY <1>0 DEF AsyncDone, At, ThreadOK
<1> DEFINE failed == Fails(x)
           pc == IF failed THEN "node_done" ELSE "propagate"
           r == Next1(x)
<1>5. failed \in BOOLEAN
  OBVIOUS
<1> HIDE DEF failed
<1>6. /\ r \in ThreadStates /\ r.pc = pc /\ r.inline_ready = <<>> /\ r.failed = failed /\ r.callback
      /\ r.tagged_node = x
  BY <1>2, <1>5, IdleIs DEF ThreadStates, Places, Counted, failed
<1>7. /\ pc \in {"node_done", "propagate"} /\ (failed <=> pc = "node_done")
  BY <1>5
<1> HIDE DEF r, pc
<1>8. BagOver(asyncs') /\ \A M : Copies(asyncs, M) = Copies(asyncs', M) + IfIn(x, M)
  BY <1>0, <1>1, <1>2, BagTakes
<1>9. /\ pool' = pool /\ graph' = graph /\ status' = status
      /\ inter_threadpool' = inter_threadpool /\ aborted' = aborted /\ fired' = fired /\ closed' = closed
  BY DEF AsyncDone, run, history
<1>10. ThreadMoves(t, r)
  BY <1>0, <1>1, <1>6, <1>8, <1>9 DEF ThreadMoves, r
<1>11. ASSUME NEW M, NEW places \in {InFrame, Entering}
       PROVE  Delta(t, r, M, places) = IF failed THEN 0 - IfIn(x, M) ELSE 0
  <2>1. Has(th[t], M, places) = 0
    BY <1>4, IdleIs, HasAt, AmongNothing
  <2>2. Has(r, M, places) = IF failed THEN 0 ELSE IfIn(x, M)
    <3>1. CASE failed
      <4>1. Has(r, M, places) = Among(r.inline_ready, M) + 0
        BY <1>6, <1>7, <3>1, HasAt
      <4>2. Among(r.inline_ready, M) = 0
        BY <1>6, AmongNothing
      <4> QED
        BY <3>1, <4>1, <4>2
    <3>2. CASE ~ failed
      <4>1. Has(r, M, places) = Among(r.inline_ready, M) + IfIn(x, M)
        BY <1>6, <1>7, <3>2, HasAt DEF Entering
      <4>2. Among(r.inline_ready, M) = 0 /\ IfIn(x, M) \in Nat
        BY <1>6, AmongNothing DEF IfIn
      <4> QED
        BY <3>2, <4>1, <4>2
    <3> QED
      BY <3>1, <3>2
  <2>3. Copies(pool, M) \in Nat /\ Copies(asyncs, M) \in Nat /\ Copies(asyncs', M) \in Nat /\ IfIn(x, M) \in Nat
    BY <1>0, <1>8, CopiesIs DEF IfIn
  <2>4. Copies(pool', M) = Copies(pool, M) /\ Copies(asyncs, M) = Copies(asyncs', M) + IfIn(x, M)
    BY <1>8, <1>9
  <2> QED
    BY <2>1, <2>2, <2>3, <2>4 DEF Delta
<1>12. FramesStay
  BY <1>0, <1>1, <1>2, <1>3, ClearStays
<1>13. ThreadOK(r, status')
  BY <1>2, <1>6, <1>7 DEF ThreadOK, Counted
<1>14. Sound' => Sound /\ ~ failed
  <2>1. Sound' => Sound
    BY <1>0, <1>4, <1>9, <1>10, IdleIs, SoundKept
  <2>2. th'[t] = r
    BY <1>0, <1>1, TypedParts DEF r
  <2> QED
    BY <1>6, <2>1, <2>2 DEF Sound
<1>15. Quiet(t, r)
  <2>1. ASSUME NEW M
        PROVE  /\ Delta(t, r, M, InFrame) <= 0 /\ Delta(t, r, M, Entering) <= 0
               /\ Sound' => Delta(t, r, M, InFrame) = 0
    <3>1. /\ Delta(t, r, M, InFrame) = IF failed THEN 0 - IfIn(x, M) ELSE 0
          /\ Delta(t, r, M, Entering) = IF failed THEN 0 - IfIn(x, M) ELSE 0
      BY <1>11
    <3>2. IfIn(x, M) \in Nat
      BY DEF IfIn
    <3> QED
      BY <1>14, <3>1, <3>2
  <2> QED
    BY <1>0, <1>4, <1>6, <1>7, <1>9, <1>10, <1>12, <1>13, <1>14, <2>1, IdleIs DEF Quiet
<1> QED
  BY <1>15, QuietKeeps

\* ScheduleReady keeps the invariant.
LEMMA ScheduleReadyKeeps ==
    ASSUME Sane, NEW t \in Threads, ScheduleReady(t)
    PROVE  Sane'
<1>0. /\ GraphOK /\ Typed /\ th[t] \in ThreadStates /\ ThreadOK(th[t], status)
      /\ BagOver(pool) /\ BagOver(asyncs) /\ status \in BOOLEAN /\ aborted \in BOOLEAN
      /\ th[t].inline_ready \in Seq(Tagged) /\ th[t].ready \in Seq(Tagged)
      /\ th[t].callback \in BOOLEAN /\ th[t].failed \in BOOLEAN
  BY SaneParts
<1> DEFINE D0(not_sleep_thread) ==
              IF th[t].callback \/ ~ not_sleep_thread
              THEN [inline |-> th[t].inline_ready, given |-> th[t].ready]
              ELSE Dispatch(th[t].inline_ready, th[t].ready)
<1>1. PICK s \in BOOLEAN :
         /\ pool' = Given(D0(s).given)
         /\ th' = [th EXCEPT ![t] = Resume([th[t] EXCEPT !.inline_ready = D0(s).inline])]
  BY Zenon DEF ScheduleReady
<1> DEFINE d == D0(s)
           r0 == [th[t] EXCEPT !.inline_ready = d.inline]
           r == Resume(r0)
<1>2. /\ th[t].pc = "schedule_ready" /\ ~ th[t].failed
      /\ th[t].callback => th[t].inline_ready = <<>>
  BY <1>0 DEF ScheduleReady, At, ThreadOK, Counted
<1>3. /\ d.inline \in Seq(Tagged) /\ d.given \in Seq(Tagged)
      /\ \A M : Among(d.inline, M) + Among(d.given, M) = Among(th[t].inline_ready, M) + Among(th[t].ready, M)
      /\ th[t].callback => d.inline = <<>>
  <2>1. CASE th[t].callback \/ ~ s
    <3>1. d = [inline |-> th[t].inline_ready, given |-> th[t].ready]
      BY <2>1
    <3> HIDE DEF d
    <3> QED
      BY <1>0, <1>2, <3>1
  <2>2. CASE ~ (th[t].callback \/ ~ s)
    <3>1. d = Dispatch(th[t].inline_ready, th[t].ready)
      BY <2>2
    <3> HIDE DEF d
    <3> QED
      BY <1>0, <2>2, <3>1, DispatchKeeps
  <2> QED
    BY <2>1, <2>2
<1> HIDE DEF d
<1>4. /\ r0 \in ThreadStates /\ r0.inline_ready = d.inline /\ ~ r0.failed /\ r0.callback = th[t].callback
  BY <1>0, <1>2, <1>3 DEF ThreadStates
<1> HIDE DEF r0
<1>5. /\ r \in ThreadStates /\ r.pc \in {"loop", "schedule_finish", "idle"} /\ r.inline_ready = d.inline
      /\ ~ r.failed
  BY <1>3, <1>4, ResumeIs, IdleIs
<1>6. ThreadOK(r, status)
  <2>1. CASE r0.callback /\ ~ r0.completed
    BY <1>4, <2>1, ResumeIs, IdleIs
  <2>2. CASE r0.callback /\ r0.completed
    <3>1. r.pc = "schedule_finish" /\ r.inline_ready = <<>> /\ ~ r.failed
      BY <1>4, <2>2, ResumeIs
    <3> HIDE DEF r
    <3> QED
      BY <3>1 DEF ThreadOK, Counted
  <2>3. CASE ~ r0.callback
    <3>1. r.pc = "loop" /\ ~ r.callback
      BY <1>4, <2>3, ResumeIs
    <3> HIDE DEF r
    <3> QED
      BY <1>5, <3>1 DEF ThreadOK, Counted
  <2> QED
    BY <2>1, <2>2, <2>3
<1>7. th' = [th EXCEPT ![t] = r] /\ pool' = Given(d.given)
  BY <1>1 DEF d, r0
<1> HIDE DEF r
<1>8. /\ frames' = frames /\ asyncs' = asyncs /\ graph' = graph /\ status' = status
      /\ inter_threadpool' = inter_threadpool /\ aborted' = aborted /\ fired' = fired /\ closed' = closed
  BY DEF ScheduleReady, run, history
<1>9. BagOver(pool') /\ \A M : Copies(pool', M) = Copies(pool, M) + Among(d.given, M)
  BY <1>0, <1>3, <1>7, GivenKeeps
<1>10. ThreadMoves(t, r)
  BY <1>0, <1>5, <1>7, <1>8, <1>9 DEF ThreadMoves
<1>11. ASSUME NEW M, NEW places \in {InFrame, Entering} PROVE Delta(t, r, M, places) = 0
  <2>1. Has(r, M, places) = Among(d.inline, M)
    BY <1>5, HasAt
  <2>2. Has(th[t], M, places) = Among(th[t].inline_ready, M) + Among(th[t].ready, M)
    BY <1>0, <1>2, HasAt
  <2>3. /\ Copies(pool, M) \in Nat /\ Copies(asyncs, M) \in Nat
        /\ Among(d.inline, M) \in Nat /\ Among(d.given, M) \in Nat
        /\ Among(th[t].inline_ready, M) \in Nat /\ Among(th[t].ready, M) \in Nat
    BY <1>0, <1>3, CopiesIs, AmongIs
  <2>4. Copies(pool', M) = Copies(pool, M) + Among(d.given, M) /\ Copies(asyncs', M) = Copies(asyncs, M)
    BY <1>8, <1>9
  <2>5. Among(d.inline, M) + Among(d.given, M) = Among(th[t].inline_ready, M) + Among(th[t].ready, M)
    BY <1>3
  <2> QED
    BY <2>1, <2>2, <2>3, <2>4, <2>5 DEF Delta
<1>12. FramesStay
  BY <1>0, <1>8, Unchanged
<1>13. Sound' => Sound
  BY <1>0, <1>2, <1>8, <1>10, SoundKept
<1>14. Quiet(t, r)
  <2>1. \A M : Delta(t, r, M, InFrame) = 0 /\ Delta(t, r, M, Entering) = 0
    BY <1>11
  <2> QED
    BY <1>0, <1>2, <1>5, <1>6, <1>8, <1>10, <1>12, <1>13, <2>1 DEF Quiet
<1> QED
  BY <1>14, QuietKeeps

-----------------------------------------------------------------------------
(* The steps in a frame.                                                   *)

\* The thread writes one frame, and may end its work in it or give the outputs of its node.
Puts(t, r, g, b, iter, sub) ==
    /\ t \in Threads /\ r \in ThreadStates /\ th' = [th EXCEPT ![t] = r]
    /\ graph' = graph /\ inter_threadpool' = inter_threadpool
    /\ pool' = pool /\ asyncs' = asyncs /\ status' = status /\ aborted' = aborted
    /\ r.inline_ready = th[t].inline_ready /\ r.tagged_node = th[t].tagged_node
    /\ r.failed = th[t].failed /\ r.callback = th[t].callback /\ th[t].tagged_node \in Tagged
    /\ \A places \in {InFrame, Entering} : r.pc \in places => th[t].pc \in places
    /\ g \in DOMAIN frames /\ b \in Accs(g) /\ b.ready = ReadyOf(r) /\ RootsWait(b.fs)
    /\ frames' = [frames EXCEPT ![g] = b.fs]
    /\ Leaving(t, r, InFrame) => g = InputFrame(t) /\ iter = InputIter(t)
    /\ Lowers([fs |-> frames[g], ready |-> ReadyOf(th[t])], b, g, iter, Ended(t, r), sub)
    /\ closed \in SUBSET closed'
    /\ fired' = IF Leaving(t, r, Entering) THEN fired \union {th[t].tagged_node} ELSE fired

\* A section that puts one FrameState back is a critical section of its frame.
LEMMA PutsSection ==
    ASSUME Typed, NEW t, NEW r, NEW g, NEW b, NEW iter, NEW sub, Puts(t, r, g, b, iter, sub)
    PROVE  /\ Section(t, r, g, b, iter, sub)
           /\ DOMAIN frames' = DOMAIN frames /\ frames'[g] = b.fs
           /\ \A f \in DOMAIN frames : f # g => frames'[f] = frames[f]
<1>1. /\ IsFiniteSet(DOMAIN frames) /\ DOMAIN frames \in SUBSET Paths
      /\ frames = [f \in DOMAIN frames |-> frames[f]]
      /\ \A f \in DOMAIN frames : FrameOK(frames[f], f) /\ RootsWait(frames[f])
      /\ BagOver(pool) /\ BagOver(asyncs)
  BY DEF Typed
<1>2. frames' = [frames EXCEPT ![g] = b.fs] /\ g \in DOMAIN frames
  BY DEF Puts
<1>3. /\ DOMAIN frames' = DOMAIN frames /\ frames'[g] = b.fs
      /\ \A f \in DOMAIN frames : f # g => frames'[f] = frames[f]
      /\ frames' = [f \in DOMAIN frames' |-> frames'[f]]
  BY <1>1, <1>2
<1>4. FrameOK(b.fs, g) /\ RootsWait(b.fs)
  BY DEF Puts, Accs
<1>5. FramesTyped(frames')
  <2>1. ASSUME NEW f \in DOMAIN frames' PROVE FrameOK(frames'[f], f) /\ RootsWait(frames'[f])
    BY <1>1, <1>3, <1>4
  <2> QED
    BY <1>1, <1>3, <2>1 DEF FramesTyped
<1>6. FramesKept
  BY <1>3, <1>5 DEF FramesKept, Puts
<1>7. ThreadMoves(t, r)
  BY <1>1 DEF ThreadMoves, Puts
<1> QED
  BY <1>3, <1>6, <1>7 DEF Section, Puts

\* A section that puts one FrameState back keeps the invariant.
LEMMA PutsKeep ==
    ASSUME Sane, NEW t, NEW r, NEW g, NEW b, NEW iter, Puts(t, r, g, b, iter, 0), InputsCount',
           ThreadOK(r, status), ~ IsFrameDone(frames[g]), th[t].pc # "cleanup", r.pc # "cleanup",
           r.pc = "delete_frame" => r.frame = g /\ IsFrameDone(b.fs),
           r.pc = "erase_frame" => /\ th[t].pc = "delete_frame" /\ r.frame = th[t].frame
                                   /\ r.frame \in closed',
           r.pc # "enter"
    PROVE  Sane'
<1>1. /\ GraphOK /\ Typed /\ ThreadsOK /\ DeletersOK /\ OpsCover /\ SubCover /\ EnterOnce /\ InputsCount
  BY DEF Sane
<1>2. Section(t, r, g, b, iter, 0) /\ DOMAIN frames' = DOMAIN frames
  BY <1>1, PutsSection
<1>3. ThreadMoves(t, r) /\ graph' = graph /\ inter_threadpool' = inter_threadpool /\ status' = status
  BY <1>2 DEF Section, ThreadMoves
<1>4. GraphOK'
  BY <1>1, <1>3, SameGraph
<1>5. Typed'
  BY <1>1, <1>2, SectionTyped
<1>6. ThreadsOK'
  BY <1>1, <1>3, ThreadsKept
<1>7. DeletersOK'
  BY <1>1, <1>2, SectionDeleters
<1>8. OpsCover'
  BY <1>1, <1>2, SectionOps
<1>9. SubCover'
  BY <1>1, <1>2, SectionSameSub
<1>10. EnterOnce'
  BY <1>1, <1>2, SectionEnter
<1> QED
  BY <1>4, <1>5, <1>6, <1>7, <1>8, <1>9, <1>10 DEF Sane

\* The inputs that a frame waits for are those of the step before.
LEMMA PutsInputs ==
    ASSUME Sane, NEW t, NEW r, NEW g, NEW b, NEW iter, NEW sub, Puts(t, r, g, b, iter, sub),
           b.fs.num_pending_inputs = frames[g].num_pending_inputs,
           \A c \in closed' : c \in closed \/ c = <<>> \/ Unfired(c) = {},
           Leaving(t, r, Entering) => Node(t) \notin Enters
    PROVE  InputsCount'
<1>1. GraphOK /\ Typed /\ InputsCount
  BY DEF Sane
<1>2. /\ DOMAIN frames' = DOMAIN frames /\ frames'[g] = b.fs
      /\ \A f \in DOMAIN frames : f # g => frames'[f] = frames[f]
  BY <1>1, PutsSection
<1>3. \A c \in DOMAIN frames : frames'[c].num_pending_inputs = frames[c].num_pending_inputs
  BY <1>2
<1>4. fired \in SUBSET fired' /\ \A x \in fired' : x \in fired \/ x.node \notin Enters
  BY DEF Puts, Node
<1>5. graph' = graph /\ closed \in SUBSET closed'
  BY DEF Puts
<1> QED
  BY <1>1, <1>2, <1>3, <1>4, <1>5, InputsSame

\* Whether what a thread has made ready counts at its place.
LEMMA ReadyAt ==
    ASSUME NEW r
    PROVE  /\ r.pc \in {"decrement", "delete_frame", "erase_frame", "cleanup", "node_done"} /\ ~ r.failed =>
                 ReadyOf(r) = r.ready
           /\ r.pc \in Entering => ReadyOf(r) = <<>>
BY DEF ReadyOf, Counted, Entering

\* What a frame and the nodes ready have become, before the count of the iteration is lower.
Meanwhile(t, acc) ==
    /\ acc \in Accs(InputFrame(t))
    /\ Lowers([fs |-> frames[InputFrame(t)], ready |-> ReadyOf(th[t])], acc, InputFrame(t), InputIter(t), 0, 0)
    /\ Living(acc.fs, InputIter(t)) /\ RootsWait(acc.fs)
    /\ acc.fs.num_pending_inputs = frames[InputFrame(t)].num_pending_inputs

\* The section that lowers outstanding_ops keeps the invariant, whatever it does before.
LEMMA DecrementedKeeps ==
    ASSUME Sane, NEW t \in Threads, th[t].pc \in {"propagate", "decrement"},
           th[t].pc = "propagate" => Node(t) \notin Enters,
           NEW acc, Meanwhile(t, acc),
           Decremented(t, DecrementOutstandingOps(acc, InputFrame(t), InputIter(t))),
           graph' = graph, inter_threadpool' = inter_threadpool,
           pool' = pool, asyncs' = asyncs, status' = status, aborted' = aborted, closed' = closed,
           fired' = IF th[t].pc = "propagate" THEN fired \union {th[t].tagged_node} ELSE fired
    PROVE  Sane'
<1> DEFINE g == InputFrame(t)
           iter == InputIter(t)
           d == DecrementOutstandingOps(acc, g, iter)
           b == [fs |-> d.fs, ready |-> d.ready]
           pc == IF d.done THEN "delete_frame" ELSE "node_done"
           r == [th[t] EXCEPT !.ready = d.ready, !.frame = g, !.pc = pc]
           a == [fs |-> frames[g], ready |-> ReadyOf(th[t])]
<1>0. /\ GraphOK /\ Typed /\ ThreadsOK /\ OpsCover /\ th[t] \in ThreadStates /\ ThreadOK(th[t], status)
  BY SaneParts
<1>1. /\ th[t].tagged_node \in Tagged /\ ~ th[t].failed
      /\ g \in Paths /\ iter \in Nat /\ g \in DOMAIN frames /\ Living(frames[g], iter)
      /\ ~ IsFrameDone(frames[g])
  <2>1. th[t].pc \in InFrame
    BY DEF InFrame
  <2> QED
    BY <1>0, <2>1, MineIsThere
<1>2. /\ acc \in Accs(g) /\ Lowers(a, acc, g, iter, 0, 0) /\ Living(acc.fs, iter) /\ RootsWait(acc.fs)
      /\ acc.fs.num_pending_inputs = frames[g].num_pending_inputs
  BY DEF Meanwhile
<1> HIDE DEF g, iter, a
<1>3. /\ b \in Accs(g) /\ Lowers(acc, b, g, iter, 1, 0)
      /\ d.fs.num_pending_inputs = acc.fs.num_pending_inputs
      /\ RootsWait(d.fs) /\ d.done \in BOOLEAN /\ (d.done => IsFrameDone(d.fs))
  BY <1>0, <1>1, <1>2, DecrementMoves
<1>4. frames' = [frames EXCEPT ![g] = d.fs] /\ th' = [th EXCEPT ![t] = r]
  BY DEF Decremented, g, iter
<1> HIDE DEF d
<1>5. d.ready \in Seq(Tagged) /\ b.fs = d.fs /\ b.ready = d.ready
  BY <1>3 DEF Accs
<1>6. /\ r \in ThreadStates /\ r.pc = pc /\ r.ready = d.ready /\ r.frame = g
      /\ r.inline_ready = th[t].inline_ready /\ r.tagged_node = th[t].tagged_node
      /\ r.failed = th[t].failed /\ r.callback = th[t].callback
  BY <1>0, <1>1, <1>3, <1>5 DEF ThreadStates, Places, Counted
<1>7. pc \in {"delete_frame", "node_done"} /\ (pc = "delete_frame" => d.done)
  BY <1>3
<1> HIDE DEF b, r, pc
<1>8. a \in Accs(g)
  <2>1. FrameOK(frames[g], g) /\ ReadyOf(th[t]) \in Seq(Tagged)
    BY <1>0, <1>1, TypedParts, HasIs
  <2> QED
    BY <2>1 DEF a, Accs, FrameOK
<1>9. Lowers(a, b, g, iter, 1, 0)
  <2>1. Lowers(a, b, g, iter, 0 + 1, 0 + 0)
    BY <1>0, <1>1, <1>2, <1>3, <1>8, LowersOn
  <2> QED
    BY <2>1
<1>10. Leaving(t, r, InFrame) /\ Ended(t, r) = 1
  BY <1>6, <1>7 DEF Leaving, Ended, InFrame
<1>11. Leaving(t, r, Entering) <=> th[t].pc = "propagate"
  BY <1>6, <1>7 DEF Leaving, Entering
<1>12. ReadyOf(r) = b.ready
  BY <1>1, <1>5, <1>6, <1>7, ReadyAt
<1>13. Puts(t, r, g, b, iter, 0)
  <2>1. \A places \in {InFrame, Entering} : ~ (r.pc \in places)
    BY <1>6, <1>7 DEF InFrame, Entering
  <2>2. Lowers([fs |-> frames[g], ready |-> ReadyOf(th[t])], b, g, iter, Ended(t, r), 0)
    BY <1>9, <1>10 DEF a
  <2>3. fired' = IF Leaving(t, r, Entering) THEN fired \union {th[t].tagged_node} ELSE fired
    BY <1>11
  <2>4. RootsWait(b.fs) /\ frames' = [frames EXCEPT ![g] = b.fs]
    BY <1>3, <1>4, <1>5
  <2> QED
    BY <1>1, <1>3, <1>4, <1>6, <1>12, <2>1, <2>2, <2>3, <2>4 DEF Puts, g, iter
<1>14. InputsCount'
  <2>1. b.fs.num_pending_inputs = frames[g].num_pending_inputs
    BY <1>2, <1>3, <1>5
  <2> QED
    BY <1>11, <1>13, <2>1, PutsInputs
<1>15. ThreadOK(r, status)
  <2>1. th[t].callback => th[t].inline_ready = <<>>
    BY <1>0 DEF ThreadOK
  <2> QED
    BY <1>1, <1>6, <1>7, <2>1 DEF ThreadOK, Counted
<1> QED
  BY <1>1, <1>3, <1>5, <1>6, <1>7, <1>13, <1>14, <1>15, PutsKeep

\* The output of a node that leads into a frame.
LEMMA OutputIs ==
    ASSUME NEW x \in Tagged, NEW f, x.node \in Into(f)
    PROVE  Output(x) \in Outputs(f) /\ Output(x).node = x.node
<1>1. x.iter \in Nat
  BY TaggedIs
<1> QED
  BY <1>1 DEF Output, Outputs

\* The thread starts with its frame as it is.
LEMMA StartsWith ==
    ASSUME Sane, NEW t \in Threads, th[t].pc \in {"propagate", "decrement"}
    PROVE  LET g == InputFrame(t)
               a == [fs |-> frames[g], ready |-> ReadyOf(th[t])]
           IN  /\ GraphOK /\ g \in Paths /\ InputIter(t) \in Nat /\ g \in DOMAIN frames
               /\ a \in Accs(g) /\ Living(frames[g], InputIter(t)) /\ RootsWait(frames[g])
               /\ frames[g] \in FrameStates(g) /\ FrameOK(frames[g], g)
               /\ th[t].tagged_node \in Tagged /\ ~ th[t].failed
               /\ th[t].pc = "propagate" => ReadyOf(th[t]) = <<>>
               /\ th[t].pc = "decrement" => ReadyOf(th[t]) = th[t].ready
<1> DEFINE g == InputFrame(t)
<1>0. /\ GraphOK /\ Typed /\ ThreadsOK /\ OpsCover /\ th[t] \in ThreadStates
  BY SaneParts
<1>1. /\ th[t].tagged_node \in Tagged /\ ~ th[t].failed
      /\ g \in Paths /\ InputIter(t) \in Nat /\ g \in DOMAIN frames /\ Living(frames[g], InputIter(t))
  <2>1. th[t].pc \in InFrame
    BY DEF InFrame
  <2> QED
    BY <1>0, <2>1, MineIsThere
<1> HIDE DEF g
<1>2. FrameOK(frames[g], g) /\ RootsWait(frames[g]) /\ ReadyOf(th[t]) \in Seq(Tagged)
  BY <1>0, <1>1, TypedParts, HasIs
<1>3. [fs |-> frames[g], ready |-> ReadyOf(th[t])] \in Accs(g)
  BY <1>2 DEF Accs, FrameOK
<1>4. /\ th[t].pc = "propagate" => ReadyOf(th[t]) = <<>>
      /\ th[t].pc = "decrement" => ReadyOf(th[t]) = th[t].ready
  BY <1>1, ReadyAt DEF Entering
<1> QED
  BY <1>0, <1>1, <1>2, <1>3, <1>4 DEF g, FrameOK

\* Decrement keeps the invariant.
LEMMA DecrementKeeps ==
    ASSUME Sane, NEW t \in Threads, Decrement(t)
    PROVE  Sane'
<1> DEFINE acc == Locked(t, InputFrame(t))
<1>1. /\ th[t].pc = "decrement"
      /\ Decremented(t, DecrementOutstandingOps(acc, InputFrame(t), InputIter(t)))
      /\ graph' = graph /\ inter_threadpool' = inter_threadpool
      /\ pool' = pool /\ asyncs' = asyncs /\ status' = status /\ aborted' = aborted /\ closed' = closed
      /\ fired' = fired
  BY DEF Decrement, At, run, history
<1>2. acc = [fs |-> frames[InputFrame(t)], ready |-> ReadyOf(th[t])]
  BY <1>1, StartsWith DEF Locked
<1>3. Meanwhile(t, acc)
  <2>1. /\ acc \in Accs(InputFrame(t)) /\ Living(acc.fs, InputIter(t)) /\ RootsWait(acc.fs)
        /\ acc.fs = frames[InputFrame(t)] /\ GraphOK /\ InputFrame(t) \in Paths
    BY <1>1, <1>2, StartsWith
  <2>2. Moves(acc, acc, InputFrame(t))
    BY <2>1, MovesSelf
  <2>3. Lowers(acc, acc, InputFrame(t), InputIter(t), 0, 0)
    BY <2>1, <2>2, MovesLower
  <2> HIDE DEF acc
  <2> QED
    BY <1>2, <2>1, <2>3 DEF Meanwhile
<1> HIDE DEF acc
<1> QED
  BY <1>1, <1>3, DecrementedKeeps

\* The parts of Propagate.
Propagated(t) ==
    /\ graph' = graph /\ inter_threadpool' = inter_threadpool
    /\ pool' = pool /\ asyncs' = asyncs /\ status' = status /\ aborted' = aborted /\ closed' = closed
    /\ fired' = fired \union {th[t].tagged_node}

\* PropagateNode keeps the invariant.
LEMMA PropagateNodeKeeps ==
    ASSUME Sane, NEW t \in Threads, th[t].pc = "propagate", PropagateNode(t), Propagated(t)
    PROVE  Sane'
<1> DEFINE g == InputFrame(t)
           iter == InputIter(t)
           x == th[t].tagged_node
           a == [fs |-> frames[g], ready |-> ReadyOf(th[t])]
           acc == ActivateNodes([Locked(t, g) EXCEPT !.ready = <<>>], g, iter, Output(x), Dead(t))
<1>1. /\ GraphOK /\ g \in Paths /\ iter \in Nat /\ a \in Accs(g) /\ Living(frames[g], iter)
      /\ RootsWait(frames[g]) /\ x \in Tagged /\ ReadyOf(th[t]) = <<>>
  BY StartsWith
<1>2. /\ Kind(x.node) # "exit" /\ x.node \notin Enters
  <2>1. x.node \in DOMAIN graph.kind
    BY <1>1, TaggedIs
  <2>2. Kind(x.node) \notin {"enter", "const_enter", "exit", "next_iteration"}
    BY DEF PropagateNode, Node
  <2> QED
    BY <1>1, <2>1, <2>2, GraphFacts DEF IsEnter
<1>3. Output(x) \in Outputs(g)
  <2>1. x.node \in Into(g)
    <3>1. x.node \in DOMAIN graph.kind /\ graph.frame[x.node] = FrameInfo(g)
      BY <1>1, TaggedIs DEF InputFrame
    <3> QED
      BY <1>1, <1>2, <3>1, NodeInto
  <2> QED
    BY <1>1, <2>1, OutputIs
<1>4. Decremented(t, DecrementOutstandingOps(acc, g, iter))
  BY DEF PropagateNode
<1>5. [Locked(t, g) EXCEPT !.ready = <<>>] = a
  BY <1>1 DEF Locked
<1>6. acc = ActivateNodes(a, g, iter, Output(x), Dead(t))
  BY <1>5
<1> HIDE DEF acc
<1>7. a.fs = frames[g]
  OBVIOUS
<1> HIDE DEF a
<1>8. acc \in Accs(g) /\ Moves(a, acc, g) /\ Alike(frames[g], acc.fs)
  <2> HIDE DEF g, iter, x
  <2> QED
    BY <1>1, <1>3, <1>6, <1>7, NodesMove
<1>9. Lowers(a, acc, g, iter, 0, 0) /\ acc.fs.num_pending_inputs = frames[g].num_pending_inputs
  BY <1>1, <1>7, <1>8, MovesLower
<1>10. Living(acc.fs, iter) /\ RootsWait(acc.fs)
  BY <1>1, <1>8 DEF Alike, RootsWait
<1>11. Meanwhile(t, acc)
  BY <1>8, <1>9, <1>10 DEF Meanwhile, a
<1>12. Node(t) \notin Enters
  BY <1>2 DEF Node
<1> QED
  BY <1>4, <1>11, <1>12, DecrementedKeeps DEF Propagated

\* PropagateDeadExit keeps the invariant.
LEMMA PropagateDeadExitKeeps ==
    ASSUME Sane, NEW t \in Threads, th[t].pc = "propagate", PropagateDeadExit(t), Propagated(t)
    PROVE  Sane'
<1> DEFINE g == InputFrame(t)
           iter == InputIter(t)
           x == th[t].tagged_node
           f == frames[g]
           a == [fs |-> f, ready |-> ReadyOf(th[t])]
           gs == IF iter = f.iteration_count THEN [f EXCEPT !.dead_exits = Append(@, Node(t))] ELSE f
           acc == [fs |-> gs, ready |-> <<>>]
<1>1. /\ GraphOK /\ g \in Paths /\ iter \in Nat /\ a \in Accs(g) /\ Living(f, iter)
      /\ RootsWait(f) /\ x \in Tagged /\ ReadyOf(th[t]) = <<>> /\ f \in FrameStates(g) /\ FrameOK(f, g)
  BY StartsWith
<1>2. Kind(Node(t)) = "exit" /\ Node(t) \in Exits(g) /\ Node(t) \notin Enters
  <2>1. Kind(Node(t)) = "exit"
    BY DEF PropagateDeadExit
  <2>2. Node(t) \in DOMAIN graph.kind /\ graph.frame[Node(t)] = FrameInfo(g)
    BY <1>1, TaggedIs DEF InputFrame, Node
  <2> QED
    BY <1>1, <2>1, <2>2, GraphFacts DEF Exits, NodesOf, IsEnter
<1>3. Decremented(t, DecrementOutstandingOps(acc, g, iter))
  BY DEF PropagateDeadExit
<1>4. /\ gs \in FrameStates(g) /\ gs.iterations = f.iterations /\ gs.iteration_count = f.iteration_count
      /\ gs.num_outstanding_iterations = f.num_outstanding_iterations
      /\ gs.max_parallel_iterations = f.max_parallel_iterations
      /\ gs.num_pending_inputs = f.num_pending_inputs /\ gs.next_iter_roots = f.next_iter_roots
      /\ f.num_pending_inputs \in Int
  <2> DEFINE exits == Append(f.dead_exits, Node(t))
             hs == [f EXCEPT !.dead_exits = exits]
  <2>1. f.dead_exits \in Seq(Exits(g)) /\ f.num_pending_inputs \in Int
    BY <1>1, FrameFields
  <2>2. exits \in Seq(Exits(g))
    BY <1>2, <2>1
  <2>3. gs = hs \/ gs = f
    OBVIOUS
  <2> HIDE DEF exits, gs, f, g
  <2>4. /\ hs \in FrameStates(g) /\ hs.iterations = f.iterations /\ hs.iteration_count = f.iteration_count
        /\ hs.num_outstanding_iterations = f.num_outstanding_iterations
        /\ hs.max_parallel_iterations = f.max_parallel_iterations
        /\ hs.num_pending_inputs = f.num_pending_inputs /\ hs.next_iter_roots = f.next_iter_roots
    BY <1>1, <2>2 DEF FrameStates
  <2> HIDE DEF hs
  <2> QED
    BY <1>1, <2>1, <2>3, <2>4
<1> HIDE DEF gs, f
<1>5. a = [fs |-> f, ready |-> <<>>] /\ acc = [fs |-> gs, ready |-> <<>>]
  BY <1>1
<1> HIDE DEF a, acc
<1>6. acc = [a EXCEPT !.fs = gs] /\ a.fs = f /\ acc.fs = gs
  BY <1>5
<1>7. gs.num_pending_inputs <= f.num_pending_inputs
  BY <1>4
<1>8. acc \in Accs(g) /\ Lowers(a, acc, g, iter, 0, 0) /\ \A i \in Nat : Living(gs, i) <=> Living(f, i)
  <2> HIDE DEF g, iter
  <2> QED
    BY <1>1, <1>4, <1>6, <1>7, SameLowers
<1>9. Living(acc.fs, iter) /\ RootsWait(acc.fs)
  BY <1>1, <1>4, <1>6, <1>8 DEF RootsWait
<1>10. Meanwhile(t, acc)
  BY <1>4, <1>6, <1>8, <1>9 DEF Meanwhile, a, f
<1> QED
  BY <1>2, <1>3, <1>10, DecrementedKeeps DEF Propagated

\* PropagateNextIteration keeps the invariant.
LEMMA PropagateNextIterationKeeps ==
    ASSUME Sane, NEW t \in Threads, th[t].pc = "propagate", PropagateNextIteration(t), Propagated(t)
    PROVE  Sane'
<1> DEFINE g == InputFrame(t)
           iter == InputIter(t)
           x == th[t].tagged_node
           f == frames[g]
           out == Output(x)
           a == [fs |-> f, ready |-> <<>>]
           newest == iter = f.iteration_count
           waits == [a EXCEPT !.fs.next_iter_roots = Append(@, out)]
           base == IF newest THEN IncrementIteration(a, g) ELSE a
           goes == ActivateNodes(base, g, iter + 1, out, FALSE)
           acc == IF Dead(t) THEN a ELSE IF newest /\ Full(f) THEN waits ELSE goes
<1>1. /\ GraphOK /\ g \in Paths /\ iter \in Nat /\ a \in Accs(g) /\ Living(f, iter)
      /\ RootsWait(f) /\ x \in Tagged /\ ReadyOf(th[t]) = <<>> /\ f \in FrameStates(g) /\ FrameOK(f, g)
  BY StartsWith
<1>2. /\ Node(t) \notin Enters /\ out \in Outputs(g)
  <2>1. Kind(x.node) = "next_iteration"
    BY DEF PropagateNextIteration, Node
  <2>2. x.node \in DOMAIN graph.kind /\ graph.frame[x.node] = FrameInfo(g)
    BY <1>1, TaggedIs DEF InputFrame
  <2>3. x.node \notin Enters
    BY <1>1, <2>1, <2>2, GraphFacts DEF IsEnter
  <2>4. x.node \in Into(g)
    BY <1>1, <2>1, <2>2, <2>3, NodeInto
  <2> QED
    BY <1>1, <2>3, <2>4, OutputIs DEF Node
<1>3. Decremented(t, DecrementOutstandingOps(acc, g, iter))
  BY DEF PropagateNextIteration
<1>4. a.fs = f
  OBVIOUS
<1>5. waits = [a EXCEPT !.fs = [f EXCEPT !.next_iter_roots = Append(f.next_iter_roots, out)]]
  BY <1>1 DEF FrameStates
<1> HIDE DEF a, f, out, waits, newest
<1>6. /\ f.iteration_count \in Nat /\ f.num_outstanding_iterations \in Nat /\ f.max_parallel_iterations \in Nat
      /\ f.next_iter_roots \in Seq(Outputs(g)) /\ f.num_pending_inputs \in Int
      /\ f.num_outstanding_iterations <= f.max_parallel_iterations
  BY <1>1, FrameFields, PathInfo DEF FrameOK, Window
<1> DEFINE Fine(b) == /\ b \in Accs(g) /\ Lowers(a, b, g, iter, 0, 0)
                      /\ Living(b.fs, iter) /\ RootsWait(b.fs)
                      /\ b.fs.num_pending_inputs = f.num_pending_inputs
<1>7. Fine(a)
  <2>1. Moves(a, a, g)
    BY <1>1, MovesSelf
  <2>2. Lowers(a, a, g, iter, 0, 0)
    BY <1>1, <2>1, MovesLower
  <2> QED
    BY <1>1, <1>4, <2>2
<1>8. ASSUME Full(f) PROVE Fine(waits)
  <2> DEFINE l == Append(f.next_iter_roots, out)
             gs == [f EXCEPT !.next_iter_roots = l]
  <2>1. l \in Seq(Outputs(g))
    BY <1>2, <1>6
  <2> HIDE DEF l
  <2>2. /\ gs \in FrameStates(g) /\ gs.iterations = f.iterations /\ gs.iteration_count = f.iteration_count
        /\ gs.num_outstanding_iterations = f.num_outstanding_iterations
        /\ gs.max_parallel_iterations = f.max_parallel_iterations
        /\ gs.num_pending_inputs = f.num_pending_inputs
    BY <1>1, <2>1 DEF FrameStates
  <2>3. waits = [a EXCEPT !.fs = gs]
    BY <1>5 DEF l
  <2> HIDE DEF gs, g, iter
  <2>4. gs.num_pending_inputs <= f.num_pending_inputs
    BY <1>6, <2>2
  <2>5. /\ waits \in Accs(g) /\ waits.fs = gs /\ Lowers(a, waits, g, iter, 0, 0)
        /\ \A i \in Nat : Living(gs, i) <=> Living(f, i)
    BY <1>1, <1>4, <2>2, <2>3, <2>4, SameLowers
  <2>6. RootsWait(gs)
    BY <1>8, <2>2 DEF RootsWait, Full
  <2> QED
    BY <1>1, <2>2, <2>5, <2>6
<1>9. ASSUME ~ (newest /\ Full(f)) PROVE Fine(goes)
  <2>1. /\ base \in Accs(g) /\ Moves(a, base, g) /\ RootsWait(base.fs)
        /\ Living(base.fs, iter) /\ Living(base.fs, iter + 1)
    <3>1. CASE newest
      <4>1. base = IncrementIteration(a, g) /\ iter = f.iteration_count
        BY <3>1 DEF newest
      <4>2. f.num_outstanding_iterations < f.max_parallel_iterations
        BY <1>6, <1>9, <3>1 DEF Full
      <4> HIDE DEF base, g, iter
      <4>3. /\ base \in Accs(g) /\ Moves(a, base, g) /\ base.fs.next_iter_roots = <<>>
            /\ \A j \in Nat : Living(base.fs, j) <=> Living(f, j) \/ j = f.iteration_count + 1
        BY <1>1, <1>4, <4>1, <4>2, IncrementMoves
      <4>4. iter + 1 \in Nat
        BY <1>1
      <4> QED
        BY <1>1, <4>1, <4>3, <4>4 DEF RootsWait
    <3>2. CASE ~ newest
      <4>1. base = a
        BY <3>2
      <4>2. iter \in Oldest(f) .. f.iteration_count
        BY <1>1, LivingIs
      <4> HIDE DEF base, g, iter
      <4>3. iter + 1 \in Nat /\ iter + 1 \in Oldest(f) .. f.iteration_count
        <5>1. Oldest(f) \in Int /\ iter # f.iteration_count /\ iter \in Nat
          BY <1>1, <1>6, <3>2 DEF newest, Oldest
        <5> QED
          BY <1>6, <4>2, <5>1
      <4>4. Living(f, iter + 1)
        BY <1>1, <4>3, LivingIs
      <4> QED
        BY <1>1, <1>4, <4>1, <4>4, MovesSelf
    <3> QED
      BY <3>1, <3>2
  <2> HIDE DEF base, goes, g, iter
  <2>2. goes \in Accs(g) /\ Moves(base, goes, g) /\ Alike(base.fs, goes.fs)
    <3>1. iter + 1 \in Nat
      BY <1>1
    <3> QED
      BY <1>1, <1>2, <2>1, <3>1, NodesMove DEF goes
  <2>3. Moves(a, goes, g)
    BY <1>1, <2>1, <2>2, MovesOn
  <2>4. Lowers(a, goes, g, iter, 0, 0) /\ goes.fs.num_pending_inputs = f.num_pending_inputs
    BY <1>1, <1>4, <2>2, <2>3, MovesLower
  <2>5. Living(goes.fs, iter) /\ RootsWait(goes.fs)
    BY <1>1, <2>1, <2>2 DEF Alike, RootsWait
  <2> QED
    BY <2>2, <2>4, <2>5
<1>10. Fine(acc)
  <2> HIDE DEF Fine, base, goes
  <2> QED
    BY <1>7, <1>8, <1>9
<1> HIDE DEF acc
<1>11. Meanwhile(t, acc)
  BY <1>1, <1>10 DEF Meanwhile, a, f
<1> QED
  BY <1>2, <1>3, <1>11, DecrementedKeeps DEF Propagated

\* PropagateExit keeps the invariant: the parent's iteration is there while the frame is.
LEMMA PropagateExitKeeps ==
    ASSUME Sane, NEW t \in Threads, th[t].pc = "propagate", PropagateExit(t), Propagated(t)
    PROVE  Sane'
<1> DEFINE c == InputFrame(t)
           g == ParentFrame(c)
           iter == ParentIter(c)
           x == th[t].tagged_node
           f == frames[g]
           a == [fs |-> f, ready |-> <<>>]
           acc == ActivateNodes([Locked(t, g) EXCEPT !.ready = <<>>], g, iter, Output(x), FALSE)
           r == [th[t] EXCEPT !.ready = acc.ready, !.pc = "decrement"]
<1>0. /\ GraphOK /\ Typed /\ SubCover /\ th[t] \in ThreadStates /\ ThreadOK(th[t], status)
  BY SaneParts
<1>1. /\ c \in Paths /\ c \in DOMAIN frames /\ x \in Tagged /\ ReadyOf(th[t]) = <<>> /\ ~ th[t].failed
  BY StartsWith
<1>2. /\ c # <<>> /\ Node(t) \notin Enters /\ Output(x) \in Outputs(g)
  <2>1. Kind(x.node) = "exit"
    BY DEF PropagateExit, Node
  <2>2. x.node \in DOMAIN graph.kind /\ graph.frame[x.node] = FrameInfo(c)
    BY <1>1, TaggedIs DEF InputFrame
  <2>3. x.node \notin Enters
    BY <1>0, <2>1, <2>2, GraphFacts DEF IsEnter
  <2>4. c # <<>>
    BY <1>0, <1>1, <2>1, <2>2, NodeInto
  <2>5. x.node \in Into(g)
    BY <1>0, <1>1, <2>1, <2>2, <2>4, PathParent
  <2> QED
    BY <1>1, <2>3, <2>4, <2>5, OutputIs DEF Node
<1>3. /\ g \in DOMAIN frames /\ iter \in Nat /\ Living(f, iter) /\ ~ IsFrameDone(f)
  <2> HIDE DEF c
  <2> QED
    BY <1>0, <1>1, <1>2, ParentIsThere
<1>4. g \in Paths /\ FrameOK(f, g) /\ RootsWait(f)
  BY <1>0, <1>3, TypedParts
<1>5. a \in Accs(g) /\ a.fs = f /\ a.ready = <<>>
  <2>1. <<>> \in Seq(Tagged)
    OBVIOUS
  <2> QED
    BY <1>4, <2>1 DEF Accs, FrameOK
<1>6. acc = ActivateNodes(a, g, iter, Output(x), FALSE)
  <2>1. [Locked(t, g) EXCEPT !.ready = <<>>] = a
    BY DEF Locked
  <2> QED
    BY <2>1
<1>7. frames' = [frames EXCEPT ![g] = acc.fs] /\ th' = [th EXCEPT ![t] = r]
  BY DEF PropagateExit
<1> HIDE DEF acc, a, f, g, iter
<1>8. acc \in Accs(g) /\ Moves(a, acc, g) /\ Alike(f, acc.fs)
  <2> HIDE DEF x
  <2> QED
    BY <1>0, <1>2, <1>3, <1>4, <1>5, <1>6, NodesMove
<1>9. Lowers(a, acc, g, iter, 0, 0) /\ acc.fs.num_pending_inputs = f.num_pending_inputs
  BY <1>0, <1>4, <1>5, <1>8, MovesLower
<1>10. RootsWait(acc.fs) /\ acc.ready \in Seq(Tagged)
  BY <1>4, <1>8 DEF Alike, RootsWait, Accs
<1>11. /\ r \in ThreadStates /\ r.pc = "decrement" /\ r.ready = acc.ready
       /\ r.inline_ready = th[t].inline_ready /\ r.tagged_node = th[t].tagged_node
       /\ r.failed = th[t].failed /\ r.callback = th[t].callback
  BY <1>0, <1>10 DEF ThreadStates, Places, Counted
<1> HIDE DEF r
<1>12. /\ ~ Leaving(t, r, InFrame) /\ Ended(t, r) = 0 /\ Leaving(t, r, Entering)
       /\ \A places \in {InFrame, Entering} : r.pc \in places => th[t].pc \in places
  BY <1>11 DEF Leaving, Ended, InFrame, Entering
<1>13. ReadyOf(r) = acc.ready
  BY <1>1, <1>11, ReadyAt
<1>14. Puts(t, r, g, acc, iter, 0)
  <2>1. Lowers([fs |-> frames[g], ready |-> ReadyOf(th[t])], acc, g, iter, Ended(t, r), 0)
    BY <1>1, <1>9, <1>12 DEF a, f
  <2> QED
    BY <1>1, <1>3, <1>7, <1>8, <1>10, <1>11, <1>12, <1>13, <2>1 DEF Puts, Propagated
<1>15. InputsCount'
  BY <1>2, <1>9, <1>14, PutsInputs DEF Propagated, f
<1>16. ThreadOK(r, status)
  <2>1. th[t].callback => th[t].inline_ready = <<>>
    BY <1>0 DEF ThreadOK
  <2> QED
    BY <1>1, <1>11, <2>1 DEF ThreadOK, Counted
<1> QED
  BY <1>3, <1>11, <1>14, <1>15, <1>16, PutsKeep DEF f

\* Propagate keeps the invariant.
LEMMA PropagateKeeps ==
    ASSUME Sane, NEW t \in Threads, Propagate(t)
    PROVE  Sane'
<1>1. th[t].pc = "propagate" /\ Propagated(t)
  BY DEF Propagate, At, Propagated, Fire, run
<1>2. PropagateNode(t) \/ PropagateDeadExit(t) \/ PropagateExit(t) \/ PropagateNextIteration(t)
  BY DEF Propagate
<1> QED
  BY <1>1, <1>2, PropagateNodeKeeps, PropagateDeadExitKeeps, PropagateExitKeeps, PropagateNextIterationKeeps

\* DeleteFrame keeps the invariant.
LEMMA DeleteFrameKeeps ==
    ASSUME Sane, NEW t \in Threads, DeleteFrame(t), th[t].frame # <<>>
    PROVE  Sane'
<1> DEFINE c == th[t].frame
           g == ParentFrame(c)
           iter == ParentIter(c)
           f == frames[g]
           a == [fs |-> f, ready |-> th[t].ready]
           exits == frames[c].dead_exits
           outs == [k \in DOMAIN exits |-> [node |-> exits[k], iter |-> 0, live |-> {}]]
           acc == DeadExits(t, g)
           r == [th[t] EXCEPT !.ready = acc.ready, !.pc = "erase_frame"]
<1>0. /\ GraphOK /\ Typed /\ DeletersOK /\ SubCover /\ InputsCount
      /\ th[t] \in ThreadStates /\ ThreadOK(th[t], status)
  BY SaneParts
<1>1. /\ th[t].pc = "delete_frame" /\ frames' = [frames EXCEPT ![g] = acc.fs] /\ th' = [th EXCEPT ![t] = r]
      /\ closed' = closed \union {c} /\ fired' = fired
      /\ graph' = graph /\ inter_threadpool' = inter_threadpool
      /\ pool' = pool /\ asyncs' = asyncs /\ status' = status /\ aborted' = aborted
  BY DEF DeleteFrame, At, run
<1>2. /\ c \in DOMAIN frames /\ IsFrameDone(frames[c])
  BY <1>0, <1>1 DEF DeletersOK, Deleting
<1>3. c \in Paths /\ c # <<>> /\ frames[c] \in FrameStates(c)
  BY <1>0, <1>2, TypedParts DEF FrameOK
<1>4. th[t].tagged_node \in Tagged /\ ~ th[t].failed /\ ReadyOf(th[t]) = th[t].ready /\ th[t].ready \in Seq(Tagged)
  <2>1. th[t].tagged_node \in Tagged /\ ~ th[t].failed
    BY <1>0, <1>1 DEF ThreadOK, Counted
  <2> QED
    BY <1>0, <1>1, <2>1, ReadyAt DEF ThreadStates
<1>5. /\ g \in DOMAIN frames /\ iter \in Nat /\ Living(f, iter) /\ ~ IsFrameDone(f)
  <2> HIDE DEF c
  <2> QED
    BY <1>0, <1>2, <1>3, ParentIsThere
<1>6. g \in Paths /\ FrameOK(f, g) /\ RootsWait(f)
  BY <1>0, <1>5, TypedParts
<1>7. a \in Accs(g) /\ a.fs = f /\ a.ready = th[t].ready
  BY <1>4, <1>6 DEF Accs, FrameOK
<1>8. outs \in Seq(Outputs(g))
  <2>1. exits \in Seq(Exits(c))
    BY <1>3, FrameFields
  <2>2. ASSUME NEW n \in Exits(c) PROVE [node |-> n, iter |-> 0, live |-> {}] \in Outputs(g)
    <3>1. n \in DOMAIN graph.kind /\ Kind(n) = "exit" /\ graph.frame[n] = FrameInfo(c)
      BY DEF Exits, NodesOf
    <3>2. n \in Into(g)
      BY <1>0, <1>3, <3>1, PathParent
    <3> QED
      BY <3>2 DEF Outputs
  <2> HIDE DEF exits, g, c
  <2>3. DOMAIN exits = 1 .. Len(exits) /\ Len(exits) \in Nat /\ \A k \in DOMAIN exits : exits[k] \in Exits(c)
    BY <2>1, SeqOf
  <2>4. \A k \in 1 .. Len(exits) : outs[k] \in Outputs(g)
    BY <2>2, <2>3
  <2>5. outs = [k \in 1 .. Len(exits) |-> outs[k]]
    BY <2>3
  <2> HIDE DEF outs
  <2> QED
    BY <2>3, <2>4, <2>5
<1>9. acc = ActivateAll(a, g, iter, outs)
  BY DEF DeadExits, Locked
<1> HIDE DEF acc, a, f, outs, g, iter
<1>10. acc \in Accs(g) /\ Moves(a, acc, g) /\ Alike(f, acc.fs)
  BY <1>0, <1>5, <1>6, <1>7, <1>8, <1>9, AllMove
<1>11. Lowers(a, acc, g, iter, 0, 0) /\ acc.fs.num_pending_inputs = f.num_pending_inputs
  BY <1>0, <1>6, <1>7, <1>10, MovesLower
<1>12. RootsWait(acc.fs) /\ acc.ready \in Seq(Tagged)
  BY <1>6, <1>10 DEF Alike, RootsWait, Accs
<1>13. /\ r \in ThreadStates /\ r.pc = "erase_frame" /\ r.ready = acc.ready /\ r.frame = th[t].frame
       /\ r.inline_ready = th[t].inline_ready /\ r.tagged_node = th[t].tagged_node
       /\ r.failed = th[t].failed /\ r.callback = th[t].callback
  BY <1>0, <1>12 DEF ThreadStates, Places, Counted
<1> HIDE DEF r
<1>14. /\ ~ Leaving(t, r, InFrame) /\ Ended(t, r) = 0 /\ ~ Leaving(t, r, Entering)
       /\ \A places \in {InFrame, Entering} : r.pc \in places => th[t].pc \in places
  BY <1>1, <1>13 DEF Leaving, Ended, InFrame, Entering
<1>15. ReadyOf(r) = acc.ready
  BY <1>4, <1>13, ReadyAt
<1>16. Puts(t, r, g, acc, iter, 0)
  <2>1. Lowers([fs |-> frames[g], ready |-> ReadyOf(th[t])], acc, g, iter, Ended(t, r), 0)
    BY <1>4, <1>11, <1>14 DEF a, f
  <2> QED
    BY <1>1, <1>4, <1>5, <1>10, <1>12, <1>13, <1>14, <1>15, <2>1 DEF Puts
<1>17. Unfired(c) = {}
  <2>1. frames[c].num_pending_inputs = Cardinality(Unfired(c))
    BY <1>0, <1>2 DEF InputsCount
  <2>2. Cardinality(Unfired(c)) = 0
    BY <1>2, <2>1 DEF IsFrameDone
  <2> QED
    BY <1>0, <2>2, UnfiredIs
<1>18. InputsCount'
  <2>1. \A d \in closed' : d \in closed \/ d = <<>> \/ Unfired(d) = {}
    BY <1>1, <1>17
  <2> QED
    BY <1>11, <1>14, <1>16, <2>1, PutsInputs DEF f
<1>19. ThreadOK(r, status)
  <2>1. th[t].callback => th[t].inline_ready = <<>>
    BY <1>0 DEF ThreadOK
  <2> QED
    BY <1>4, <1>13, <2>1 DEF ThreadOK, Counted
<1> QED
  BY <1>1, <1>5, <1>13, <1>16, <1>18, <1>19, PutsKeep DEF f

\* An Enter that fires is one less that its frame waits for.
LEMMA FiresEnter ==
    ASSUME GraphOK, Typed, InputsCount, NEW x \in Tagged, x.node \in Enters, ~ HasFired(x.node, x.frame, x.iter),
           graph' = graph, fired' = fired \union {x}, closed' = closed, DOMAIN frames' = DOMAIN frames,
           NEW c \in DOMAIN frames, c = MakeFrameName(x.frame, x.iter, graph.enters[x.node]), c # <<>>,
           x.node \in Unfired(c),
           frames'[c].num_pending_inputs = frames[c].num_pending_inputs - 1,
           \A d \in DOMAIN frames : d # c => frames'[d].num_pending_inputs = frames[d].num_pending_inputs
    PROVE  InputsCount'
<1>1. Enters' = Enters
  BY SameGraph
<1>2. ASSUME NEW n, NEW f, NEW i
      PROVE  HasFired(n, f, i)' <=> HasFired(n, f, i) \/ (n = x.node /\ f = x.frame /\ i = x.iter)
  BY DEF HasFired
<1>3. \A d : Unfired(d)' \in SUBSET Unfired(d)
  BY <1>1, <1>2 DEF Unfired
<1>4. ASSUME NEW d \in DOMAIN frames, d # c, d # <<>> PROVE Unfired(d)' = Unfired(d)
  <2>1. d \in Paths
    BY TypedParts
  <2>2. ~ (graph.enters[x.node] = FrameInfo(d) /\ x.frame = ParentFrame(d) /\ x.iter = ParentIter(d))
    BY <1>4, <2>1, PathParent
  <2> QED
    BY <1>1, <1>2, <2>2 DEF Unfired
<1>5. Cardinality(Unfired(c)') = Cardinality(Unfired(c)) - 1
  <2>1. graph.enters[x.node] = FrameInfo(c) /\ x.frame = ParentFrame(c) /\ x.iter = ParentIter(c)
    <3>1. x.frame \in Paths /\ x.iter \in Nat /\ graph.frame[x.node] = FrameInfo(x.frame)
      BY TaggedIs
    <3> QED
      BY <3>1, PathChild
  <2>2. Unfired(c)' = Unfired(c) \ {x.node}
    <3>1. ASSUME NEW n PROVE n \in Unfired(c)' <=> n \in Unfired(c) /\ n # x.node
      <4>1. HasFired(n, ParentFrame(c), ParentIter(c))' <=>
               HasFired(n, ParentFrame(c), ParentIter(c)) \/ n = x.node
        BY <1>2, <2>1
      <4>2. Unfired(c)' = {m \in Enters : /\ graph.enters[m] = FrameInfo(c)
                                         /\ ~ HasFired(m, ParentFrame(c), ParentIter(c))'}
        BY <1>1, Zenon DEF Unfired
      <4> QED
        BY <4>1, <4>2 DEF Unfired
    <3> QED
      BY <3>1
  <2>3. IsFiniteSet(Unfired(c))
    BY UnfiredIs
  <2> QED
    BY <2>2, <2>3, FS_RemoveElement
<1>6. \A d \in DOMAIN frames' : frames'[d].num_pending_inputs = IF d = <<>> THEN 0 ELSE Cardinality(Unfired(d)')
  <2> TAKE d \in DOMAIN frames'
  <2>1. frames[d].num_pending_inputs = IF d = <<>> THEN 0 ELSE Cardinality(Unfired(d))
    BY DEF InputsCount
  <2>2. CASE d = c
    BY <1>5, <2>1, <2>2
  <2>3. CASE d # c
    BY <1>4, <2>1, <2>3
  <2> QED
    BY <2>2, <2>3
<1>7. \A d \in closed' \ {<<>>} : Unfired(d)' = {}
  BY <1>3 DEF InputsCount
<1>8. \A y \in fired' : y.node \in Enters' =>
          MakeFrameName(y.frame, y.iter, graph'.enters[y.node]) \in DOMAIN frames' \union closed'
  BY <1>1 DEF InputsCount
<1> QED
  BY <1>6, <1>7, <1>8 DEF InputsCount

\* PropagateEnter keeps the invariant: the frame is there, and waits for one Enter less.
LEMMA PropagateEnterKeeps ==
    ASSUME Sane, NEW t \in Threads, PropagateEnter(t)
    PROVE  Sane'
<1> DEFINE g == Child(t)
           x == th[t].tagged_node
           f == frames[g]
           out == Output(x)
           a == [fs |-> f, ready |-> <<>>]
           acc == IF Kind(Node(t)) = "const_enter" THEN AddLoopInv(a, g, out)
                  ELSE ActivateNodes(a, g, 0, out, Dead(t))
           gs == [acc.fs EXCEPT !.num_pending_inputs = @ - 1]
           b == [acc EXCEPT !.fs = gs]
           r == [th[t] EXCEPT !.ready = acc.ready, !.pc = "decrement"]
<1>0. /\ GraphOK /\ Typed /\ ThreadsOK /\ DeletersOK /\ OpsCover /\ EnterOnce /\ InputsCount
      /\ th[t] \in ThreadStates /\ ThreadOK(th[t], status)
  BY SaneParts
<1>1. /\ th[t].pc = "enter" /\ frames' = [frames EXCEPT ![g] = gs] /\ th' = [th EXCEPT ![t] = r]
      /\ graph' = graph /\ inter_threadpool' = inter_threadpool
      /\ pool' = pool /\ asyncs' = asyncs /\ status' = status /\ aborted' = aborted /\ closed' = closed
      /\ fired' = fired \union {x}
  BY DEF PropagateEnter, At, run, Fire
<1>2. /\ x \in Tagged /\ x.node \in Enters /\ ~ th[t].failed /\ ReadyOf(th[t]) = <<>>
  <2>1. x \in Tagged /\ x.node \in Enters /\ ~ th[t].failed
    BY <1>0, <1>1 DEF ThreadOK, Counted
  <2> QED
    BY <1>1, <2>1, ReadyAt DEF Entering
<1>3. g \in DOMAIN frames
  BY <1>0, <1>1 DEF DeletersOK, At
<1>4. /\ ~ HasFired(x.node, x.frame, x.iter) /\ g \in Paths /\ g # <<>>
      /\ x.node \in Unfired(g) /\ x.node \in Into(g)
      /\ f.num_pending_inputs > 0 /\ Living(f, 0) /\ ~ IsFrameDone(f)
  <2>1. th[t].pc \in Entering /\ Node(t) \in Enters
    BY <1>1, <1>2 DEF Entering, Node
  <2> HIDE DEF x
  <2> QED
    BY <1>0, <1>3, <2>1, EnteringOnce DEF x, Node, InputFrame, InputIter
<1>5. FrameOK(f, g) /\ RootsWait(f) /\ out \in Outputs(g) /\ f.num_pending_inputs \in Int
  <2>1. FrameOK(f, g) /\ RootsWait(f)
    BY <1>0, <1>3, TypedParts
  <2>2. f.num_pending_inputs \in Int
    BY <2>1, FrameFields DEF FrameOK
  <2> QED
    BY <1>2, <1>4, <2>1, <2>2, OutputIs
<1>6. a \in Accs(g) /\ a.fs = f /\ a.ready = <<>>
  <2>1. <<>> \in Seq(Tagged)
    OBVIOUS
  <2> QED
    BY <1>5, <2>1 DEF Accs, FrameOK
<1>7. g = MakeFrameName(x.frame, x.iter, graph.enters[x.node])
  BY DEF Child, InputFrame, InputIter, Node
<1> HIDE DEF a, f, out, g
<1>8. acc \in Accs(g) /\ Moves(a, acc, g) /\ RootsWait(acc.fs)
  <2> HIDE DEF x
  <2>1. CASE Kind(Node(t)) = "const_enter"
    <3>1. acc = AddLoopInv(a, g, out)
      BY <2>1
    <3> HIDE DEF acc
    <3> QED
      BY <1>0, <1>4, <1>5, <1>6, <3>1, LoopInvMoves
  <2>2. CASE Kind(Node(t)) # "const_enter"
    <3>1. acc = ActivateNodes(a, g, 0, out, Dead(t))
      BY <2>2
    <3> HIDE DEF acc
    <3>2. acc \in Accs(g) /\ Moves(a, acc, g) /\ Alike(f, acc.fs)
      BY <1>0, <1>4, <1>5, <1>6, <3>1, NodesMove
    <3> QED
      BY <1>5, <3>2 DEF Alike, RootsWait
  <2> QED
    BY <2>1, <2>2
<1> HIDE DEF acc
<1>9. Lowers(a, acc, g, 0, 0, 0) /\ acc.fs.num_pending_inputs = f.num_pending_inputs
  BY <1>0, <1>4, <1>6, <1>8, MovesLower
<1>10. acc.fs \in FrameStates(g) /\ acc.ready \in Seq(Tagged)
  BY <1>8 DEF Accs
<1>11. /\ gs \in FrameStates(g) /\ gs.iterations = acc.fs.iterations /\ gs.iteration_count = acc.fs.iteration_count
       /\ gs.num_outstanding_iterations = acc.fs.num_outstanding_iterations
       /\ gs.max_parallel_iterations = acc.fs.max_parallel_iterations
       /\ gs.num_pending_inputs = f.num_pending_inputs - 1 /\ gs.next_iter_roots = acc.fs.next_iter_roots
       /\ gs.num_pending_inputs <= acc.fs.num_pending_inputs
  <2> DEFINE h == acc.fs
             n == h.num_pending_inputs - 1
  <2>1. h \in FrameStates(g) /\ h.num_pending_inputs = f.num_pending_inputs
    BY <1>9, <1>10
  <2>2. gs = [h EXCEPT !.num_pending_inputs = n]
    OBVIOUS
  <2> HIDE DEF h, gs
  <2>3. n \in Int /\ n <= h.num_pending_inputs /\ n = f.num_pending_inputs - 1
    BY <1>5, <2>1
  <2> HIDE DEF n
  <2>4. /\ gs \in FrameStates(g) /\ gs.iterations = h.iterations /\ gs.iteration_count = h.iteration_count
        /\ gs.num_outstanding_iterations = h.num_outstanding_iterations
        /\ gs.max_parallel_iterations = h.max_parallel_iterations
        /\ gs.num_pending_inputs = n /\ gs.next_iter_roots = h.next_iter_roots
    BY <2>1, <2>2, <2>3 DEF FrameStates
  <2> QED
    BY <2>3, <2>4 DEF h
<1> HIDE DEF gs
<1>12. b \in Accs(g) /\ b.fs = gs /\ b.ready = acc.ready /\ Lowers(acc, b, g, 0, 0, 0)
  BY <1>0, <1>4, <1>8, <1>11, SameLowers
<1> HIDE DEF b
<1>13. Lowers(a, b, g, 0, 0, 0)
  <2>1. Lowers(a, b, g, 0, 0 + 0, 0 + 0)
    BY <1>0, <1>4, <1>6, <1>8, <1>9, <1>12, LowersOn
  <2> QED
    BY <2>1
<1>14. RootsWait(b.fs)
  BY <1>8, <1>11, <1>12 DEF RootsWait
<1>15. /\ r \in ThreadStates /\ r.pc = "decrement" /\ r.ready = acc.ready
       /\ r.inline_ready = th[t].inline_ready /\ r.tagged_node = x
       /\ r.failed = th[t].failed /\ r.callback = th[t].callback
  BY <1>0, <1>10 DEF ThreadStates, Places, Counted
<1> HIDE DEF r
<1>16. /\ ~ Leaving(t, r, InFrame) /\ Ended(t, r) = 0 /\ Leaving(t, r, Entering)
       /\ \A places \in {InFrame, Entering} : r.pc \in places => th[t].pc \in places
  BY <1>1, <1>15 DEF Leaving, Ended, InFrame, Entering
<1>17. ReadyOf(r) = b.ready
  BY <1>2, <1>12, <1>15, ReadyAt
<1>18. Puts(t, r, g, b, 0, 0)
  <2>1. Lowers([fs |-> frames[g], ready |-> ReadyOf(th[t])], b, g, 0, Ended(t, r), 0)
    BY <1>2, <1>13, <1>16 DEF a, f
  <2> QED
    BY <1>1, <1>2, <1>3, <1>12, <1>14, <1>15, <1>16, <1>17, <2>1 DEF Puts
<1>19. InputsCount'
  <2>1. /\ DOMAIN frames' = DOMAIN frames /\ frames'[g] = b.fs
        /\ \A d \in DOMAIN frames : d # g => frames'[d] = frames[d]
    BY <1>0, <1>18, PutsSection
  <2>2. frames'[g].num_pending_inputs = frames[g].num_pending_inputs - 1
    BY <1>11, <1>12, <2>1 DEF f
  <2> HIDE DEF x
  <2> QED
    BY <1>0, <1>1, <1>2, <1>3, <1>4, <1>7, <2>1, <2>2, FiresEnter
<1>20. ThreadOK(r, status)
  <2>1. th[t].callback => th[t].inline_ready = <<>>
    BY <1>0 DEF ThreadOK
  <2> QED
    BY <1>2, <1>15, <2>1 DEF ThreadOK, Counted
<1> QED
  BY <1>1, <1>4, <1>15, <1>18, <1>19, <1>20, PutsKeep DEF f

\* The end of a frame that was entered from an iteration.
LEMMA CleanupKeeps ==
    ASSUME Sane, NEW t \in Threads, CleanupFramesIterations(t)
    PROVE  Sane'
<1> DEFINE c == th[t].frame
           g == ParentFrame(c)
           iter == ParentIter(c)
           f == frames[g]
           a == [fs |-> f, ready |-> th[t].ready]
           fs == SetIteration(f, iter, [GetIteration(f, iter) EXCEPT !.outstanding_frame_count = @ - 1])
           b == CleanupIterations([fs |-> fs, ready |-> th[t].ready], g, iter)
           pc == IF IsFrameDone(b.fs) THEN "delete_frame" ELSE "node_done"
           r == [th[t] EXCEPT !.ready = b.ready, !.frame = g, !.pc = pc]
<1>0. /\ GraphOK /\ Typed /\ ThreadsOK /\ DeletersOK /\ OpsCover /\ SubCover /\ EnterOnce /\ InputsCount
      /\ th[t] \in ThreadStates /\ ThreadOK(th[t], status)
  BY SaneParts
<1>1. /\ th[t].pc = "cleanup" /\ frames' = [frames EXCEPT ![g] = b.fs] /\ th' = [th EXCEPT ![t] = r]
      /\ closed' = closed /\ fired' = fired
      /\ graph' = graph /\ inter_threadpool' = inter_threadpool
      /\ pool' = pool /\ asyncs' = asyncs /\ status' = status /\ aborted' = aborted
  <2>1. /\ th[t].pc = "cleanup"
        /\ closed' = closed /\ fired' = fired
        /\ graph' = graph /\ inter_threadpool' = inter_threadpool
        /\ pool' = pool /\ asyncs' = asyncs /\ status' = status /\ aborted' = aborted
    BY DEF CleanupFramesIterations, At, run, history
  <2>2. frames' = [frames EXCEPT ![g] = b.fs]
    BY DEF CleanupFramesIterations
  <2>3. th' = [th EXCEPT ![t].ready = b.ready, ![t].frame = g, ![t].pc = pc]
    BY DEF CleanupFramesIterations
  <2> HIDE DEF b, g, pc
  <2> QED
    BY <2>1, <2>2, <2>3, <1>0
<1>2. c \in Paths /\ c # <<>>
  BY <1>0, <1>1 DEF DeletersOK, At, ThreadStates
<1>3. th[t].tagged_node \in Tagged /\ ~ th[t].failed /\ ReadyOf(th[t]) = th[t].ready /\ th[t].ready \in Seq(Tagged)
  <2>1. th[t].tagged_node \in Tagged /\ ~ th[t].failed
    BY <1>0, <1>1 DEF ThreadOK, Counted
  <2> QED
    BY <1>0, <1>1, <2>1, ReadyAt DEF ThreadStates
<1>4. /\ g \in DOMAIN frames /\ iter \in Nat /\ Living(f, iter) /\ ~ IsFrameDone(f)
  <2>1. \E u \in Threads : At(u, "cleanup") /\ th[u].frame = c
    BY <1>1 DEF At
  <2> HIDE DEF c
  <2> QED
    BY <1>0, <1>2, <2>1, ParentIsThere
<1>5. g \in Paths /\ FrameOK(f, g) /\ RootsWait(f)
  BY <1>0, <1>4, TypedParts
<1>6. a \in Accs(g) /\ a.fs = f /\ a.ready = th[t].ready
  BY <1>3, <1>5 DEF Accs, FrameOK
<1>7. b = CleanupIterations([a EXCEPT !.fs = fs], g, iter)
  <2>1. [a EXCEPT !.fs = fs] = [fs |-> fs, ready |-> th[t].ready]
    OBVIOUS
  <2> QED
    BY <2>1
<1> HIDE DEF b, a, f, g, iter
<1>8. /\ b \in Accs(g) /\ Lowers(a, b, g, iter, 0, 1)
      /\ b.fs.num_pending_inputs = f.num_pending_inputs /\ RootsWait(b.fs)
  BY <1>0, <1>4, <1>5, <1>6, <1>7, CleanupLowers
<1>9. b.ready \in Seq(Tagged) /\ pc \in {"delete_frame", "node_done"} /\ (pc = "delete_frame" => IsFrameDone(b.fs))
  BY <1>8 DEF Accs
<1>10. /\ r \in ThreadStates /\ r.pc = pc /\ r.ready = b.ready /\ r.frame = g
       /\ r.inline_ready = th[t].inline_ready /\ r.tagged_node = th[t].tagged_node
       /\ r.failed = th[t].failed /\ r.callback = th[t].callback
  BY <1>0, <1>5, <1>9 DEF ThreadStates, Places, Counted
<1> HIDE DEF r, pc
<1>11. /\ ~ Leaving(t, r, InFrame) /\ Ended(t, r) = 0 /\ ~ Leaving(t, r, Entering)
       /\ \A places \in {InFrame, Entering} : r.pc \in places => th[t].pc \in places
  BY <1>1, <1>9, <1>10 DEF Leaving, Ended, InFrame, Entering
<1>12. ReadyOf(r) = b.ready
  BY <1>3, <1>9, <1>10, ReadyAt
<1>13. Puts(t, r, g, b, iter, 1)
  <2>1. Lowers([fs |-> frames[g], ready |-> ReadyOf(th[t])], b, g, iter, Ended(t, r), 1)
    BY <1>3, <1>8, <1>11 DEF a, f
  <2> QED
    BY <1>1, <1>3, <1>4, <1>8, <1>10, <1>11, <1>12, <2>1 DEF Puts
<1>14. Section(t, r, g, b, iter, 1) /\ DOMAIN frames' = DOMAIN frames
  BY <1>0, <1>13, PutsSection
<1>15. ThreadMoves(t, r)
  BY <1>14 DEF Section
<1>16. SubCover'
  <2>1. ASSUME NEW h \in Paths, NEW i \in Nat
        PROVE  Cardinality(Kids(h, i)') + Cardinality(Told(h, i)') <=
                  Cardinality(Kids(h, i)) + Cardinality(Told(h, i)) - (IF h = g /\ i = iter THEN 1 ELSE 0)
    <3>1. Kids(h, i)' = Kids(h, i)
      BY <1>14 DEF Kids
    <3>2. th'[t] = r /\ \A u \in Threads : u # t => th'[u] = th[u]
      BY <1>0, <1>1, TypedParts
    <3>3. Told(h, i)' = Told(h, i) \ {t}
      BY <1>9, <1>10, <3>2 DEF Told, At
    <3>4. t \in Told(h, i) <=> h = g /\ i = iter
      BY <1>1 DEF Told, At, g, iter
    <3>5. /\ IsFiniteSet(Told(h, i)) /\ Cardinality(Told(h, i)) \in Nat /\ Cardinality(Kids(h, i)) \in Nat
      BY <1>0, KidsFinite
    <3>6. Cardinality(Told(h, i)') = Cardinality(Told(h, i)) - (IF h = g /\ i = iter THEN 1 ELSE 0)
      <4>1. CASE t \in Told(h, i)
        BY <3>3, <3>4, <3>5, <4>1, FS_RemoveElement
      <4>2. CASE t \notin Told(h, i)
        <5>1. Told(h, i)' = Told(h, i)
          BY <3>3, <4>2
        <5>2. ~ (h = g /\ i = iter)
          BY <3>4, <4>2
        <5> QED
          BY <3>5, <5>1, <5>2
      <4> QED
        BY <4>1, <4>2
    <3> QED
      BY <3>1, <3>5, <3>6
  <2> QED
    BY <1>0, <1>14, <2>1, SectionSub
<1>17. InputsCount'
  BY <1>8, <1>11, <1>13, <1>1, PutsInputs DEF f
<1>18. ThreadOK(r, status)
  <2>1. th[t].callback => th[t].inline_ready = <<>>
    BY <1>0 DEF ThreadOK
  <2> QED
    BY <1>3, <1>9, <1>10, <2>1 DEF ThreadOK, Counted
<1>19. GraphOK' /\ Typed' /\ ThreadsOK' /\ OpsCover' /\ EnterOnce'
  <2>1. GraphOK'
    BY <1>0, <1>1, SameGraph
  <2>2. Typed'
    BY <1>0, <1>14, SectionTyped
  <2>3. ThreadsOK'
    BY <1>0, <1>1, <1>15, <1>18, ThreadsKept
  <2>4. OpsCover'
    BY <1>0, <1>14, SectionOps
  <2>5. EnterOnce'
    BY <1>0, <1>14, SectionEnter
  <2> QED
    BY <2>1, <2>2, <2>3, <2>4, <2>5
<1>20. DeletersOK'
  BY <1>0, <1>4, <1>9, <1>10, <1>14, SectionDeleters DEF f
<1> QED
  BY <1>16, <1>17, <1>19, <1>20 DEF Sane

-----------------------------------------------------------------------------
(* Frames that begin.                                                      *)

\* A new frame has one iteration and nothing in it.
LEMMA FreshFrame ==
    ASSUME GraphOK, NEW c \in Paths
    PROVE  LET fs == FrameState(FrameInfo(c), Parallel(c))
           IN  /\ FrameOK(fs, c) /\ RootsWait(fs) /\ ~ IsFrameDone(fs)
               /\ fs.num_pending_inputs = IF c = <<>> THEN 0 ELSE graph.input_count[FrameInfo(c)]
               /\ GetIteration(fs, 0) = IterationState(FrameInfo(c), 0)
               /\ \A i \in Nat : Living(fs, i) <=> i = 0
               /\ \A i \in Nat : OpsIn(fs, i) = 0 /\ SubIn(fs, i) = 0
<1> DEFINE name == FrameInfo(c)
           max == Parallel(c)
           is == IterationState(name, 0)
           its == [k \in 0 .. max |-> IF k = 0 THEN is ELSE NoIteration]
           inputs == IF name = Root THEN 0 ELSE graph.input_count[name]
           fs == FrameState(name, max)
<1>1. max \in Nat \ {0} /\ (name = Root <=> c = <<>>) /\ (c # <<>> => name \in Names)
  BY PathInfo
<1>2. /\ is \in Iterations(c) /\ is.iter = 0 /\ is.outstanding_ops = 0 /\ is.outstanding_frame_count = 0
      /\ NoIteration.iter = -1 /\ is # NoIteration
  <2>1. is \in Iterations(c) /\ is.iter = 0 /\ is.outstanding_ops = 0 /\ is.outstanding_frame_count = 0
    BY StateIs
  <2> HIDE DEF is
  <2> QED
    BY <2>1, IterationFields DEF NoIteration
<1>3. inputs \in Int
  <2>1. CASE name = Root
    BY <2>1
  <2>2. CASE name # Root
    <3>1. name \in Names /\ graph.input_count[name] = Cardinality({n \in Enters : graph.enters[n] = name})
      BY <1>1, <2>2 DEF GraphOK
    <3>2. IsFiniteSet({n \in Enters : graph.enters[n] = name})
      BY GraphFacts, FS_Subset
    <3> QED
      BY <2>2, <3>1, <3>2, FS_CardinalityType
  <2> QED
    BY <2>1, <2>2
<1>4. fs = [max_parallel_iterations |-> max, num_pending_inputs |-> inputs,
            iteration_count |-> 0, num_outstanding_iterations |-> 1, iterations |-> its,
            next_iter_roots |-> <<>>, inv_values |-> <<>>, dead_exits |-> <<>>]
  BY DEF FrameState
<1> HIDE DEF is
<1>5. its \in [0 .. max -> Iterations(c) \union {NoIteration}] /\ its[0] = is
      /\ \A k \in 0 .. max : k # 0 => its[k] = NoIteration
  BY <1>1, <1>2
<1> HIDE DEF its, inputs, fs
<1>6. /\ fs \in FrameStates(c) /\ fs.max_parallel_iterations = max /\ fs.num_pending_inputs = inputs
      /\ fs.iteration_count = 0 /\ fs.num_outstanding_iterations = 1 /\ fs.iterations = its
      /\ fs.next_iter_roots = <<>>
  <2>1. <<>> \in Seq(Exits(c)) /\ <<>> \in Seq(Outputs(c))
    OBVIOUS
  <2> QED
    BY <1>3, <1>4, <1>5, <2>1 DEF FrameStates
<1>7. Slot(fs, 0) = 0 /\ Oldest(fs) = 0 /\ GetIteration(fs, 0) = is /\ Living(fs, 0)
  <2>1. 0 % (max + 1) = 0
    BY <1>1
  <2>2. Slot(fs, 0) = 0
    BY <1>6, <2>1 DEF Slot
  <2>3. Oldest(fs) = 0
    BY <1>6 DEF Oldest
  <2> QED
    BY <1>2, <1>5, <1>6, <2>2, <2>3 DEF GetIteration, Living
<1>8. Window(fs)
  <2>1. \A i \in Oldest(fs) .. fs.iteration_count : i = 0
    BY <1>6, <1>7
  <2>2. ASSUME NEW k \in 0 .. max, its[k] # NoIteration
        PROVE  its[k].iter \in Oldest(fs) .. fs.iteration_count /\ Slot(fs, its[k].iter) = k
    BY <1>2, <1>5, <1>6, <1>7, <2>2
  <2> QED
    BY <1>1, <1>6, <1>7, <2>1, <2>2 DEF Window
<1>9. FrameOK(fs, c) /\ RootsWait(fs) /\ ~ IsFrameDone(fs)
  BY <1>6, <1>7, <1>8 DEF FrameOK, RootsWait, IsFrameDone
<1>10. \A i \in Nat : Living(fs, i) <=> i = 0
  <2> TAKE i \in Nat
  <2>1. Living(fs, i) <=> i \in Oldest(fs) .. fs.iteration_count
    BY <1>9, LivingIs
  <2> QED
    BY <1>6, <1>7, <2>1
<1>11. \A i \in Nat : OpsIn(fs, i) = 0 /\ SubIn(fs, i) = 0
  BY <1>2, <1>7, <1>10 DEF OpsIn, SubIn
<1> QED
  BY <1>1, <1>6, <1>7, <1>9, <1>10, <1>11 DEF fs, is, inputs

\* The frames of an iteration are one more when one is entered from it.
LEMMA KidBegins ==
    ASSUME Typed, NEW c \in Paths, c # <<>>, c \notin DOMAIN frames, DOMAIN frames' = DOMAIN frames \union {c},
           NEW f, NEW i
    PROVE  Cardinality(Kids(f, i)') = Cardinality(Kids(f, i)) +
              (IF f = ParentFrame(c) /\ i = ParentIter(c) THEN 1 ELSE 0)
<1>1. IsFiniteSet(Kids(f, i)) /\ Cardinality(Kids(f, i)) \in Nat /\ c \notin Kids(f, i)
  BY KidsFinite DEF Kids
<1>2. CASE f = ParentFrame(c) /\ i = ParentIter(c)
  <2>1. Kids(f, i)' = Kids(f, i) \union {c}
    BY <1>2 DEF Kids
  <2>2. Cardinality(Kids(f, i) \union {c}) = Cardinality(Kids(f, i)) + 1
    BY <1>1, FS_AddElement
  <2> QED
    BY <1>2, <2>1, <2>2
<1>3. CASE ~ (f = ParentFrame(c) /\ i = ParentIter(c))
  <2>1. Kids(f, i)' = Kids(f, i)
    BY <1>3 DEF Kids
  <2> QED
    BY <1>1, <1>3, <2>1
<1> QED
  BY <1>2, <1>3

\* None of the Enters of a frame that has not been has fired.
LEMMA NotEntered ==
    ASSUME GraphOK, InputsCount, NEW c \in Paths, c # <<>>, c \notin DOMAIN frames, c \notin closed
    PROVE  Cardinality(Unfired(c)) = graph.input_count[FrameInfo(c)]
<1>1. c = MakeFrameName(ParentFrame(c), ParentIter(c), FrameInfo(c)) /\ FrameInfo(c) \in Names
  BY PathParent
<1>2. ASSUME NEW n \in Enters, graph.enters[n] = FrameInfo(c), HasFired(n, ParentFrame(c), ParentIter(c))
      PROVE  FALSE
  <2>1. PICK x \in fired : x.node = n /\ x.frame = ParentFrame(c) /\ x.iter = ParentIter(c)
    BY <1>2 DEF HasFired
  <2>2. MakeFrameName(x.frame, x.iter, graph.enters[x.node]) \in DOMAIN frames \union closed
    BY <2>1 DEF InputsCount
  <2> QED
    BY <1>1, <1>2, <2>1, <2>2
<1>3. Unfired(c) = {n \in Enters : graph.enters[n] = FrameInfo(c)}
  BY <1>2 DEF Unfired
<1> QED
  BY <1>1, <1>3 DEF GraphOK

\* The inputs that the frames wait for, with a frame more.
LEMMA InputsBegin ==
    ASSUME GraphOK, Typed, InputsCount, graph' = graph, closed' = closed, fired' = fired,
           NEW c \in Paths, c # <<>>, c \notin DOMAIN frames, c \notin closed,
           DOMAIN frames' = DOMAIN frames \union {c},
           frames'[c].num_pending_inputs = graph.input_count[FrameInfo(c)],
           \A d \in DOMAIN frames : frames'[d].num_pending_inputs = frames[d].num_pending_inputs
    PROVE  InputsCount'
<1>1. Enters' = Enters
  BY SameGraph
<1>2. \A n, f, i : HasFired(n, f, i)' <=> HasFired(n, f, i)
  BY DEF HasFired
<1>3. \A d : Unfired(d)' = Unfired(d)
  BY <1>1, <1>2 DEF Unfired
<1>4. Cardinality(Unfired(c)) = graph.input_count[FrameInfo(c)]
  BY NotEntered
<1>5. \A d \in DOMAIN frames' : frames'[d].num_pending_inputs = IF d = <<>> THEN 0 ELSE Cardinality(Unfired(d)')
  <2> TAKE d \in DOMAIN frames'
  <2>1. CASE d = c
    BY <1>3, <1>4, <2>1
  <2>2. CASE d # c
    <3>1. d \in DOMAIN frames
      BY <2>2
    <3> QED
      BY <1>3, <3>1 DEF InputsCount
  <2> QED
    BY <2>1, <2>2
<1>6. \A d \in closed' \ {<<>>} : Unfired(d)' = {}
  BY <1>3 DEF InputsCount
<1>7. \A y \in fired' : y.node \in Enters' =>
          MakeFrameName(y.frame, y.iter, graph'.enters[y.node]) \in DOMAIN frames' \union closed'
  BY <1>1 DEF InputsCount
<1> QED
  BY <1>5, <1>6, <1>7 DEF InputsCount

\* CreateChildFrame keeps the invariant: a frame that was closed is not made again.
LEMMA CreateChildFrameKeeps ==
    ASSUME Sane, NEW t \in Threads, CreateChildFrame(t)
    PROVE  Sane'
<1> DEFINE c == Child(t)
           g == InputFrame(t)
           iter == InputIter(t)
           name == graph.enters[Node(t)]
           f == frames[g]
           gs == SetIteration(f, iter, [GetIteration(f, iter) EXCEPT !.outstanding_frame_count = @ + 1])
           fs == FrameState(name, graph.parallel[name])
           a == [fs |-> f, ready |-> <<>>]
           b == [a EXCEPT !.fs = gs]
           r == [th[t] EXCEPT !.pc = "enter"]
<1>0. /\ GraphOK /\ Typed /\ ThreadsOK /\ DeletersOK /\ OpsCover /\ SubCover /\ EnterOnce /\ InputsCount
      /\ th[t] \in ThreadStates /\ ThreadOK(th[t], status)
      /\ th \in [Threads -> ThreadStates] /\ status \in BOOLEAN /\ aborted \in BOOLEAN
      /\ BagOver(pool) /\ BagOver(asyncs)
  BY SaneParts
<1>1. /\ th[t].pc = "create" /\ th' = [th EXCEPT ![t] = r]
      /\ graph' = graph /\ inter_threadpool' = inter_threadpool
      /\ pool' = pool /\ asyncs' = asyncs /\ status' = status /\ aborted' = aborted
      /\ closed' = closed /\ fired' = fired
  <2>1. th' = [th EXCEPT ![t].pc = "enter"]
    BY DEF CreateChildFrame, Goto
  <2> QED
    BY <1>0, <2>1 DEF CreateChildFrame, At, run, history
<1>2. /\ r \in ThreadStates /\ r.pc = "enter" /\ r.inline_ready = th[t].inline_ready
      /\ r.tagged_node = th[t].tagged_node /\ r.failed = th[t].failed /\ r.callback = th[t].callback
  BY <1>0 DEF ThreadStates, Places, Counted
<1>3. /\ th[t].tagged_node \in Tagged /\ th[t].tagged_node.node \in Enters /\ ~ th[t].failed
      /\ Node(t) \in Enters /\ ReadyOf(th[t]) = <<>> /\ ReadyOf(r) = <<>>
  <2>1. th[t].tagged_node \in Tagged /\ th[t].tagged_node.node \in Enters /\ ~ th[t].failed
    BY <1>0, <1>1 DEF ThreadOK, Counted
  <2> QED
    BY <1>1, <1>2, <2>1, ReadyAt DEF Entering, Node
<1> HIDE DEF r
<1>4. ThreadOK(r, status)
  <2>1. r.callback => r.inline_ready = <<>>
    BY <1>0, <1>2 DEF ThreadOK
  <2> QED
    BY <1>2, <1>3, <2>1 DEF ThreadOK, Counted
<1>5. /\ c \in Paths /\ c # <<>> /\ FrameInfo(c) = name
      /\ ParentFrame(c) = g /\ ParentIter(c) = iter /\ c \notin closed
  BY <1>0, <1>1, <1>3, EnteringOnce DEF Entering
<1>6. CASE c \in DOMAIN frames
  <2>1. frames' = frames
    BY <1>6 DEF CreateChildFrame
  <2>2. \A M : \A places \in {InFrame, Entering} : Has(r, M, places) = Has(th[t], M, places)
    <3> TAKE M
    <3> TAKE places \in {InFrame, Entering}
    <3>1. Has(r, M, places) = Among(r.inline_ready, M) + IfIn(r.tagged_node, M)
      BY <1>2, HasAt DEF Entering
    <3>2. Has(th[t], M, places) = Among(th[t].inline_ready, M) + IfIn(th[t].tagged_node, M)
      BY <1>0, <1>1, HasAt DEF Entering
    <3> QED
      BY <1>2, <3>1, <3>2
  <2> QED
    BY <1>0, <1>1, <1>2, <1>3, <1>4, <1>6, <2>1, <2>2, StaysKeep
<1>7. CASE c \notin DOMAIN frames
  <2>1. frames' = [d \in DOMAIN frames \union {c} |->
                     CASE d = c -> fs [] d = g -> gs [] OTHER -> frames[d]]
    BY <1>7 DEF CreateChildFrame
  <2>2. /\ g \in DOMAIN frames /\ iter \in Nat /\ Living(f, iter) /\ ~ IsFrameDone(f)
    BY <1>0, <1>1, MineIsThere DEF InFrame
  <2>3. g \in Paths /\ FrameOK(f, g) /\ RootsWait(f) /\ IsFiniteSet(DOMAIN frames) /\ DOMAIN frames \in SUBSET Paths
    BY <1>0, <2>2, TypedParts
  <2>4. /\ FrameOK(fs, c) /\ RootsWait(fs) /\ fs.num_pending_inputs = graph.input_count[name]
        /\ \A i \in Nat : OpsIn(fs, i) = 0 /\ SubIn(fs, i) = 0
    <3>1. fs = FrameState(FrameInfo(c), Parallel(c))
      BY <1>5 DEF Parallel
    <3> HIDE DEF fs, c
    <3> QED
      BY <1>0, <1>5, <3>1, FreshFrame
  <2>5. a \in Accs(g) /\ a.fs = f /\ a.ready = <<>>
    <3>1. <<>> \in Seq(Tagged)
      OBVIOUS
    <3> QED
      BY <2>3, <3>1 DEF Accs, FrameOK
  <2> HIDE DEF c, f, g, iter, a, fs
  <2>6. /\ b \in Accs(g) /\ b.fs = gs /\ b.ready = <<>> /\ Lowers(a, b, g, iter, 0, -1)
        /\ gs.num_pending_inputs = f.num_pending_inputs /\ RootsWait(gs)
    BY <1>0, <2>2, <2>3, <2>5, EnteredLowers
  <2> HIDE DEF b, gs
  <2>7. /\ DOMAIN frames' = DOMAIN frames \union {c} /\ frames'[c] = fs /\ frames'[g] = gs
        /\ \A d \in DOMAIN frames : d # g => frames'[d] = frames[d]
        /\ frames' = [d \in DOMAIN frames' |-> frames'[d]]
    BY <1>7, <2>1, <2>2
  <2>8. FramesTyped(frames')
    <3>1. IsFiniteSet(DOMAIN frames')
      BY <2>3, <2>7, FS_AddElement
    <3>2. FrameOK(gs, g)
      BY <2>6 DEF Accs
    <3>3. ASSUME NEW d \in DOMAIN frames' PROVE d \in Paths /\ FrameOK(frames'[d], d) /\ RootsWait(frames'[d])
      <4>1. CASE d = c
        BY <1>5, <2>4, <2>7, <4>1
      <4>2. CASE d # c /\ d = g
        BY <2>3, <2>6, <2>7, <3>2, <4>2
      <4>3. CASE d # c /\ d # g
        <5>1. d \in DOMAIN frames /\ frames'[d] = frames[d]
          BY <2>7, <4>3
        <5> QED
          BY <1>0, <5>1, TypedParts
      <4> QED
        BY <4>1, <4>2, <4>3
    <3> QED
      BY <2>7, <3>1, <3>3 DEF FramesTyped
  <2>9. /\ ~ Leaving(t, r, InFrame) /\ Ended(t, r) = 0 /\ ~ Leaving(t, r, Entering)
        /\ \A places \in {InFrame, Entering} : r.pc \in places => th[t].pc \in places
    BY <1>1, <1>2 DEF Leaving, Ended, InFrame, Entering
  <2>10. ThreadMoves(t, r)
    BY <1>0, <1>1, <1>2 DEF ThreadMoves
  <2>11. Section(t, r, g, b, iter, -1)
    <3>1. Lowers([fs |-> frames[g], ready |-> ReadyOf(th[t])], b, g, iter, Ended(t, r), -1)
      BY <1>3, <2>6, <2>9 DEF a, f
    <3>2. FramesKept
      BY <1>1, <2>7, <2>8 DEF FramesKept
    <3>3. \A d \in DOMAIN frames' : d \notin DOMAIN frames =>
             d \notin closed /\ \A i \in Nat : OpsIn(frames'[d], i) = 0 /\ SubIn(frames'[d], i) = 0
      BY <1>5, <2>4, <2>7
    <3> QED
      BY <1>1, <1>2, <1>3, <2>2, <2>6, <2>7, <2>9, <2>10, <3>1, <3>2, <3>3 DEF Section
  <2>12. SubCover'
    <3>1. ASSUME NEW h \in Paths, NEW i \in Nat
          PROVE  Cardinality(Kids(h, i)') + Cardinality(Told(h, i)') <=
                    Cardinality(Kids(h, i)) + Cardinality(Told(h, i)) - (IF h = g /\ i = iter THEN -1 ELSE 0)
      <4>1. Cardinality(Kids(h, i)') = Cardinality(Kids(h, i)) + (IF h = g /\ i = iter THEN 1 ELSE 0)
        BY <1>0, <1>5, <1>7, <2>7, KidBegins DEF c, g, iter
      <4>2. Told(h, i)' = Told(h, i)
        BY <1>0, <1>1, <1>2 DEF Told, At
      <4>3. Cardinality(Told(h, i)) \in Nat /\ Cardinality(Kids(h, i)) \in Nat
        BY <1>0, KidsFinite
      <4> QED
        BY <4>1, <4>2, <4>3
    <3> QED
      BY <1>0, <2>11, <3>1, SectionSub
  <2>13. InputsCount'
    <3>1. \A d \in DOMAIN frames : frames'[d].num_pending_inputs = frames[d].num_pending_inputs
      BY <2>6, <2>7 DEF f
    <3>2. frames'[c].num_pending_inputs = graph.input_count[FrameInfo(c)]
      BY <1>5, <2>4, <2>7 DEF c
    <3> QED
      BY <1>0, <1>1, <1>5, <1>7, <2>7, <3>1, <3>2, InputsBegin DEF c
  <2>14. GraphOK' /\ Typed' /\ ThreadsOK' /\ OpsCover' /\ EnterOnce'
    <3>1. GraphOK'
      BY <1>0, <1>1, SameGraph
    <3>2. Typed'
      BY <1>0, <2>11, SectionTyped
    <3>3. ThreadsOK'
      BY <1>0, <1>1, <1>4, <2>10, ThreadsKept
    <3>4. OpsCover'
      BY <1>0, <2>11, SectionOps
    <3>5. EnterOnce'
      BY <1>0, <2>11, SectionEnter
    <3> QED
      BY <3>1, <3>2, <3>3, <3>4, <3>5
  <2>15. DeletersOK'
    <3>1. Child(t) \in DOMAIN frames'
      BY <2>7 DEF c
    <3> QED
      BY <1>0, <1>2, <2>2, <2>11, <3>1, SectionDeleters DEF f
  <2> QED
    BY <2>12, <2>13, <2>14, <2>15 DEF Sane
<1> QED
  BY <1>6, <1>7

-----------------------------------------------------------------------------
(* Frames that end.                                                        *)

\* The thread that deletes a frame goes on; no count changes.
Passing == {"delete_frame", "erase_frame", "cleanup", "node_done"}
GoesOn(t, r) ==
    /\ t \in Threads /\ th' = [th EXCEPT ![t] = r]
    /\ th[t].pc \in Passing /\ r.pc \in Passing /\ r = [th[t] EXCEPT !.pc = r.pc]
    /\ ~ th[t].failed /\ th[t].tagged_node \in Tagged
    /\ graph' = graph /\ inter_threadpool' = inter_threadpool
    /\ pool' = pool /\ asyncs' = asyncs /\ status' = status /\ aborted' = aborted /\ fired' = fired

\* A step that changes no count of an iteration keeps the parts that are about nodes.
LEMMA GoesOnKeeps ==
    ASSUME Sane, NEW t, NEW r, GoesOn(t, r), FramesTyped(frames'),
           \A f \in Paths, i \in Nat : OpsOf(f, i)' = OpsOf(f, i),
           \A n \in Enters, f \in Paths, i \in Nat : MayOf(n, f, i)' <= MayOf(n, f, i)
    PROVE  /\ GraphOK' /\ Typed' /\ ThreadsOK' /\ OpsCover' /\ EnterOnce'
           /\ ThreadMoves(t, r)
<1>0. t \in Threads
  BY DEF GoesOn
<1>1. /\ GraphOK /\ Typed /\ ThreadsOK /\ OpsCover /\ EnterOnce
      /\ th[t] \in ThreadStates /\ ThreadOK(th[t], status) /\ BagOver(pool) /\ BagOver(asyncs)
      /\ status \in BOOLEAN /\ aborted \in BOOLEAN /\ fired \in SUBSET Tagged
  BY <1>0, SaneParts, TypedParts
<1>2. /\ th' = [th EXCEPT ![t] = r]
      /\ th[t].pc \in Passing /\ r.pc \in Passing /\ r = [th[t] EXCEPT !.pc = r.pc]
      /\ ~ th[t].failed /\ th[t].tagged_node \in Tagged
      /\ graph' = graph /\ inter_threadpool' = inter_threadpool
      /\ pool' = pool /\ asyncs' = asyncs /\ status' = status /\ aborted' = aborted /\ fired' = fired
  BY DEF GoesOn
<1>3. /\ r \in ThreadStates /\ r.inline_ready = th[t].inline_ready /\ r.ready = th[t].ready
      /\ r.tagged_node = th[t].tagged_node /\ r.failed = th[t].failed /\ r.callback = th[t].callback
  <2> DEFINE pc == r.pc
  <2>1. pc \in Places
    BY <1>2 DEF Passing, Places, Counted
  <2>2. r = [th[t] EXCEPT !.pc = pc]
    BY <1>2
  <2> HIDE DEF pc
  <2> QED
    BY <1>1, <2>1, <2>2 DEF ThreadStates
<1>4. ThreadMoves(t, r)
  BY <1>0, <1>1, <1>2, <1>3 DEF ThreadMoves
<1>5. ASSUME NEW M, NEW places \in {InFrame, Entering} PROVE Delta(t, r, M, places) = 0
  <2>1. /\ Delta(t, r, M, places) = Has(r, M, places) - Has(th[t], M, places)
        /\ Has(r, M, places) \in Nat /\ Has(th[t], M, places) \in Nat
    BY <1>1, <1>2, <1>4, DeltaSame
  <2>2. ReadyOf(r) = r.ready /\ ReadyOf(th[t]) = th[t].ready
    BY <1>2, <1>3, ReadyAt DEF Passing
  <2>3. r.pc \notin places /\ th[t].pc \notin places
    BY <1>2 DEF Passing, InFrame, Entering
  <2>4. Has(r, M, places) = Has(th[t], M, places)
    BY <1>3, <2>2, <2>3 DEF Has
  <2> QED
    BY <2>1, <2>4
<1>6. GraphOK'
  BY <1>1, <1>2, SameGraph
<1>7. Typed'
  BY <1>1, <1>2, <1>4, TypedKept
<1>8. ThreadsOK'
  <2>1. ThreadOK(r, status')
    <3>1. th[t].callback => th[t].inline_ready = <<>>
      BY <1>1 DEF ThreadOK
    <3> QED
      BY <1>2, <1>3, <3>1 DEF ThreadOK, Counted, Passing
  <2> QED
    BY <1>1, <1>2, <1>4, <2>1, ThreadsKept
<1>9. OpsCover'
  <2>1. Sound' => Sound
    BY <1>1, <1>2, <1>4, SoundKept
  <2>2. ASSUME NEW f \in Paths, NEW i \in Nat PROVE Delta(t, r, NodesIn(f, i), InFrame) = OpsOf(f, i)' - OpsOf(f, i)
    <3>1. OpsOf(f, i) \in Int
      BY <1>1, TypedFrames, OpsNumbers DEF OpsOf
    <3> QED
      BY <1>5, <3>1
  <2>3. ASSUME NEW f \in Paths, NEW i \in Nat PROVE Delta(t, r, NodesIn(f, i), InFrame) <= OpsOf(f, i)' - OpsOf(f, i)
    <3>1. OpsOf(f, i) \in Int
      BY <1>1, TypedFrames, OpsNumbers DEF OpsOf
    <3> QED
      BY <1>5, <3>1
  <2> QED
    BY <1>1, <1>4, <2>1, <2>2, <2>3, OpsKept
<1>10. EnterOnce'
  <2>1. ASSUME NEW n \in Enters, NEW f \in Paths, NEW i \in Nat
        PROVE  Delta(t, r, OneNode(n, f, i), Entering) + MayOf(n, f, i)' + (IF HasFired(n, f, i)' THEN 1 ELSE 0)
                  <= MayOf(n, f, i) + (IF HasFired(n, f, i) THEN 1 ELSE 0)
    <3>1. Delta(t, r, OneNode(n, f, i), Entering) = 0
      BY <1>5
    <3>2. HasFired(n, f, i)' <=> HasFired(n, f, i)
      BY <1>2 DEF HasFired
    <3>3. MayOf(n, f, i) \in Int /\ MayOf(n, f, i)' \in Int /\ MayOf(n, f, i)' <= MayOf(n, f, i)
      BY DEF MayOf, MayIn
    <3> QED
      BY <3>1, <3>2, <3>3
  <2> QED
    BY <1>1, <1>4, <2>1, EnterKept
<1> QED
  BY <1>4, <1>6, <1>7, <1>8, <1>9, <1>10

\* The root frame has nobody to give its dead exits to.
LEMMA DeleteRootKeeps ==
    ASSUME Sane, NEW t \in Threads, DeleteFrame(t), th[t].frame = <<>>
    PROVE  Sane'
<1> DEFINE r == [th[t] EXCEPT !.pc = "erase_frame"]
<1>0. /\ GraphOK /\ Typed /\ ThreadsOK /\ DeletersOK /\ SubCover /\ InputsCount
      /\ th[t] \in ThreadStates /\ ThreadOK(th[t], status) /\ th \in [Threads -> ThreadStates]
  BY SaneParts
<1>1. /\ th[t].pc = "delete_frame" /\ frames' = frames /\ th' = [th EXCEPT ![t] = r]
      /\ closed' = closed \union {<<>>} /\ fired' = fired
      /\ graph' = graph /\ inter_threadpool' = inter_threadpool
      /\ pool' = pool /\ asyncs' = asyncs /\ status' = status /\ aborted' = aborted
  <2>1. th' = [th EXCEPT ![t].pc = "erase_frame"]
    BY DEF DeleteFrame, Goto
  <2> QED
    BY <1>0, <2>1 DEF DeleteFrame, At, run
<1>2. r.pc = "erase_frame" /\ r.frame = th[t].frame /\ r.tagged_node = th[t].tagged_node
  BY <1>0 DEF ThreadStates
<1>3. GoesOn(t, r)
  <2>1. th[t].tagged_node \in Tagged /\ ~ th[t].failed
    BY <1>0, <1>1 DEF ThreadOK, Counted
  <2>2. r = [th[t] EXCEPT !.pc = r.pc]
    BY <1>2
  <2> HIDE DEF r
  <2> QED
    BY <1>1, <1>2, <2>1, <2>2 DEF GoesOn, Passing
<1> HIDE DEF r
<1>4. /\ GraphOK' /\ Typed' /\ ThreadsOK' /\ OpsCover' /\ EnterOnce'
      /\ ThreadMoves(t, r)
  <2>1. FramesTyped(frames')
    BY <1>0, <1>1, TypedFrames
  <2>2. \A f \in Paths, i \in Nat : OpsOf(f, i)' = OpsOf(f, i)
    BY <1>1 DEF OpsOf
  <2>3. \A n \in Enters, f \in Paths, i \in Nat : MayOf(n, f, i)' <= MayOf(n, f, i)
    BY <1>1 DEF MayOf, MayIn
  <2> QED
    BY <1>3, <2>1, <2>2, <2>3, GoesOnKeeps
<1>5. SubCover'
  <2>1. \A f, i : Kids(f, i)' = Kids(f, i) /\ Told(f, i)' = Told(f, i)
    BY <1>0, <1>1, <1>2, <1>4, SameKids
  <2>2. \A f, i : SubOf(f, i)' = SubOf(f, i)
    BY <1>1 DEF SubOf
  <2>3. Paths' = Paths
    BY <1>1, SameGraph
  <2> QED
    BY <1>0, <2>1, <2>2, <2>3 DEF SubCover
<1>6. InputsCount'
  BY <1>0, <1>1, InputsSame
<1>7. DeletersOK'
  <2>1. th'[t] = r /\ \A u \in Threads : u # t => th'[u] = th[u]
    BY <1>0, <1>1
  <2>2. \A u \in Threads : (Deleting(u)' <=> Deleting(u)) /\ th'[u].frame = th[u].frame
    <3> TAKE u \in Threads
    <3>1. CASE u = t
      <4>1. Deleting(u) /\ Deleting(u)'
        BY <1>1, <1>2, <2>1, <3>1 DEF Deleting
      <4> QED
        BY <1>2, <2>1, <3>1, <4>1
    <3>2. CASE u # t
      <4>1. th'[u] = th[u]
        BY <2>1, <3>2
      <4> QED
        BY <4>1 DEF Deleting
    <3> QED
      BY <3>1, <3>2
  <2> SUFFICES ASSUME NEW u \in Threads
               PROVE  /\ At(u, "enter")' => Child(u)' \in DOMAIN frames'
                      /\ Deleting(u)' => /\ th'[u].frame \in DOMAIN frames' /\ IsFrameDone(frames'[th'[u].frame])
                                         /\ \A v \in Threads : Deleting(v)' /\ th'[v].frame = th'[u].frame => v = u
                      /\ At(u, "erase_frame")' => th'[u].frame \in closed'
                      /\ At(u, "cleanup")' => th'[u].frame # <<>>
    BY DEF DeletersOK
  <2>3. At(u, "enter")' => Child(u)' \in DOMAIN frames'
    <3>1. CASE u = t
      BY <1>2, <2>1, <3>1 DEF At
    <3>2. CASE u # t
      <4>1. Child(u)' = Child(u)
        BY <1>1, <2>1, <3>2 DEF Child, InputFrame, InputIter, Node
      <4> QED
        BY <1>0, <1>1, <2>1, <3>2, <4>1 DEF DeletersOK, At
    <3> QED
      BY <3>1, <3>2
  <2>4. Deleting(u)' => /\ th'[u].frame \in DOMAIN frames' /\ IsFrameDone(frames'[th'[u].frame])
                        /\ \A v \in Threads : Deleting(v)' /\ th'[v].frame = th'[u].frame => v = u
    BY <1>0, <1>1, <2>2 DEF DeletersOK
  <2>5. At(u, "erase_frame")' => th'[u].frame \in closed'
    BY <1>0, <1>1, <1>2, <2>1 DEF DeletersOK, At
  <2>6. At(u, "cleanup")' => th'[u].frame # <<>>
    BY <1>0, <1>1, <1>2, <2>1 DEF DeletersOK, At
  <2> QED
    BY <2>3, <2>4, <2>5, <2>6
<1> QED
  BY <1>4, <1>5, <1>6, <1>7 DEF Sane

\* A frame is erased: nothing was in it, and the iteration it was entered from is to be told.
LEMMA EraseFrameKeeps ==
    ASSUME Sane, NEW t \in Threads, EraseFrame(t)
    PROVE  Sane'
<1> DEFINE c == th[t].frame
           pc == IF c = <<>> THEN "node_done" ELSE "cleanup"
           r == [th[t] EXCEPT !.pc = pc]
<1>0. /\ GraphOK /\ Typed /\ ThreadsOK /\ DeletersOK /\ SubCover /\ EnterOnce /\ InputsCount
      /\ th[t] \in ThreadStates /\ ThreadOK(th[t], status) /\ th \in [Threads -> ThreadStates]
  BY SaneParts
<1>1. /\ th[t].pc = "erase_frame" /\ th' = [th EXCEPT ![t] = r]
      /\ frames' = [f \in DOMAIN frames \ {c} |-> frames[f]]
      /\ closed' = closed /\ fired' = fired
      /\ graph' = graph /\ inter_threadpool' = inter_threadpool
      /\ pool' = pool /\ asyncs' = asyncs /\ status' = status /\ aborted' = aborted
  <2>1. th' = [th EXCEPT ![t].pc = pc]
    BY DEF EraseFrame, Goto
  <2> QED
    BY <1>0, <2>1 DEF EraseFrame, At, run, history
<1>2. r.pc = pc /\ r.frame = c /\ r.tagged_node = th[t].tagged_node /\ pc \in {"node_done", "cleanup"}
  BY <1>0 DEF ThreadStates
<1>3. GoesOn(t, r)
  <2>1. th[t].tagged_node \in Tagged /\ ~ th[t].failed
    BY <1>0, <1>1 DEF ThreadOK, Counted
  <2>2. r = [th[t] EXCEPT !.pc = r.pc]
    BY <1>2
  <2> HIDE DEF r, pc
  <2> QED
    BY <1>1, <1>2, <2>1, <2>2 DEF GoesOn, Passing
<1>4. /\ c \in DOMAIN frames /\ IsFrameDone(frames[c]) /\ c \in closed
      /\ \A u \in Threads : Deleting(u) /\ th[u].frame = c => u = t
  BY <1>0, <1>1 DEF DeletersOK, Deleting, At
<1>5. c \in Paths /\ FrameOK(frames[c], c) /\ \A i \in Nat : ~ Living(frames[c], i)
  BY <1>0, <1>4, TypedParts, LivingNotDone
<1>6. pc = "cleanup" <=> c # <<>>
  OBVIOUS
<1> HIDE DEF r, pc, c
<1>7. DOMAIN frames' = DOMAIN frames \ {c} /\ \A f \in DOMAIN frames : f # c => frames'[f] = frames[f]
  BY <1>1
<1>8. FramesTyped(frames')
  <2>1. IsFiniteSet(DOMAIN frames')
    BY <1>0, <1>7, TypedParts, FS_Subset
  <2>2. frames' = [f \in DOMAIN frames' |-> frames'[f]]
    BY <1>1
  <2> QED
    BY <1>0, <1>7, <2>1, <2>2, TypedParts DEF FramesTyped
<1>9. \A f \in Paths, i \in Nat : OpsOf(f, i)' = OpsOf(f, i) /\ SubOf(f, i)' = SubOf(f, i)
  <2> TAKE f \in Paths, i \in Nat
  <2>1. CASE f = c
    <3>1. OpsIn(frames[c], i) = 0 /\ SubIn(frames[c], i) = 0
      BY <1>5 DEF OpsIn, SubIn
    <3> QED
      BY <1>4, <1>7, <2>1, <3>1 DEF OpsOf, SubOf
  <2>2. CASE f # c
    BY <1>7, <2>2 DEF OpsOf, SubOf
  <2> QED
    BY <2>1, <2>2
<1>10. \A n \in Enters, f \in Paths, i \in Nat : MayOf(n, f, i)' <= MayOf(n, f, i)
  <2> TAKE n \in Enters, f \in Paths, i \in Nat
  <2>1. CASE f = c
    BY <1>1, <1>4, <1>7, <2>1 DEF MayOf, MayIn
  <2>2. CASE f # c
    BY <1>1, <1>7, <2>2 DEF MayOf, MayIn
  <2> QED
    BY <2>1, <2>2
<1>11. /\ GraphOK' /\ Typed' /\ ThreadsOK' /\ OpsCover' /\ EnterOnce'
       /\ ThreadMoves(t, r)
  BY <1>3, <1>8, <1>9, <1>10, GoesOnKeeps
<1>12. th'[t] = r /\ \A u \in Threads : u # t => th'[u] = th[u]
  BY <1>0, <1>1
<1>13. SubCover'
  <2>1. ASSUME NEW f \in Paths, NEW i \in Nat
        PROVE  Cardinality(Kids(f, i)') + Cardinality(Told(f, i)') = Cardinality(Kids(f, i)) + Cardinality(Told(f, i))
    <3>1. /\ IsFiniteSet(Kids(f, i)) /\ Cardinality(Kids(f, i)) \in Nat
          /\ IsFiniteSet(Told(f, i)) /\ Cardinality(Told(f, i)) \in Nat
      BY <1>0, KidsFinite
    <3>2. Kids(f, i)' = Kids(f, i) \ {c}
      BY <1>7 DEF Kids
    <3>3. t \notin Told(f, i)
      BY <1>1 DEF Told, At
    <3>4. CASE c # <<>> /\ f = ParentFrame(c) /\ i = ParentIter(c)
      <4>1. Told(f, i)' = Told(f, i) \union {t}
        BY <1>2, <1>6, <1>12, <3>4 DEF Told, At
      <4>2. c \in Kids(f, i)
        BY <1>4, <3>4 DEF Kids
      <4>3. Cardinality(Kids(f, i) \ {c}) = Cardinality(Kids(f, i)) - 1
        BY <3>1, <4>2, FS_RemoveElement
      <4>4. Cardinality(Told(f, i) \union {t}) = Cardinality(Told(f, i)) + 1
        BY <3>1, <3>3, FS_AddElement
      <4> QED
        BY <3>1, <3>2, <4>1, <4>3, <4>4
    <3>5. CASE ~ (c # <<>> /\ f = ParentFrame(c) /\ i = ParentIter(c))
      <4>1. Told(f, i)' = Told(f, i)
        <5>1. ASSUME NEW u \in Threads PROVE u \in Told(f, i)' <=> u \in Told(f, i)
          <6>1. CASE u = t
            BY <1>2, <1>6, <1>12, <3>3, <3>5, <6>1 DEF Told, At
          <6>2. CASE u # t
            BY <1>12, <6>2 DEF Told, At
          <6> QED
            BY <6>1, <6>2
        <5> QED
          BY <5>1 DEF Told
      <4>2. Kids(f, i)' = Kids(f, i)
        BY <3>2, <3>5 DEF Kids
      <4> QED
        BY <4>1, <4>2
    <3> QED
      BY <3>4, <3>5
  <2>2. Paths' = Paths
    BY <1>1, SameGraph
  <2> QED
    BY <1>0, <1>9, <2>1, <2>2 DEF SubCover
<1>14. InputsCount'
  <2>1. Enters' = Enters
    BY <1>1, SameGraph
  <2>2. \A d : Unfired(d)' = Unfired(d)
    BY <1>1, <2>1 DEF Unfired, HasFired
  <2>3. \A d \in DOMAIN frames' : frames'[d].num_pending_inputs = IF d = <<>> THEN 0 ELSE Cardinality(Unfired(d)')
    BY <1>0, <1>7, <2>2 DEF InputsCount
  <2>4. \A d \in closed' \ {<<>>} : Unfired(d)' = {}
    BY <1>0, <1>1, <2>2 DEF InputsCount
  <2>5. \A x \in fired' : x.node \in Enters' =>
           MakeFrameName(x.frame, x.iter, graph'.enters[x.node]) \in DOMAIN frames' \union closed'
    BY <1>0, <1>1, <1>4, <1>7, <2>1 DEF InputsCount
  <2> QED
    BY <2>3, <2>4, <2>5 DEF InputsCount
<1>15. DeletersOK'
  <2>1. ~ Deleting(t)'
    <3>1. th'[t].pc \in {"node_done", "cleanup"}
      BY <1>2, <1>12
    <3> QED
      BY <3>1 DEF Deleting
  <2> SUFFICES ASSUME NEW u \in Threads
               PROVE  /\ At(u, "enter")' => Child(u)' \in DOMAIN frames'
                      /\ Deleting(u)' => /\ th'[u].frame \in DOMAIN frames' /\ IsFrameDone(frames'[th'[u].frame])
                                         /\ \A v \in Threads : Deleting(v)' /\ th'[v].frame = th'[u].frame => v = u
                      /\ At(u, "erase_frame")' => th'[u].frame \in closed'
                      /\ At(u, "cleanup")' => th'[u].frame # <<>>
    BY DEF DeletersOK
  <2>2. At(u, "enter")' => Child(u)' \in DOMAIN frames'
    <3>1. CASE u = t
      BY <1>2, <1>12, <3>1 DEF At
    <3>2. ASSUME u # t, At(u, "enter")' PROVE Child(u)' \in DOMAIN frames'
      <4>1. th[u].pc = "enter" /\ Child(u)' = Child(u)
        BY <1>1, <1>12, <3>2 DEF Child, InputFrame, InputIter, Node, At
      <4>2. Child(u) \in DOMAIN frames
        BY <1>0, <4>1 DEF DeletersOK, At
      <4>3. Node(u) \in Enters
        BY <1>0, <4>1 DEF ThreadsOK, ThreadOK, Node
      <4>4. ~ IsFrameDone(frames[Child(u)])
        BY <1>0, <4>1, <4>2, <4>3, EnteringOnce DEF Entering
      <4> QED
        BY <1>4, <1>7, <4>1, <4>2, <4>4
    <3> QED
      BY <3>1, <3>2
  <2>3. ASSUME Deleting(u)'
        PROVE  /\ th'[u].frame \in DOMAIN frames' /\ IsFrameDone(frames'[th'[u].frame])
               /\ \A v \in Threads : Deleting(v)' /\ th'[v].frame = th'[u].frame => v = u
    <3>1. \A v \in Threads : Deleting(v)' => v # t /\ Deleting(v) /\ th'[v] = th[v]
      BY <1>12, <2>1 DEF Deleting
    <3>2. u # t /\ Deleting(u) /\ th'[u] = th[u]
      BY <2>3, <3>1
    <3>3. th[u].frame # c /\ th[u].frame \in DOMAIN frames /\ IsFrameDone(frames[th[u].frame])
      BY <1>0, <1>4, <3>2 DEF DeletersOK
    <3>4. frames'[th[u].frame] = frames[th[u].frame]
      BY <1>7, <3>3
    <3> QED
      BY <1>0, <1>7, <3>1, <3>2, <3>3, <3>4 DEF DeletersOK
  <2>4. At(u, "erase_frame")' => th'[u].frame \in closed'
    BY <1>0, <1>1, <1>2, <1>12 DEF DeletersOK, At
  <2>5. At(u, "cleanup")' => th'[u].frame # <<>>
    BY <1>0, <1>2, <1>6, <1>12 DEF DeletersOK, At
  <2> QED
    BY <2>2, <2>3, <2>4, <2>5
<1> QED
  BY <1>11, <1>13, <1>14, <1>15 DEF Sane

-----------------------------------------------------------------------------
(* The start of the step.                                                  *)

\* The edges of a graph are finitely many, so are those that lead to a node.
LEMMA EdgesFinite ==
    ASSUME NEW g, WellFormed(g), NEW n
    PROVE  IsFiniteSet(EdgesTo(g, n))
<1> DEFINE len == [m \in Nodes(g) |-> Len(g.out[m])]
<1>1. /\ IsFiniteSet(Nodes(g))
      /\ g.out \in [Nodes(g) -> Seq([to : Nodes(g), slot : Int, at : Int])]
  BY DEF WellFormed
<1>2. len \in [Nodes(g) -> Int]
  <2>1. \A m \in Nodes(g) : g.out[m] \in Seq([to : Nodes(g), slot : Int, at : Int])
    BY <1>1
  <2>2. \A m \in Nodes(g) : Len(g.out[m]) \in Nat
    BY <2>1
  <2> QED
    BY <2>2
<1>3. IsFiniteSet(Units(len))
  BY <1>1, <1>2, UnitsFinite
<1>4. ASSUME NEW e \in EdgesTo(g, n) PROVE e \in Units(len)
  <2>1. PICK m \in Nodes(g) : e \in {<<m, k>> : k \in {j \in DOMAIN g.out[m] : g.out[m][j].to = n}}
    BY <1>4 DEF EdgesTo
  <2>2. PICK k \in DOMAIN g.out[m] : e = <<m, k>>
    BY <2>1
  <2>3. g.out[m] \in Seq([to : Nodes(g), slot : Int, at : Int])
    BY <1>1
  <2>4. k \in 1 .. Len(g.out[m])
    BY <2>2, <2>3, SeqOf
  <2>5. k \in 1 .. len[m]
    BY <2>4
  <2> HIDE DEF len
  <2> QED
    BY <1>2, <2>2, <2>5, UnitOf
<1> HIDE DEF len
<1>5. EdgesTo(g, n) \in SUBSET Units(len)
  BY <1>4
<1> QED
  BY <1>3, <1>5, FS_Subset

\* What Initialize makes of a graph is what the proofs expect.
LEMMA InitGraph ==
    ASSUME Init
    PROVE  GraphOK
<1>1. PICK r \in Runs : graph = Initialize(r.graph) /\ inter_threadpool = r.inter_threadpool
  BY DEF Init
<1> DEFINE g == r.graph
<1>2. WellFormed(graph) /\ inter_threadpool \in BOOLEAN
  BY <1>1, RunsAssumption
<1>3. /\ graph.kind = g.kind /\ graph.out = g.out /\ graph.enters = g.enters /\ graph.parallel = g.parallel
      /\ graph.pending = [n \in Nodes(g) |-> GetMaxPendingCounts(g, n)]
      /\ graph.roots = Roots(g)
      /\ graph.input_count = [f \in DOMAIN g.parallel |-> Cardinality({n \in DOMAIN g.enters : g.enters[n] = f})]
  BY <1>1 DEF Initialize
<1>4. /\ Nodes(graph) = Nodes(g) /\ Roots(graph) = Roots(g) /\ Nodes(g) = DOMAIN graph.kind
      /\ \A n : EdgesTo(graph, n) = EdgesTo(g, n)
  BY <1>3 DEF Nodes, Roots, EdgesTo
<1> HIDE DEF g
<1>5. ASSUME NEW n
      PROVE  /\ IsFiniteSet(EdgesTo(g, n)) /\ NumInputs(g, n) \in Nat /\ NumControls(g, n) \in Nat
             /\ EdgesTo(g, n) = {} => NumInputs(g, n) = 0 /\ NumControls(g, n) = 0
  <2>1. IsFiniteSet(EdgesTo(g, n))
    BY <1>2, <1>4, EdgesFinite
  <2>2. /\ IsFiniteSet({e \in EdgesTo(g, n) : ~ IsControl(g, e)})
        /\ IsFiniteSet({e \in EdgesTo(g, n) : IsControl(g, e)})
    BY <2>1, FS_Subset
  <2>3. NumInputs(g, n) \in Nat /\ NumControls(g, n) \in Nat
    BY <2>2, FS_CardinalityType DEF NumInputs, NumControls
  <2>4. ASSUME EdgesTo(g, n) = {} PROVE NumInputs(g, n) = 0 /\ NumControls(g, n) = 0
    BY <2>4, FS_EmptySet DEF NumInputs, NumControls
  <2> QED
    BY <2>1, <2>3, <2>4
<1>6. graph.pending \in [DOMAIN graph.kind -> Int]
  <2>1. ASSUME NEW n PROVE GetMaxPendingCounts(g, n) \in Int
    BY <1>5 DEF GetMaxPendingCounts
  <2> QED
    BY <1>3, <1>4, <2>1
<1>7. graph.roots \in SUBSET DOMAIN graph.kind
  BY <1>3, <1>4 DEF Roots
<1>8. ASSUME NEW n \in graph.roots PROVE graph.frame[n] = Root /\ (n \in Enters => graph.pending[n] = 0)
  <2>1. n \in Roots(graph) /\ n \in Nodes(g) /\ EdgesTo(g, n) = {}
    BY <1>3, <1>4 DEF Roots
  <2>2. graph.frame[n] = Root
    BY <1>2, <2>1 DEF WellFormed
  <2>3. ASSUME n \in Enters PROVE graph.pending[n] = 0
    <3>1. g.kind[n] # "merge"
      BY <1>2, <1>3, <1>4, <2>3 DEF WellFormed, IsEnterNode, Enters
    <3>2. GetMaxPendingCounts(g, n) = 0
      BY <1>5, <2>1, <3>1 DEF GetMaxPendingCounts
    <3> QED
      BY <1>3, <2>1, <3>2
  <2> QED
    BY <2>2, <2>3
<1>9. \A name \in Names : graph.input_count[name] = Cardinality({n \in Enters : graph.enters[n] = name})
  BY <1>3 DEF Names, Enters
<1> QED
  BY <1>2, <1>6, <1>7, <1>8, <1>9 DEF GraphOK

\* The nodes that RunAsync hands on.
Started == {[node |-> n, frame |-> <<>>, iter |-> 0, dead |-> FALSE] : n \in graph.roots}

\* The closures that RunAsync gives to the pool are one for each root.
LEMMA StartedIs ==
    ASSUME GraphOK
    PROVE  /\ Started \in SUBSET Tagged /\ IsFiniteSet(Started)
           /\ Cardinality(Started) = Cardinality(graph.roots)
           /\ IsFiniteSet(graph.roots) /\ Cardinality(graph.roots) \in Nat
<1> DEFINE start == [n \in graph.roots |-> [node |-> n, frame |-> <<>>, iter |-> 0, dead |-> FALSE]]
<1>1. /\ graph.roots \in SUBSET DOMAIN graph.kind /\ \A n \in graph.roots : graph.frame[n] = Root
      /\ IsFiniteSet(DOMAIN graph.kind)
  BY GraphFacts DEF GraphOK
<1>2. IsFiniteSet(graph.roots) /\ Cardinality(graph.roots) \in Nat
  BY <1>1, FS_Subset, FS_CardinalityType
<1>3. Started \in SUBSET Tagged
  <2>1. ASSUME NEW n \in graph.roots PROVE [node |-> n, frame |-> <<>>, iter |-> 0, dead |-> FALSE] \in Tagged
    <3>1. n \in DOMAIN graph.kind /\ graph.frame[n] = Root /\ <<>> \in Paths /\ FrameInfo(<<>>) = Root
      BY <1>1, PathRoot
    <3> QED
      BY <3>1 DEF Tagged
  <2> QED
    BY <2>1 DEF Started
<1>4. start \in Bijection(graph.roots, Started)
  <2>1. start \in [graph.roots -> Started]
    BY DEF Started
  <2>2. \A x \in Started : \E n \in graph.roots : start[n] = x
    BY DEF Started
  <2>3. \A m, n \in graph.roots : start[m] = start[n] => m = n
    <3> TAKE m, n \in graph.roots
    <3>1. start[m].node = m /\ start[n].node = n
      OBVIOUS
    <3> HIDE DEF start
    <3> QED
      BY <3>1
  <2> HIDE DEF start
  <2> QED
    BY <2>1, <2>2, <2>3 DEF Bijection, Injection, Surjection, IsInjective
<1>5. IsFiniteSet(Started) /\ Cardinality(Started) = Cardinality(graph.roots)
  BY <1>2, <1>4, FS_Bijection DEF ExistsBijection
<1> QED
  BY <1>2, <1>3, <1>5

\* At first nodes are only in the pool.
LEMMA InitOut ==
    ASSUME Init, GraphOK, NEW M, NEW places \in {InFrame, Entering}
    PROVE  Outstanding(M, places) = Cardinality(Started \cap M)
<1>1. pool = SetToBag(Started) /\ asyncs = SetToBag({}) /\ th = [t \in Threads |-> Idle]
  BY DEF Init, Started, EmptyBag
<1>2. Copies(pool, M) = Cardinality(Started \cap M) /\ Cardinality(Started \cap M) \in Nat
  <2>1. Started \in SUBSET Tagged /\ IsFiniteSet(Started)
    BY StartedIs
  <2>2. IsFiniteSet(Started \cap M)
    BY <2>1, FS_Subset
  <2> QED
    BY <1>1, <2>1, <2>2, BagOfSet, FS_CardinalityType
<1>3. Copies(asyncs, M) = 0
  <2>1. IsFiniteSet({}) /\ Cardinality({} \cap M) = 0
    BY FS_EmptySet
  <2> QED
    BY <1>1, <2>1, BagOfSet
<1>4. Total([t \in Threads |-> Has(th[t], M, places)]) = 0
  <2> DEFINE f == [t \in Threads |-> Has(th[t], M, places)]
  <2>1. Has(Idle, M, places) = 0
    BY IdleIs, HasAt, AmongNothing
  <2>2. \A t \in Threads : f[t] = 0
    BY <1>1, <2>1
  <2>3. f \in [Threads -> Int]
    BY <2>2
  <2> HIDE DEF f
  <2>4. Total(f) = 0
    BY <2>2, <2>3, TotalZero
  <2> QED
    BY <2>4 DEF f
<1>5. Outstanding(M, places) = Copies(pool, M) + Copies(asyncs, M) + Total([t \in Threads |-> Has(th[t], M, places)])
  BY OutNow DEF Out
<1> QED
  BY <1>2, <1>3, <1>4, <1>5

\* The frame of the whole graph.
LEMMA InitFrame ==
    ASSUME Init, GraphOK
    PROVE  /\ DOMAIN frames = {<<>>} /\ frames = [f \in DOMAIN frames |-> frames[f]]
           /\ FrameOK(frames[<<>>], <<>>) /\ RootsWait(frames[<<>>])
           /\ frames[<<>>].num_pending_inputs = 0
           /\ \A i \in Nat : /\ OpsIn(frames[<<>>], i) = IF i = 0 THEN Cardinality(graph.roots) ELSE 0
                             /\ SubIn(frames[<<>>], i) = 0
           /\ \A n \in NodesOf(Root) : graph.pending[n] = 0 => MayIn(frames[<<>>], n, 0) = 0
<1> DEFINE fs == FrameState(Root, 1)
           is == IterationState(Root, 0)
           n == Cardinality(graph.roots)
           js == [is EXCEPT !.outstanding_ops = n]
           gs == SetIteration(fs, 0, js)
<1>1. <<>> \in Paths /\ FrameInfo(<<>>) = Root /\ Parallel(<<>>) = 1
  BY PathRoot
<1>2. /\ FrameOK(fs, <<>>) /\ RootsWait(fs) /\ fs.num_pending_inputs = 0
      /\ GetIteration(fs, 0) = is /\ \A i \in Nat : Living(fs, i) <=> i = 0
  BY <1>1, FreshFrame
<1>3. /\ is \in Iterations(<<>>) /\ is.iter = 0 /\ is.outstanding_frame_count = 0
      /\ \A m \in NodesOf(Root) : is.pending[m] = graph.pending[m]
  BY <1>1, StateIs
<1>4. n \in Nat
  BY StartedIs
<1> HIDE DEF is, n
<1>5. /\ js \in Iterations(<<>>) /\ js.iter = 0 /\ js.outstanding_frame_count = 0 /\ js.outstanding_ops = n
      /\ js.pending = is.pending
  <2>1. n \in Int
    BY <1>4
  <2>2. js \in Iterations(<<>>)
    BY <1>3, <2>1 DEF Iterations
  <2>3. js.outstanding_ops = n
    BY <1>3 DEF Iterations
  <2>4. js.iter = is.iter /\ js.outstanding_frame_count = is.outstanding_frame_count /\ js.pending = is.pending
    BY <1>3 DEF Iterations
  <2> QED
    BY <1>3, <2>2, <2>3, <2>4
<1> HIDE DEF js
<1>6. /\ FrameOK(gs, <<>>) /\ Alike(fs, gs) /\ GetIteration(gs, 0) = js
  <2> HIDE DEF fs
  <2> QED
    BY <1>1, <1>2, <1>5, InPlace
<1>7. frames = [f \in {<<>>} |-> gs]
  <2>1. frames = [f \in {<<>>} |-> [fs EXCEPT !.iterations[0].outstanding_ops = n]]
    BY DEF Init, n
  <2>2. Slot(fs, 0) = 0 /\ fs.iterations[0] = is
    <3>1. fs.max_parallel_iterations = 1
      BY DEF FrameState
    <3>2. 0 % 2 = 0 /\ 1 + 1 = 2
      OBVIOUS
    <3>3. Slot(fs, 0) = 0
      BY <3>1, <3>2 DEF Slot
    <3> QED
      BY <1>2, <3>3 DEF GetIteration
  <2> HIDE DEF fs
  <2>3. [fs EXCEPT !.iterations[0].outstanding_ops = n] = gs
    BY <2>2 DEF SetIteration, js
  <2> QED
    BY <2>1, <2>3
<1> HIDE DEF gs, fs
<1>8. DOMAIN frames = {<<>>} /\ frames[<<>>] = gs
  BY <1>7
<1>9. frames = [f \in DOMAIN frames |-> frames[f]]
  BY <1>7
<1>10. RootsWait(gs) /\ gs.num_pending_inputs = 0 /\ \A i \in Nat : Living(gs, i) <=> i = 0
  BY <1>2, <1>6 DEF Alike, RootsWait
<1>11. \A i \in Nat : OpsIn(gs, i) = (IF i = 0 THEN n ELSE 0) /\ SubIn(gs, i) = 0
  BY <1>5, <1>6, <1>10 DEF OpsIn, SubIn
<1>12. ASSUME NEW m \in NodesOf(Root), graph.pending[m] = 0 PROVE MayIn(gs, m, 0) = 0
  <2>1. GetIteration(gs, 0).pending[m] = 0 /\ Living(gs, 0)
    BY <1>3, <1>5, <1>6, <1>10, <1>12
  <2> QED
    BY <2>1 DEF MayIn
<1> QED
  BY <1>6, <1>8, <1>9, <1>10, <1>11, <1>12 DEF n

\* The executor starts as the invariant says.
LEMMA InitSane ==
    ASSUME Init
    PROVE  Sane
<1>1. GraphOK
  BY InitGraph
<1>2. /\ th = [t \in Threads |-> Idle] /\ fired = {} /\ closed = {} /\ status = TRUE /\ aborted = FALSE
      /\ pool = SetToBag(Started) /\ asyncs = SetToBag({})
  BY DEF Init, Started, EmptyBag
<1>3. /\ DOMAIN frames = {<<>>} /\ frames = [f \in DOMAIN frames |-> frames[f]]
      /\ FrameOK(frames[<<>>], <<>>) /\ RootsWait(frames[<<>>])
      /\ frames[<<>>].num_pending_inputs = 0
      /\ \A i \in Nat : /\ OpsIn(frames[<<>>], i) = IF i = 0 THEN Cardinality(graph.roots) ELSE 0
                        /\ SubIn(frames[<<>>], i) = 0
      /\ \A n \in NodesOf(Root) : graph.pending[n] = 0 => MayIn(frames[<<>>], n, 0) = 0
  BY <1>1, InitFrame
<1>4. <<>> \in Paths /\ FrameInfo(<<>>) = Root
  BY PathRoot
<1>5. /\ Started \in SUBSET Tagged /\ IsFiniteSet(Started) /\ Cardinality(Started) = Cardinality(graph.roots)
      /\ Cardinality(graph.roots) \in Nat
  BY <1>1, StartedIs
<1>6. \A t \in Threads : th[t] = Idle /\ th[t].pc = "idle"
  BY <1>2, IdleIs
<1>7. Typed
  <2>1. th \in [Threads -> ThreadStates]
    BY <1>2, IdleIs
  <2>2. BagOver(pool) /\ BagOver(asyncs)
    <3>1. IsFiniteSet({}) /\ {} \in SUBSET Tagged
      BY FS_EmptySet
    <3> QED
      BY <1>2, <1>5, <3>1, BagOfSet
  <2>3. IsFiniteSet(DOMAIN frames)
    BY <1>3, FS_Singleton
  <2> QED
    BY <1>2, <1>3, <1>4, <2>1, <2>2, <2>3 DEF Typed
<1>8. ThreadsOK
  BY <1>6, IdleIs DEF ThreadsOK
<1>9. DeletersOK
  BY <1>6 DEF DeletersOK, At, Deleting
<1>10. OpsCover
  <2>1. ASSUME NEW f \in Paths, NEW i \in Nat PROVE Outstanding(NodesIn(f, i), InFrame) = OpsOf(f, i)
    <3>1. Outstanding(NodesIn(f, i), InFrame) = Cardinality(Started \cap NodesIn(f, i))
      BY <1>1, InitOut
    <3>2. CASE f = <<>> /\ i = 0
      <4>1. \A x \in Started : x \in NodesIn(f, i)
        <5>1. \A x \in Started : x.frame = <<>> /\ x.iter = 0
          BY DEF Started
        <5> QED
          BY <1>5, <3>2, <5>1, TaggedIs
      <4>2. Started \cap NodesIn(f, i) = Started
        BY <4>1
      <4> QED
        BY <1>3, <1>5, <3>1, <3>2, <4>2 DEF OpsOf
    <3>3. CASE ~ (f = <<>> /\ i = 0)
      <4>1. Started \cap NodesIn(f, i) = {}
        BY <3>3 DEF Started, NodesIn
      <4>2. OpsOf(f, i) = 0
        BY <1>3, <3>3 DEF OpsOf
      <4> QED
        BY <3>1, <4>1, <4>2, FS_EmptySet
    <3> QED
      BY <3>2, <3>3
  <2>2. \A f \in Paths, i \in Nat : OpsOf(f, i) \in Int
    BY <1>3, <1>5 DEF OpsOf
  <2> QED
    BY <2>1, <2>2 DEF OpsCover
<1>11. SubCover
  <2>1. ASSUME NEW f \in Paths, NEW i \in Nat
        PROVE  Cardinality(Kids(f, i)) + Cardinality(Told(f, i)) <= SubOf(f, i)
    <3>1. Kids(f, i) = {} /\ Told(f, i) = {}
      BY <1>3, <1>6 DEF Kids, Told, At
    <3>2. SubOf(f, i) = 0
      BY <1>3 DEF SubOf
    <3> QED
      BY <3>1, <3>2, FS_EmptySet
  <2> QED
    BY <2>1 DEF SubCover
<1>12. EnterOnce
  <2>1. ASSUME NEW n \in Enters, NEW f \in Paths, NEW i \in Nat, graph.frame[n] = FrameInfo(f)
        PROVE  Outstanding(OneNode(n, f, i), Entering) + MayOf(n, f, i) + (IF HasFired(n, f, i) THEN 1 ELSE 0) <= 1
    <3> DEFINE x == [node |-> n, frame |-> <<>>, iter |-> 0, dead |-> FALSE]
               S == Started \cap OneNode(n, f, i)
    <3>1. Outstanding(OneNode(n, f, i), Entering) = Cardinality(S)
      BY <1>1, InitOut
    <3>2. ~ HasFired(n, f, i) /\ MayOf(n, f, i) \in 0 .. 1
      BY <1>2 DEF HasFired, MayOf, MayIn
    <3>3. CASE f = <<>> /\ i = 0 /\ n \in graph.roots
      <4>1. S = {x}
        <5>1. x \in Started /\ x \in OneNode(n, f, i)
          BY <3>3 DEF Started, OneNode
        <5>2. ASSUME NEW y \in S PROVE y = x
          <6>1. PICK m \in graph.roots : y = [node |-> m, frame |-> <<>>, iter |-> 0, dead |-> FALSE]
            BY <5>2 DEF Started
          <6>2. y.node = n
            BY <5>2 DEF OneNode
          <6> QED
            BY <6>1, <6>2
        <5> QED
          BY <5>1, <5>2
      <4>2. Cardinality(S) = 1
        BY <4>1, FS_Singleton
      <4>3. n \in NodesOf(Root) /\ graph.pending[n] = 0
        BY <1>1, <1>4, <2>1, <3>3, GraphFacts DEF GraphOK, NodesOf
      <4>4. MayOf(n, f, i) = 0
        BY <1>3, <3>3, <4>3 DEF MayOf
      <4> QED
        BY <3>1, <3>2, <4>2, <4>4
    <3>4. CASE ~ (f = <<>> /\ i = 0 /\ n \in graph.roots)
      <4>1. S = {}
        BY <3>4 DEF Started, OneNode
      <4>2. Cardinality(S) = 0
        BY <4>1, FS_EmptySet
      <4> QED
        BY <3>1, <3>2, <4>2
    <3> QED
      BY <3>3, <3>4
  <2> QED
    BY <2>1 DEF EnterOnce
<1>13. InputsCount
  BY <1>2, <1>3 DEF InputsCount
<1> QED
  BY <1>1, <1>7, <1>8, <1>9, <1>10, <1>11, <1>12, <1>13 DEF Sane

-----------------------------------------------------------------------------
(* The invariant holds, and what follows from it alone.                    *)

\* Nothing changes for those who look at the step from outside.
LEMMA StutterKeeps ==
    ASSUME Sane, UNCHANGED vars
    PROVE  Sane'
<1>0. GraphOK /\ Typed /\ ThreadsOK /\ DeletersOK /\ OpsCover /\ SubCover /\ EnterOnce /\ InputsCount
  BY DEF Sane
<1>1. /\ graph' = graph /\ inter_threadpool' = inter_threadpool /\ frames' = frames /\ th' = th
      /\ pool' = pool /\ asyncs' = asyncs /\ status' = status /\ aborted' = aborted
      /\ fired' = fired /\ closed' = closed
  BY DEF vars, run, state, history
<1>2. /\ Enters' = Enters /\ Paths' = Paths /\ Tagged' = Tagged /\ ThreadStates' = ThreadStates
      /\ \A fs, f : FrameOK(fs, f)' <=> FrameOK(fs, f)
      /\ \A b : BagOver(b)' <=> BagOver(b)
  BY <1>1, SameGraph
<1>3. /\ \A f, i : Outstanding(NodesIn(f, i), InFrame)' = Outstanding(NodesIn(f, i), InFrame)
      /\ \A n, f, i : Outstanding(OneNode(n, f, i), Entering)' = Outstanding(OneNode(n, f, i), Entering)
  <2>1. ASSUME NEW M, NEW places PROVE Outstanding(M, places)' = Outstanding(M, places)
    <3>1. Outstanding(M, places)' = Out(pool', asyncs', th', M, places)
      BY <1>1, OutNext
    <3>2. Outstanding(M, places) = Out(pool, asyncs, th, M, places)
      BY OutNow
    <3> QED
      BY <1>1, <3>1, <3>2
  <2>2. ASSUME NEW f, NEW i PROVE Outstanding(NodesIn(f, i), InFrame)' = Outstanding(NodesIn(f, i), InFrame)
    <3>1. Outstanding(NodesIn(f, i), InFrame)' = Out(pool', asyncs', th', NodesIn(f, i), InFrame)
      BY <1>1, OutNext
    <3>2. Outstanding(NodesIn(f, i), InFrame) = Out(pool, asyncs, th, NodesIn(f, i), InFrame)
      BY OutNow
    <3> QED
      BY <1>1, <3>1, <3>2
  <2> QED
    BY <2>1, <2>2 DEF OneNode
<1>4. GraphOK'
  BY <1>0, <1>1, SameGraph
<1>5. Typed'
  BY <1>0, <1>1, <1>2 DEF Typed
<1>6. ThreadsOK'
  BY <1>0, <1>1, <1>2 DEF ThreadsOK, ThreadOK
<1>7. DeletersOK'
  BY <1>0, <1>1 DEF DeletersOK, At, Child, InputFrame, InputIter, Node, Deleting
<1>8. OpsCover'
  <2>1. Sound' <=> Sound
    BY <1>1 DEF Sound
  <2>2. \A f, i : OpsOf(f, i)' = OpsOf(f, i)
    BY <1>1 DEF OpsOf
  <2> QED
    BY <1>0, <1>2, <1>3, <2>1, <2>2 DEF OpsCover
<1>9. SubCover'
  <2>1. \A f, i : Kids(f, i)' = Kids(f, i) /\ Told(f, i)' = Told(f, i) /\ SubOf(f, i)' = SubOf(f, i)
    BY <1>1 DEF Kids, Told, SubOf, At
  <2> QED
    BY <1>0, <1>2, <2>1 DEF SubCover
<1>10. EnterOnce'
  <2>1. \A n, f, i : (HasFired(n, f, i)' <=> HasFired(n, f, i)) /\ MayOf(n, f, i)' = MayOf(n, f, i)
    BY <1>1 DEF HasFired, MayOf
  <2> QED
    BY <1>0, <1>1, <1>2, <1>3, <2>1 DEF EnterOnce
<1>11. InputsCount'
  BY <1>0, <1>1, InputsSame
<1> QED
  BY <1>4, <1>5, <1>6, <1>7, <1>8, <1>9, <1>10, <1>11 DEF Sane

\* Whatever a thread does.
LEMMA NextKeeps ==
    ASSUME Sane, Next
    PROVE  Sane'
<1>1. PICK t \in Threads : Take(t) \/ AsyncDone(t) \/ DecNumDeferredOps(t) \/ Step(t)
  BY DEF Next
<1>2. CASE Take(t)
  BY <1>2, TakeKeeps
<1>3. CASE AsyncDone(t)
  BY <1>3, AsyncDoneKeeps
<1>4. CASE DecNumDeferredOps(t)
  BY <1>4, DecNumDeferredOpsKeeps
<1>5. CASE Step(t)
  <2>1. CASE Process(t)
    BY <2>1, ProcessKeeps
  <2>2. CASE Leave(t)
    BY <2>2, LeaveKeeps
  <2>3. CASE Propagate(t)
    BY <2>3, PropagateKeeps
  <2>4. CASE FindChildFrame(t)
    BY <2>4, FindChildFrameKeeps
  <2>5. CASE CreateChildFrame(t)
    BY <2>5, CreateChildFrameKeeps
  <2>6. CASE PropagateEnter(t)
    BY <2>6, PropagateEnterKeeps
  <2>7. CASE Decrement(t)
    BY <2>7, DecrementKeeps
  <2>8. CASE DeleteFrame(t)
    BY <2>8, DeleteFrameKeeps, DeleteRootKeeps
  <2>9. CASE EraseFrame(t)
    BY <2>9, EraseFrameKeeps
  <2>10. CASE CleanupFramesIterations(t)
    BY <2>10, CleanupKeeps
  <2>11. CASE NodeFailed(t)
    BY <2>11, NodeFailedKeeps
  <2>12. CASE StartAbort(t)
    BY <2>12, StartAbortKeeps
  <2>13. CASE CountNode(t)
    BY <2>13, CountNodeKeeps
  <2>14. CASE ScheduleReady(t)
    BY <2>14, ScheduleReadyKeeps
  <2>15. CASE ScheduleFinish(t)
    BY <2>15, ScheduleFinishKeeps
  <2>16. CASE Finish(t)
    BY <2>16, FinishKeeps
  <2> QED
    BY <1>5, <2>1, <2>2, <2>3, <2>4, <2>5, <2>6, <2>7, <2>8, <2>9, <2>10, <2>11, <2>12, <2>13,
       <2>14, <2>15, <2>16 DEF Step
<1> QED
  BY <1>1, <1>2, <1>3, <1>4, <1>5

\* The counts of the frames, of their iterations and of the inputs they wait for cover what
\* the threads and the queues have, whatever the threads of executor.cc do in between.
THEOREM SaneAlways == Spec => []Sane
<1>1. Init => Sane
  BY InitSane
<1>2. Sane /\ [Next]_vars => Sane'
  BY NextKeeps, StutterKeeps
<1> QED
  BY <1>1, <1>2, PTL DEF Spec

-----------------------------------------------------------------------------
(* The frames.                                                             *)

\* What a node or a thread needs is there.
LEMMA SaneAlive ==
    ASSUME Sane
    PROVE  IterationAlive
<1>0. GraphOK /\ Typed /\ ThreadsOK /\ OpsCover /\ SubCover
  BY DEF Sane
<1>1. ASSUME NEW x \in Waiting PROVE x.frame \in DOMAIN frames /\ Living(frames[x.frame], x.iter)
  <2>1. CASE x \in DOMAIN pool \/ x \in DOMAIN asyncs
    BY <1>0, <2>1, ReadyIsThere
  <2>2. CASE ~ (x \in DOMAIN pool \/ x \in DOMAIN asyncs)
    <3>1. PICK t \in Threads : x \in Elements(th[t].inline_ready) \union Elements(Ready(t))
      BY <1>1, <2>2 DEF Waiting, BagToSet
    <3>2. \/ \E k \in DOMAIN th[t].inline_ready : x = th[t].inline_ready[k]
          \/ \E k \in DOMAIN ReadyOf(th[t]) : x = ReadyOf(th[t])[k]
      BY <3>1, OutNow DEF Elements
    <3> QED
      BY <1>0, <3>2, ReadyIsThere
  <2> QED
    BY <2>1, <2>2
<1>2. ASSUME NEW x \in Working PROVE x.frame \in DOMAIN frames /\ Living(frames[x.frame], x.iter)
  <2>1. PICK t \in Threads : th[t].pc \in InFrame /\ x = th[t].tagged_node
    BY <1>2 DEF Working
  <2>2. InputFrame(t) \in DOMAIN frames /\ Living(frames[InputFrame(t)], InputIter(t))
    BY <1>0, <2>1, MineIsThere
  <2> QED
    BY <2>1, <2>2 DEF InputFrame, InputIter
<1>3. ASSUME NEW f \in DOMAIN frames, frames[f].num_pending_inputs > 0 PROVE Living(frames[f], 0)
  BY <1>0, <1>3, TypedParts DEF FrameOK
<1>4. ASSUME NEW f \in DOMAIN frames \ {<<>>}
      PROVE  ParentFrame(f) \in DOMAIN frames /\ Living(frames[ParentFrame(f)], ParentIter(f))
  <2>1. f \in Paths
    BY <1>0, TypedParts
  <2> QED
    BY <1>0, <2>1, ParentIsThere
<1> QED
  BY <1>1, <1>2, <1>3, <1>4 DEF IterationAlive, Living

\* An iteration that is in its place.
LEMMA PlaceIs ==
    ASSUME Sane, NEW f \in DOMAIN frames, NEW k \in IterationStates(frames[f])
    PROVE  LET is == frames[f].iterations[k]
           IN  /\ is.iter \in Nat /\ GetIteration(frames[f], is.iter) = is /\ Living(frames[f], is.iter)
               /\ is.iter \in Oldest(frames[f]) .. frames[f].iteration_count
<1> DEFINE fs == frames[f]
           is == fs.iterations[k]
<1>1. f \in Paths /\ FrameOK(fs, f)
  BY TypedParts DEF Sane
<1>2. fs \in FrameStates(f) /\ Window(fs)
  BY <1>1 DEF FrameOK
<1>3. fs.iterations \in [0 .. Parallel(f) -> Iterations(f) \union {NoIteration}] /\ fs.max_parallel_iterations = Parallel(f)
  BY <1>2, FrameFields
<1>4. k \in 0 .. Parallel(f) /\ is # NoIteration
  BY <1>3 DEF IterationStates
<1>5. is \in Iterations(f)
  BY <1>3, <1>4
<1>6. is.iter \in Nat
  <2> HIDE DEF is
  <2> QED
    BY <1>5, IterationFields
<1>7. is.iter \in Oldest(fs) .. fs.iteration_count /\ Slot(fs, is.iter) = k
  BY <1>2, <1>3, <1>4 DEF Window
<1> QED
  BY <1>6, <1>7 DEF GetIteration, Living

\* The counts of the iterations are those of their nodes.
LEMMA SaneOps ==
    ASSUME Sane
    PROVE  OpsExact
<1> SUFFICES ASSUME Sound, NEW f \in DOMAIN frames, NEW k \in IterationStates(frames[f])
             PROVE  frames[f].iterations[k].outstanding_ops =
                       Outstanding(NodesIn(f, frames[f].iterations[k].iter), InFrame)
  BY DEF OpsExact, Sound
<1> DEFINE is == frames[f].iterations[k]
<1>1. is.iter \in Nat /\ GetIteration(frames[f], is.iter) = is /\ Living(frames[f], is.iter)
  BY PlaceIs
<1>2. f \in Paths
  BY TypedParts DEF Sane
<1>3. OpsOf(f, is.iter) = is.outstanding_ops
  BY <1>1 DEF OpsOf, OpsIn
<1> HIDE DEF is
<1>4. Outstanding(NodesIn(f, is.iter), InFrame) = OpsOf(f, is.iter)
  BY <1>1, <1>2 DEF Sane, OpsCover
<1> QED
  BY <1>3, <1>4 DEF is

\* The iterations outstanding fit in their ring.
LEMMA SaneParallel ==
    ASSUME Sane
    PROVE  ParallelIterations
<1> SUFFICES ASSUME NEW f \in DOMAIN frames
             PROVE  LET fs == frames[f]
                        iters == {fs.iterations[k].iter : k \in IterationStates(fs)}
                    IN  /\ fs.num_outstanding_iterations = Cardinality(iters)
                        /\ fs.num_outstanding_iterations <= fs.max_parallel_iterations
                        /\ iters = (fs.iteration_count - fs.num_outstanding_iterations + 1)..fs.iteration_count
                        /\ fs.next_iter_roots # <<>> => fs.num_outstanding_iterations = fs.max_parallel_iterations
  BY DEF ParallelIterations
<1> DEFINE fs == frames[f]
           iters == {fs.iterations[k].iter : k \in IterationStates(fs)}
<1>0. GraphOK /\ f \in Paths /\ FrameOK(fs, f) /\ RootsWait(fs)
  BY TypedParts DEF Sane
<1>1. fs \in FrameStates(f) /\ Window(fs)
  BY <1>0 DEF FrameOK
<1>2. fs.iteration_count \in Nat /\ fs.num_outstanding_iterations \in Nat
  BY <1>1, FrameFields
<1>3. fs.num_outstanding_iterations <= fs.max_parallel_iterations /\ Oldest(fs) >= 0
  BY <1>1 DEF Window
<1>4. ASSUME NEW i \in iters PROVE i \in Oldest(fs) .. fs.iteration_count
  BY PlaceIs
<1>5. ASSUME NEW i \in Oldest(fs) .. fs.iteration_count PROVE i \in iters
  <2>1. i \in Nat /\ Living(fs, i)
    BY <1>1, <1>2, <1>3 DEF Oldest, Window
  <2>2. /\ Slot(fs, i) \in 0 .. Parallel(f) /\ GetIteration(fs, i) = fs.iterations[Slot(fs, i)]
        /\ GetIteration(fs, i) \in Iterations(f) /\ GetIteration(fs, i).iter = i
    <3> HIDE DEF fs
    <3> QED
      BY <1>0, <1>1, <2>1, GetIs DEF Living
  <2>3. GetIteration(fs, i) # NoIteration
    <3> HIDE DEF fs
    <3> QED
      BY <2>2, IterationFields
  <2>4. DOMAIN fs.iterations = 0 .. Parallel(f)
    <3>1. fs.iterations \in [0 .. Parallel(f) -> Iterations(f) \union {NoIteration}]
      BY <1>1, FrameFields
    <3> QED
      BY <3>1
  <2>5. Slot(fs, i) \in IterationStates(fs) /\ fs.iterations[Slot(fs, i)].iter = i
    BY <2>2, <2>3, <2>4 DEF IterationStates
  <2> HIDE DEF fs
  <2> QED
    BY <2>5
<1>6. iters = Oldest(fs) .. fs.iteration_count
  <2> HIDE DEF iters, fs
  <2> QED
    BY <1>4, <1>5
<1> HIDE DEF iters, fs
<1>7. Cardinality(iters) = fs.num_outstanding_iterations
  <2>1. Oldest(fs) \in Int /\ fs.iteration_count \in Int
    BY <1>2 DEF Oldest
  <2>2. Cardinality(Oldest(fs) .. fs.iteration_count) =
           IF Oldest(fs) > fs.iteration_count THEN 0 ELSE fs.iteration_count - Oldest(fs) + 1
    BY <2>1, FS_Interval
  <2>3. (IF Oldest(fs) > fs.iteration_count THEN 0 ELSE fs.iteration_count - Oldest(fs) + 1) = fs.num_outstanding_iterations
    BY <1>2 DEF Oldest
  <2> QED
    BY <1>6, <2>2, <2>3
<1> QED
  BY <1>0, <1>3, <1>6, <1>7 DEF Oldest, RootsWait, iters, fs

-----------------------------------------------------------------------------
(* What holds in every state.                                              *)

\* A node that is ready or runs has its frame and its iteration, and a frame has the
\* iteration it was entered from: neither is freed nor its place taken.
THEOREM IterationAliveAlways == Spec => []IterationAlive
<1> QED
  BY SaneAlways, SaneAlive, PTL

\* While no node has failed, the count of an iteration is that of its nodes.
THEOREM OpsExactAlways == Spec => []OpsExact
<1> QED
  BY SaneAlways, SaneOps, PTL

\* At most max_parallel_iterations are outstanding, the latest ones.
THEOREM ParallelIterationsAlways == Spec => []ParallelIterations
<1> QED
  BY SaneAlways, SaneParallel, PTL
=============================================================================
