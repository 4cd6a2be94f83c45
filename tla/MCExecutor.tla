----------------------------- MODULE MCExecutor ----------------------------
(* Graphs on which TLC checks module Executor.                              *)
EXTENDS ExecutorProperties

E(to, slot, at) == [to |-> to, slot |-> slot, at |-> at]
C(to) == E(to, Control, 0)

None == [enters |-> <<>>, parallel |-> <<>>, trips |-> <<>>, async |-> {}, expensive |-> {},
         fails |-> {}, never |-> {}, defers |-> {}, no_value |-> {}]

\* One output read by three nodes, one expensive, one asynchronous, one deferred.
Fan == [kind |-> ("a" :> "op" @@ "b" :> "op" @@ "c" :> "op" @@ "d" :> "op" @@ "e" :> "op" @@ "z" :> "sink"),
        out |-> ("a" :> <<E("b", 0, 0), E("c", 0, 0), E("d", 0, 0)>> @@
                 "b" :> <<E("e", 0, 0)>> @@ "c" :> <<E("e", 0, 1)>> @@ "d" :> <<C("e"), C("z")>> @@
                 "e" :> <<C("z")>> @@ "z" :> <<>>)] @@
       [None EXCEPT !.async = {"c"}, !.expensive = {"a", "b", "e"}, !.defers = {"d"}]

\* A conditional: one side is dead, and a control trigger runs whichever it is.
Cond(taken) ==
    [kind |-> ("p" :> "op" @@ "s" :> "switch" @@ "t" :> "op" @@ "f" :> "op" @@ "m" :> "merge" @@
               "q" :> "op" @@ "g" :> "control_trigger" @@ "x" :> "transfer"),
     out |-> ("p" :> <<E("s", 0, 0), E("q", 0, 0)>> @@ "q" :> <<C("m")>> @@
              "s" :> <<E("t", 1, 0), E("f", 0, 0)>> @@ "t" :> <<E("m", 0, 0), C("g"), E("x", 0, 0)>> @@
              "f" :> <<E("m", 0, 1)>> @@ "m" :> <<>> @@ "g" :> <<>> @@ "x" :> <<>>)] @@
    [None EXCEPT !.trips = ("s" :> taken), !.expensive = {"q", "t"}]

\* A Recv ends well without a value: what reads it is dead, what waits for it is not.
Received ==
    [kind |-> ("r" :> "transfer" @@ "b" :> "op" @@ "t" :> "op" @@ "m" :> "merge" @@ "u" :> "op"),
     out |-> ("r" :> <<E("t", 0, 0), C("u")>> @@ "b" :> <<E("m", 0, 1), E("u", 0, 0)>> @@
              "t" :> <<E("m", 0, 0)>> @@ "m" :> <<>> @@ "u" :> <<>>)] @@
    [None EXCEPT !.async = {"r"}, !.no_value = {"r"}]

\* Two live values race for a merge that also waits for a control edge.
Race == [kind |-> ("a" :> "op" @@ "b" :> "op" @@ "c" :> "op" @@ "d" :> "op" @@ "m" :> "merge" @@ "e" :> "op"),
         out |-> ("a" :> <<E("b", 0, 0), E("c", 0, 0), E("d", 0, 0)>> @@ "b" :> <<E("m", 0, 0)>> @@
                  "c" :> <<E("m", 0, 1)>> @@ "d" :> <<C("m")>> @@ "m" :> <<E("e", 0, 0)>> @@ "e" :> <<>>)] @@
        [None EXCEPT !.async = {"b"}, !.expensive = {"c", "d"}]

\* A loop: the counter and a loop invariant enter, and the body adds the one to
\* the other.  The condition, the body and the side node are read in parallel.
LoopKind == "r" :> "op" @@ "k" :> "op" @@ "en" :> "enter" @@ "ce" :> "const_enter" @@ "mg" :> "merge" @@
            "sw" :> "switch" @@ "ex" :> "exit" @@ "bd" :> "op" @@ "nx" :> "next_iteration" @@ "o" :> "op"
LoopOut == "r" :> <<E("en", 0, 0)>> @@ "k" :> <<E("ce", 0, 0)>> @@ "en" :> <<E("mg", 0, 0)>> @@
           "ce" :> <<E("bd", 0, 1)>> @@ "mg" :> <<E("sw", 0, 0)>> @@
           "sw" :> <<E("ex", 0, 0), E("bd", 1, 0)>> @@ "bd" :> <<E("nx", 0, 0)>> @@
           "nx" :> <<E("mg", 0, 1)>> @@ "ex" :> <<E("o", 0, 0)>> @@ "o" :> <<>>
Loop(trips, par) ==
    [kind |-> LoopKind, out |-> LoopOut] @@
    [None EXCEPT !.enters = ("en" :> "w" @@ "ce" :> "w"), !.parallel = ("w" :> par),
                 !.trips = ("sw" :> trips), !.expensive = {"bd"}]

\* A loop whose body has a slow node that nobody waits for: iterations overlap.
Overlap(trips, par) ==
    [kind |-> ("r" :> "op" @@ "en" :> "enter" @@ "mg" :> "merge" @@ "sw" :> "switch" @@ "ex" :> "exit" @@
               "sl" :> "op" @@ "nx" :> "next_iteration"),
     out |-> ("r" :> <<E("en", 0, 0)>> @@ "en" :> <<E("mg", 0, 0)>> @@ "mg" :> <<E("sw", 0, 0)>> @@
              "sw" :> <<E("ex", 0, 0), E("sl", 1, 0), E("nx", 1, 0)>> @@ "nx" :> <<E("mg", 0, 1)>> @@
              "sl" :> <<>> @@ "ex" :> <<>>)] @@
    [None EXCEPT !.enters = ("en" :> "w"), !.parallel = ("w" :> par), !.trips = ("sw" :> trips),
                 !.async = {"sl"}]

\* A loop on the side of a conditional that may not be taken: its exit is dead.
DeadLoop(taken) ==
    [kind |-> (LoopKind @@ "p" :> "switch" @@ "j" :> "merge"),
     out |-> ("r" :> <<E("p", 0, 0)>> @@ "p" :> <<E("en", 1, 0), E("j", 0, 0)>> @@
              "ex" :> <<E("j", 0, 1)>> @@ "j" :> <<E("o", 0, 0)>> @@ LoopOut)] @@
    [None EXCEPT !.enters = ("en" :> "w" @@ "ce" :> "w"), !.parallel = ("w" :> 1),
                 !.trips = ("sw" :> 1 @@ "p" :> taken)]

\* A loop in the body of a loop.
Nested ==
    [kind |-> ("r" :> "op" @@ "en" :> "enter" @@ "mg" :> "merge" @@ "sw" :> "switch" @@ "ex" :> "exit" @@
               "nx" :> "next_iteration" @@ "en2" :> "enter" @@ "mg2" :> "merge" @@ "sw2" :> "switch" @@
               "ex2" :> "exit" @@ "nx2" :> "next_iteration" @@ "en3" :> "const_enter" @@ "u" :> "op"),
     out |-> ("r" :> <<E("en", 0, 0)>> @@ "en" :> <<E("mg", 0, 0)>> @@ "mg" :> <<E("sw", 0, 0)>> @@
              "sw" :> <<E("ex", 0, 0), E("en2", 1, 0), E("en3", 1, 0)>> @@
              "nx" :> <<E("mg", 0, 1)>> @@ "ex" :> <<>> @@
              "en2" :> <<E("mg2", 0, 0)>> @@ "en3" :> <<E("u", 0, 0)>> @@ "u" :> <<>> @@
              "mg2" :> <<E("sw2", 0, 0)>> @@ "sw2" :> <<E("ex2", 0, 0), E("nx2", 1, 0)>> @@
              "nx2" :> <<E("mg2", 0, 1)>> @@ "ex2" :> <<E("nx", 0, 0)>>)] @@
    [None EXCEPT !.enters = ("en" :> "w" @@ "en2" :> "v" @@ "en3" :> "v"),
                 !.parallel = ("w" :> 2 @@ "v" :> 2), !.trips = ("sw" :> 2 @@ "sw2" :> 1)]

\* A node fails while another one waits for a tensor that never comes.
Failing == [Fan EXCEPT !.fails = {"b"}, !.never = {"c"}]
FailingLoop == [Loop(2, 2) EXCEPT !.fails = {"bd"}]

Plain(g) == [graph |-> g, inter_threadpool |-> FALSE]
Malleable(g) == [graph |-> g, inter_threadpool |-> TRUE]

Steps == {Plain(g) : g \in {Fan, Race, Cond(0), Cond(1), Received, Loop(0, 2), Loop(2, 1), Loop(2, 2),
                            Overlap(2, 2), Overlap(3, 2), DeadLoop(0), DeadLoop(1), Nested, Failing, FailingLoop}}
         \union {Malleable(g) : g \in {Cond(1), Failing}}
=============================================================================
