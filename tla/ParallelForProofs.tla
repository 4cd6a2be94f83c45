-------------------------- MODULE ParallelForProofs -------------------------
(* What a call of ParallelForFixedBlockSizeScheduling promises, for every    *)
(* total, block size and pool: the ranges that are scheduled or in hand are  *)
(* disjoint and cut at blocks, so the count is the number of the blocks they *)
(* cover, and when it is zero nothing is left.                               *)
EXTENDS ParallelForProperties, FiniteSetTheorems, TLAPS

Blocks == 0..NumShards - 1
FirstOf(b) == b * call.block_size
IsFirst(i) == \E b \in 0..call.total : i = FirstOf(b)

\* A range starts with a block and ends with a block or with the last unit; fn is
\* called by a thread, with one block.
Cut(x) ==
    /\ x.first < x.last /\ x.last <= call.total
    /\ IsFirst(x.first)
    /\ x.last = call.total \/ IsFirst(x.last)
    /\ x.called => x.last - x.first <= call.block_size /\ x.by # Nobody

Holds(x, i) == x.first <= i /\ i < x.last
Covered == {b \in Blocks : \E x \in work : Holds(x, FirstOf(b))}
Pending(i) == \E x \in work : ~ x.called /\ Holds(x, i)

\* Nothing has happened before the call.
Fresh ==
    caller = "start" => /\ work = {} /\ times = [i \in Units |-> 0]
                        /\ ~ waiter /\ ~ notified /\ notify = {}
InBlocks == work # {} => caller # "start" /\ NumShards # 1
AllCut == \A x \in work : Cut(x)
Disjoint == \A x, y \in work : x # y => x.last <= y.first \/ y.last <= x.first
TimesExact == caller # "start" => \A i \in Units : times[i] = IF Pending(i) THEN 0 ELSE 1
CountExact == count = Cardinality(Covered)
\* Who notifies and who waits.
Handshake ==
    /\ notify # {} => count = 0 /\ caller = "waiting" /\ ~ notified /\ \E t : notify = {t}
    /\ notified => count = 0 /\ notify = {}
    /\ waiter => caller \in {"waiting", "returned"}
    /\ caller = "returned" => count = 0 /\ notify = {}

IInv ==
    /\ TypeOK /\ Fresh /\ InBlocks /\ AllCut /\ Disjoint
    /\ TimesExact /\ CountExact /\ Handshake

-----------------------------------------------------------------------------
(* Arithmetic.                                                               *)

\* Blocks are as long as they are apart.
LEMMA Apart == \A b, c, n \in Nat : b < c => b * n + n <= c * n
  BY SMT

\* Multiples add up.
LEMMA Adds == \A b, c, n \in Nat : b * n + c * n = (b + c) * n /\ b * n \in Nat
  BY SMT

\* Division rounds down.
LEMMA Rounds ==
    \A a \in Nat, n \in Nat \ {0} :
        a \div n \in Nat /\ (a \div n) * n <= a /\ a < (a \div n) * n + n
  BY SMT

\* A factor is not more than its product.
LEMMA Factor == \A b \in Nat, n \in Nat \ {0} : b <= b * n
  BY SMT

\* A multiple leaves no rest.
LEMMA NoRest == \A b \in Nat, n \in Nat \ {0} : (b * n) % n = 0
  BY SMT

-----------------------------------------------------------------------------
(* A call in blocks.                                                         *)

\* Its arguments, and what the number of its blocks is.
LEMMA BlocksOfCall ==
    ASSUME call \in Calls, NumShards # 1
    PROVE  /\ call.total \in Nat /\ call.block_size \in Nat \ {0}
           /\ call.total > call.block_size
           /\ NumShards \in Nat
           /\ \A b \in Nat : FirstOf(b) \in Nat /\ (b \in Blocks <=> FirstOf(b) < call.total)
<1>1. /\ call.total \in Nat /\ call.block_size \in Nat \ {0}
      /\ call.total > call.block_size
      /\ NumShards = (call.total + call.block_size - 1) \div call.block_size
  BY CallsAssumption DEF NumShards
<1> DEFINE n == call.block_size
           a == call.total + n - 1
<1>2. n \in Nat \ {0} /\ a \in Nat /\ call.total \in Nat
  BY <1>1
<1>3. /\ NumShards \in Nat
      /\ NumShards * n <= a /\ a < NumShards * n + n
  BY <1>1, <1>2, Rounds
<1>4. ASSUME NEW b \in Nat
      PROVE  b * n \in Nat /\ (b \in Blocks <=> b * n < call.total)
  <2>1. b * n \in Nat /\ NumShards * n \in Nat
    BY <1>2, <1>3, Adds
  <2>2. CASE b < NumShards
    <3>1. b * n + n <= NumShards * n
      BY <2>2, <1>2, <1>3, Apart
    <3>2. b * n < call.total
      BY <3>1, <2>1, <1>2, <1>3
    <3> QED
      BY <3>2, <2>1, <2>2, <1>3 DEF Blocks
  <2>3. CASE ~ b < NumShards
    <3>1. b = NumShards \/ NumShards * n + n <= b * n
      BY <2>3, <1>2, <1>3, Apart
    <3>2. b * n >= call.total
      BY <3>1, <2>1, <1>2, <1>3
    <3> QED
      BY <3>2, <2>1, <2>3, <1>2, <1>3 DEF Blocks
  <2> QED
    BY <2>2, <2>3
<1> QED
  BY <1>1, <1>3, <1>4 DEF FirstOf

\* The midpoint starts a block and leaves something on both sides.
LEMMA MidCuts ==
    ASSUME call \in Calls, NumShards # 1, NEW x \in Ranges, Cut(x),
           x.last - x.first > call.block_size
    PROVE  /\ Mid(x) \in Nat /\ x.first < Mid(x) /\ Mid(x) < x.last
           /\ IsFirst(Mid(x))
<1> DEFINE n == call.block_size
           half == (x.last - x.first) \div 2
           q == (half + n - 1) \div n
<1>1. /\ n \in Nat \ {0} /\ call.total \in Nat
      /\ x.first \in Nat /\ x.last \in Nat /\ x.last <= call.total /\ x.last - x.first > n
  BY BlocksOfCall DEF Ranges, Cut
<1>2. PICK b \in 0..call.total : x.first = b * n
  BY DEF Cut, IsFirst, FirstOf
<1>3. /\ half \in Nat /\ 1 <= half
      /\ 2 * half <= x.last - x.first
  BY <1>1
<1>4. half + n - 1 \in Nat
  BY <1>1, <1>3
<1> HIDE DEF half
<1>5. q \in Nat /\ q * n <= half + n - 1 /\ half + n - 1 < q * n + n
  BY <1>1, <1>4, Rounds
<1>6. Mid(x) = x.first + q * n
  BY DEF Mid, half
<1> HIDE DEF q
<1>7. q * n \in Nat /\ b * n \in Nat /\ b * n + q * n = (b + q) * n
  BY <1>1, <1>2, <1>5, Adds
<1>8. q * n < x.last - x.first
  <2>1. CASE n <= half
    BY <2>1, <1>1, <1>3, <1>5, <1>7
  <2>2. CASE half < n
    <3>1. ~ 1 < q
      <4>1. 1 < q => 1 * n + n <= q * n
        BY <1>1, <1>5, Apart
      <4> QED
        BY <4>1, <2>2, <1>1, <1>3, <1>5, <1>7
    <3>2. q = 0 \/ q = 1
      BY <3>1, <1>5
    <3> QED
      BY <3>2, <1>1
  <2> QED
    BY <2>1, <2>2, <1>1, <1>3
<1>9. Mid(x) \in Nat /\ x.first < Mid(x) /\ Mid(x) < x.last
  BY <1>1, <1>3, <1>5, <1>6, <1>7, <1>8
<1>10. b + q \in 0..call.total
  <2>1. b + q <= (b + q) * n
    BY <1>1, <1>2, <1>5, Factor
  <2> QED
    BY <2>1, <1>1, <1>2, <1>5, <1>6, <1>7, <1>9
<1>11. IsFirst(Mid(x))
  BY <1>2, <1>6, <1>7, <1>10 DEF IsFirst, FirstOf
<1> QED
  BY <1>9, <1>11

\* A range that is no longer than a block covers the block that it starts, alone.
LEMMA OneBlock ==
    ASSUME call \in Calls, NumShards # 1, NEW x \in Ranges, Cut(x),
           x.last - x.first <= call.block_size
    PROVE  \E b \in Blocks : /\ x.first = FirstOf(b)
                             /\ \A c \in Blocks : Holds(x, FirstOf(c)) <=> c = b
<1> DEFINE n == call.block_size
<1>1. n \in Nat \ {0} /\ x.first \in Nat /\ x.last \in Nat /\ call.total \in Nat /\ NumShards \in Nat
  BY BlocksOfCall DEF Ranges
<1>2. PICK b \in 0..call.total : x.first = FirstOf(b)
  BY DEF Cut, IsFirst
<1>3. b \in Blocks
  BY <1>1, <1>2, BlocksOfCall DEF Cut
<1>4. ASSUME NEW c \in Blocks
      PROVE  Holds(x, FirstOf(c)) <=> c = b
  <2>1. b \in Nat /\ c \in Nat
    BY <1>1, <1>2 DEF Blocks
  <2>2. /\ FirstOf(b) \in Nat /\ FirstOf(c) \in Nat
        /\ b < c => FirstOf(b) + n <= FirstOf(c)
        /\ c < b => FirstOf(c) + n <= FirstOf(b)
    BY <2>1, <1>1, Apart, Adds DEF FirstOf
  <2> HIDE DEF n
  <2>3. x.last - x.first <= n
    BY DEF n
  <2> QED
    BY <2>1, <2>2, <2>3, <1>1, <1>2 DEF Holds, Cut
<1> QED
  BY <1>2, <1>3, <1>4

-----------------------------------------------------------------------------
(* What every step keeps.                                                    *)

\* The call does not change, and with it what a block is.
LEMMA Frame ==
    ASSUME call' = call
    PROVE  /\ Units' = Units /\ Workers' = Workers /\ Ranges' = Ranges
           /\ NumShards' = NumShards /\ Blocks' = Blocks
           /\ \A b : FirstOf(b)' = FirstOf(b)
           /\ \A x : Cut(x)' <=> Cut(x)
<1>1. Units' = Units /\ Workers' = Workers /\ NumShards' = NumShards
  BY DEF Units, Workers, NumShards
<1>2. Ranges' = Ranges /\ Blocks' = Blocks
  BY <1>1 DEF Ranges, Blocks, Nobody, Caller
<1>3. \A b : FirstOf(b)' = FirstOf(b)
  BY DEF FirstOf
<1>4. \A i : IsFirst(i)' <=> IsFirst(i)
  BY <1>3 DEF IsFirst
<1>5. \A x : Cut(x)' <=> Cut(x)
  BY <1>4 DEF Cut, Nobody
<1> QED
  BY <1>1, <1>2, <1>3, <1>5

\* There are finitely many blocks.
LEMMA FiniteBlocks ==
    ASSUME call \in Calls
    PROVE  NumShards \in Nat /\ IsFiniteSet(Blocks) /\ IsFiniteSet(Covered)
<1>1. NumShards \in Nat
  <2>1. CASE NumShards = 1
    BY <2>1
  <2>2. CASE NumShards # 1
    BY <2>2, BlocksOfCall
  <2> QED
    BY <2>1, <2>2
<1>2. IsFiniteSet(0..NumShards - 1)
  <2>1. 0 \in Int /\ NumShards - 1 \in Int
    BY <1>1
  <2> QED
    BY <2>1, FS_Interval
<1>3. Covered \in SUBSET Blocks
  BY DEF Covered
<1> QED
  BY <1>1, <1>2, <1>3, FS_Subset DEF Blocks

\* When the count is zero, no range is left.
LEMMA ZeroIsAll ==
    ASSUME IInv, count = 0
    PROVE  work = {}
<1> SUFFICES ASSUME NEW x \in work
             PROVE  FALSE
  OBVIOUS
<1>1. call \in Calls /\ NumShards # 1 /\ Cut(x) /\ x \in Ranges
  BY DEF IInv, TypeOK, InBlocks, AllCut
<1>2. PICK b \in 0..call.total : x.first = FirstOf(b)
  BY <1>1 DEF Cut, IsFirst
<1>3. b \in Blocks /\ Holds(x, FirstOf(b))
  BY <1>1, <1>2, BlocksOfCall DEF Cut, Holds, Ranges
<1>4. Covered # {}
  BY <1>3 DEF Covered
<1>5. Cardinality(Covered) # 0
  BY <1>1, <1>4, FiniteBlocks, FS_EmptySet
<1> QED
  BY <1>5 DEF IInv, CountExact

\* A range is replaced by parts of it that hold what it held.
LEMMA Replaced ==
    ASSUME IInv, NEW x \in work, NEW parts,
           call' = call, caller' = caller, work' = (work \ {x}) \cup parts,
           \A y \in parts : y \in Ranges /\ Cut(y) /\ x.first <= y.first /\ y.last <= x.last,
           \A y, z \in parts : y # z => y.last <= z.first \/ z.last <= y.first,
           \A i \in Nat : Holds(x, i) <=> \E y \in parts : Holds(y, i)
    PROVE  work' \subseteq Ranges' /\ InBlocks' /\ AllCut' /\ Disjoint' /\ Covered' = Covered
<1> USE DEF IInv
<1>1. call \in Calls /\ NumShards # 1 /\ caller # "start" /\ work \subseteq Ranges
  BY DEF TypeOK, InBlocks
<1>2. work' \subseteq Ranges' /\ InBlocks'
  BY <1>1, Frame DEF InBlocks
<1>3. AllCut'
  BY Frame DEF AllCut
<1>4. Disjoint'
  <2>1. ASSUME NEW y \in parts, NEW z \in work, z # x
        PROVE  y.last <= z.first \/ z.last <= y.first
    <3>1. x.last <= z.first \/ z.last <= x.first
      BY <2>1 DEF Disjoint
    <3>2. /\ x.first <= y.first /\ y.last <= x.last
          /\ x.first \in Nat /\ x.last \in Nat /\ y.first \in Nat /\ y.last \in Nat
          /\ z.first \in Nat /\ z.last \in Nat
      BY <2>1, <1>1 DEF Ranges
    <3> QED
      BY <3>1, <3>2
  <2> QED
    BY <2>1 DEF Disjoint
<1>5. Covered' = Covered
  <2>1. \A b \in Blocks : FirstOf(b) \in Nat
    <3>1. \A b \in Blocks : b \in Nat
      BY <1>1, FiniteBlocks DEF Blocks
    <3> QED
      BY <3>1, <1>1, BlocksOfCall
  <2>2. \A i \in Nat : (\E y \in work' : Holds(y, i)) <=> (\E y \in work : Holds(y, i))
    OBVIOUS
  <2> QED
    BY <2>1, <2>2, Frame DEF Covered, Holds
<1> QED
  BY <1>2, <1>3, <1>4, <1>5

-----------------------------------------------------------------------------
(* The invariant, action by action.                                          *)

\* At first the whole range is one that waits, or nothing does.
LEMMA InitIInv == Init => IInv
<1> SUFFICES ASSUME Init PROVE IInv
  OBVIOUS
<1> USE DEF Init
<1>1. TypeOK
  BY FiniteBlocks DEF TypeOK, Units
<1>2. Covered = {}
  BY DEF Covered
<1>3. Fresh /\ InBlocks /\ AllCut /\ Disjoint /\ TimesExact /\ Handshake
  BY DEF Fresh, InBlocks, AllCut, Disjoint, TimesExact, Handshake
<1>4. CountExact
  BY <1>2, FS_EmptySet DEF CountExact
<1> QED
  BY <1>1, <1>3, <1>4 DEF IInv

\* A single block is run by the caller: the call is over at once.
LEMMA CallDirectlyKeeps == IInv /\ CallDirectly => IInv'
<1> SUFFICES ASSUME IInv, CallDirectly PROVE IInv'
  OBVIOUS
<1> USE DEF IInv, CallDirectly, counter
<1>1. work = {} /\ times = [i \in Units |-> 0] /\ ~ waiter /\ ~ notified /\ notify = {}
  BY DEF Fresh
<1>2. Covered = {} /\ Covered' = {} /\ count = 0
  BY <1>1, FS_EmptySet DEF Covered, CountExact
<1>3. TypeOK'
  <2>1. times' \in [Units -> Nat]
    BY <1>1
  <2> QED
    BY <2>1, Frame DEF TypeOK
<1>4. Fresh' /\ InBlocks' /\ AllCut' /\ Disjoint'
  BY <1>1 DEF Fresh, InBlocks, AllCut, Disjoint
<1>5. TimesExact'
  BY <1>1, Frame DEF TimesExact, Pending
<1>6. CountExact' /\ Handshake'
  BY <1>1, <1>2 DEF CountExact, Handshake
<1> QED
  BY <1>3, <1>4, <1>5, <1>6

\* The range is given to the caller or to the pool.
LEMMA StartKeeps == IInv /\ Start => IInv'
<1> SUFFICES ASSUME IInv, Start PROVE IInv'
  OBVIOUS
<1> USE DEF IInv
<1> DEFINE root == [first |-> 0, last |-> call.total, by |-> RootBy, called |-> FALSE]
<1>1. /\ work' = {root} /\ call' = call /\ caller' = "working" /\ count' = NumShards
      /\ NumShards # 1 /\ call \in Calls
      /\ UNCHANGED <<times, waiter, notified, notify>>
  BY DEF Start, TypeOK
<1>2. times = [i \in Units |-> 0] /\ ~ waiter /\ ~ notified /\ notify = {}
  BY DEF Fresh, Start
<1>3. call.total \in Nat /\ call.block_size \in Nat \ {0} /\ 0 < call.total
  BY <1>1, BlocksOfCall
<1>4. root \in Ranges /\ Cut(root)
  <2>1. FirstOf(0) = 0
    BY <1>3, Adds DEF FirstOf
  <2>2. IsFirst(0)
    BY <2>1, <1>3 DEF IsFirst
  <2> QED
    BY <2>2, <1>3 DEF Ranges, Cut, RootBy
<1>5. TypeOK'
  BY <1>1, <1>4, Frame, FiniteBlocks DEF TypeOK
<1>6. Fresh' /\ InBlocks' /\ AllCut' /\ Disjoint'
  BY <1>1, <1>4, Frame DEF Fresh, InBlocks, AllCut, Disjoint
<1>7. TimesExact'
  <2>1. ASSUME NEW i \in Units
        PROVE  Holds(root, i)
    BY <1>3 DEF Units, Holds
  <2> QED
    BY <2>1, <1>1, <1>2, Frame DEF TimesExact, Pending
<1>8. CountExact'
  <2>1. \A b \in Blocks : b \in Nat
    BY <1>1, FiniteBlocks DEF Blocks
  <2>2. \A b \in Blocks : Holds(root, FirstOf(b))
    BY <2>1, <1>1, BlocksOfCall DEF Holds
  <2>3. Covered' = Blocks
    BY <2>2, <1>1, Frame DEF Covered, Holds
  <2>4. NumShards \in Nat
    BY <1>1, FiniteBlocks
  <2>5. Cardinality(0..NumShards - 1) = NumShards
    <3>1. 0 \in Int /\ NumShards - 1 \in Int
      BY <2>4
    <3> QED
      BY <3>1, <2>4, FS_Interval
  <2> QED
    BY <2>3, <2>5, <1>1 DEF CountExact, Blocks
<1>9. Handshake'
  BY <1>1, <1>2 DEF Handshake
<1> QED
  BY <1>5, <1>6, <1>7, <1>8, <1>9

\* A thread of the pool takes a range.
LEMMA TakeKeeps ==
    ASSUME IInv, NEW t \in Workers, NEW x \in work, Take(t, x)
    PROVE  IInv'
<1> USE DEF IInv
<1> DEFINE y == [x EXCEPT !.by = t]
<1>1. /\ call' = call /\ caller' = caller /\ work' = (work \ {x}) \cup {y}
      /\ UNCHANGED <<times, count, waiter, notified, notify>>
  BY DEF Take, counter
<1>2. x \in Ranges /\ Cut(x) /\ y \in Ranges /\ y.first = x.first /\ y.last = x.last
      /\ y.called = x.called /\ y.by = t
  BY DEF TypeOK, AllCut, Ranges
<1>3. t # Nobody
  BY DEF Workers, Nobody, TypeOK
<1>4. Cut(y) /\ x.first <= y.first /\ y.last <= x.last /\ \A i \in Nat : Holds(x, i) <=> Holds(y, i)
  BY <1>2, <1>3 DEF Cut, Holds, Ranges
<1>5. work' \subseteq Ranges' /\ InBlocks' /\ AllCut' /\ Disjoint' /\ Covered' = Covered
  <2> DEFINE parts == {y}
  <2>1. /\ \A z \in parts : z \in Ranges /\ Cut(z) /\ x.first <= z.first /\ z.last <= x.last
        /\ \A z, u \in parts : z # u => z.last <= u.first \/ u.last <= z.first
        /\ \A i \in Nat : Holds(x, i) <=> \E z \in parts : Holds(z, i)
        /\ work' = (work \ {x}) \cup parts
    BY <1>1, <1>2, <1>4
  <2> HIDE DEF parts
  <2> QED
    BY <2>1, <1>1, Replaced
<1>6. TypeOK'
  BY <1>1, <1>5, Frame DEF TypeOK
<1>7. TimesExact'
  <2>1. \A i \in Units : Pending(i)' <=> Pending(i)
    BY <1>1, <1>2 DEF Pending, Holds
  <2> QED
    BY <2>1, <1>1, Frame DEF TimesExact
<1>8. Fresh' /\ CountExact' /\ Handshake'
  BY <1>1, <1>5 DEF Fresh, InBlocks, CountExact, Handshake
<1> QED
  BY <1>5, <1>6, <1>7, <1>8

\* A range is cut, and its upper part goes to the pool.
LEMMA SplitKeeps ==
    ASSUME IInv, NEW x \in work, Split(x)
    PROVE  IInv'
<1> USE DEF IInv
<1> DEFINE lower == LowerHalf(x)
           upper == UpperHalf(x)
           m == Mid(x)
<1>1. /\ call' = call /\ caller' = caller /\ work' = (work \ {x}) \cup {lower, upper}
      /\ UNCHANGED <<times, count, waiter, notified, notify>>
      /\ x.by # Nobody /\ ~ x.called /\ x.last - x.first > call.block_size
  BY DEF Split, counter
<1>2. call \in Calls /\ NumShards # 1 /\ x \in Ranges /\ Cut(x)
  BY DEF TypeOK, InBlocks, AllCut
<1>3. m \in Nat /\ x.first < m /\ m < x.last /\ IsFirst(m)
  BY <1>1, <1>2, MidCuts
<1>4. /\ lower = [first |-> x.first, last |-> m, by |-> x.by, called |-> x.called]
      /\ upper = [first |-> m, last |-> x.last, by |-> Nobody, called |-> FALSE]
  BY <1>2 DEF LowerHalf, UpperHalf, Ranges
<1> HIDE DEF lower, upper, m
<1>5. lower \in Ranges /\ upper \in Ranges /\ Cut(lower) /\ Cut(upper)
  <2>1. /\ lower.first = x.first /\ lower.last = m /\ lower.by = x.by /\ lower.called = FALSE
        /\ upper.first = m /\ upper.last = x.last /\ upper.by = Nobody /\ upper.called = FALSE
    BY <1>1, <1>2, <1>4 DEF Ranges
  <2>2. lower \in Ranges /\ upper \in Ranges
    BY <1>2, <1>3, <1>4 DEF Ranges
  <2>3. call.total \in Nat /\ x.first \in Nat /\ x.last \in Nat
    BY <1>2, BlocksOfCall DEF Ranges
  <2> QED
    BY <2>1, <2>2, <2>3, <1>2, <1>3 DEF Cut
<1>6. \A i \in Nat : Holds(x, i) <=> Holds(lower, i) \/ Holds(upper, i)
  BY <1>2, <1>3, <1>4 DEF Holds, Ranges
<1>7. work' \subseteq Ranges' /\ InBlocks' /\ AllCut' /\ Disjoint' /\ Covered' = Covered
  <2> DEFINE parts == {lower, upper}
  <2>0. /\ lower.first = x.first /\ lower.last = m /\ upper.first = m /\ upper.last = x.last
        /\ x.first \in Nat /\ x.last \in Nat
    BY <1>2, <1>4 DEF Ranges
  <2>1. \A z \in parts : z \in Ranges /\ Cut(z) /\ x.first <= z.first /\ z.last <= x.last
    BY <2>0, <1>3, <1>5
  <2>2. \A z, u \in parts : z # u => z.last <= u.first \/ u.last <= z.first
    BY <2>0, <1>3
  <2>3. \A i \in Nat : Holds(x, i) <=> \E z \in parts : Holds(z, i)
    BY <1>6
  <2>4. work' = (work \ {x}) \cup parts
    BY <1>1
  <2> HIDE DEF parts
  <2> QED
    BY <2>1, <2>2, <2>3, <2>4, <1>1, Replaced
<1>8. TypeOK'
  BY <1>1, <1>7, Frame DEF TypeOK
<1>9. TimesExact'
  <2>1. ASSUME NEW i \in Units
        PROVE  Pending(i)' <=> Pending(i)
    <3>1. i \in Nat
      BY <1>2, BlocksOfCall DEF Units
    <3>2. ~ lower.called /\ ~ upper.called
      BY <1>1, <1>4
    <3> QED
      BY <3>1, <3>2, <1>1, <1>6 DEF Pending, Holds
  <2> QED
    BY <2>1, <1>1, Frame DEF TimesExact
<1>10. Fresh' /\ CountExact' /\ Handshake'
  BY <1>1, <1>7 DEF Fresh, InBlocks, CountExact, Handshake
<1> QED
  BY <1>7, <1>8, <1>9, <1>10

\* A range of one block is run.
LEMMA RunKeeps ==
    ASSUME IInv, NEW x \in work, Run(x)
    PROVE  IInv'
<1> USE DEF IInv
<1> DEFINE y == [x EXCEPT !.called = TRUE]
<1>1. /\ call' = call /\ caller' = caller /\ work' = (work \ {x}) \cup {y}
      /\ UNCHANGED <<count, waiter, notified, notify>>
      /\ x.by # Nobody /\ ~ x.called /\ x.last - x.first <= call.block_size
      /\ times' = [i \in Units |-> IF i \in x.first..x.last - 1 THEN times[i] + 1 ELSE times[i]]
  BY DEF Run, counter
<1>2. call \in Calls /\ NumShards # 1 /\ x \in Ranges /\ Cut(x) /\ caller # "start"
  BY DEF TypeOK, InBlocks, AllCut
<1>3. y \in Ranges /\ y.first = x.first /\ y.last = x.last /\ y.called = TRUE /\ y.by = x.by
  BY <1>2 DEF Ranges
<1> HIDE DEF y
<1>4. Cut(y) /\ x.first <= y.first /\ y.last <= x.last /\ \A i \in Nat : Holds(x, i) <=> Holds(y, i)
  BY <1>1, <1>2, <1>3 DEF Cut, Holds, Ranges
<1>5. work' \subseteq Ranges' /\ InBlocks' /\ AllCut' /\ Disjoint' /\ Covered' = Covered
  <2> DEFINE parts == {y}
  <2>1. /\ \A z \in parts : z \in Ranges /\ Cut(z) /\ x.first <= z.first /\ z.last <= x.last
        /\ \A z, u \in parts : z # u => z.last <= u.first \/ u.last <= z.first
        /\ \A i \in Nat : Holds(x, i) <=> \E z \in parts : Holds(z, i)
        /\ work' = (work \ {x}) \cup parts
    BY <1>1, <1>3, <1>4
  <2> HIDE DEF parts
  <2> QED
    BY <2>1, <1>1, Replaced
<1>6. TypeOK'
  <2>1. times' \in [Units -> Nat]
    BY <1>1 DEF TypeOK
  <2> QED
    BY <2>1, <1>1, <1>5, Frame DEF TypeOK
<1>7. TimesExact'
  <2>1. ASSUME NEW i \in Units
        PROVE  times'[i] = IF Pending(i)' THEN 0 ELSE 1
    <3>1. i \in Nat /\ times[i] = (IF Pending(i) THEN 0 ELSE 1)
      BY <1>2, BlocksOfCall DEF Units, TimesExact
    <3>2. CASE Holds(x, i)
      <4>1. Pending(i)
        BY <3>2, <1>1 DEF Pending
      <4>2. ASSUME NEW z \in work, z # x
            PROVE  ~ Holds(z, i)
        <5>1. z.last <= x.first \/ x.last <= z.first
          BY <4>2 DEF Disjoint
        <5>2. z \in Ranges
          BY DEF TypeOK
        <5> QED
          BY <5>1, <5>2, <3>1, <3>2, <1>2 DEF Holds, Ranges
      <4>3. ~ Pending(i)'
        BY <4>2, <1>1, <1>3 DEF Pending, Holds
      <4>4. i \in x.first..x.last - 1
        BY <3>1, <3>2, <1>2 DEF Holds, Ranges
      <4> QED
        BY <4>1, <4>3, <4>4, <3>1, <1>1
    <3>3. CASE ~ Holds(x, i)
      <4>1. Pending(i)' <=> Pending(i)
        BY <3>3, <1>1, <1>3 DEF Pending, Holds
      <4>2. i \notin x.first..x.last - 1
        BY <3>1, <3>3, <1>2 DEF Holds, Ranges
      <4> QED
        BY <4>1, <4>2, <3>1, <1>1
    <3> QED
      BY <3>2, <3>3
  <2> QED
    BY <2>1, <1>1, Frame DEF TimesExact
<1>8. Fresh' /\ CountExact' /\ Handshake'
  BY <1>1, <1>2, <1>5 DEF Fresh, CountExact, Handshake
<1> QED
  BY <1>5, <1>6, <1>7, <1>8

\* The counter goes down by one.
LEMMA DecrementKeeps ==
    ASSUME IInv, NEW x \in work, DecrementCount(x)
    PROVE  IInv'
<1> USE DEF IInv
<1>1. /\ call' = call /\ caller' = caller /\ work' = work \ {x}
      /\ UNCHANGED <<times, waiter, notified>>
      /\ x.called /\ count' = count - 1
      /\ notify' = IF count = 1 /\ waiter THEN notify \cup {x.by} ELSE notify
  BY DEF DecrementCount, Notifies
<1>2. /\ call \in Calls /\ NumShards # 1 /\ x \in Ranges /\ Cut(x) /\ caller # "start"
      /\ count \in Nat /\ x.by # Nobody /\ x.last - x.first <= call.block_size
  BY <1>1 DEF TypeOK, InBlocks, AllCut, Cut
<1>3. PICK b \in Blocks : x.first = FirstOf(b) /\ \A c \in Blocks : Holds(x, FirstOf(c)) <=> c = b
  BY <1>2, OneBlock
<1>4. ASSUME NEW z \in work, z # x
      PROVE  ~ Holds(z, FirstOf(b))
  <2>1. (z.last <= x.first \/ x.last <= z.first) /\ z \in Ranges
    BY <1>4 DEF Disjoint, TypeOK
  <2>2. Cut(z) /\ Holds(x, FirstOf(b))
    BY <1>3 DEF AllCut
  <2> QED
    BY <2>1, <2>2, <1>2, <1>3 DEF Holds, Ranges
<1>5. Covered' = Covered \ {b} /\ b \in Covered
  BY <1>1, <1>3, <1>4, Frame DEF Covered, Holds
<1>6. count # 0 /\ CountExact'
  <2>1. IsFiniteSet(Covered) /\ Cardinality(Covered) = count
    BY <1>2, FiniteBlocks DEF CountExact
  <2>2. Covered # {}
    BY <1>5
  <2>3. count # 0
    BY <2>1, <2>2, FS_EmptySet
  <2>4. Cardinality(Covered \ {b}) = count - 1
    BY <2>1, <1>5, FS_RemoveElement
  <2> QED
    BY <2>3, <2>4, <1>1, <1>5 DEF CountExact
<1>7. notify = {} /\ ~ notified /\ caller # "returned"
  BY <1>6 DEF Handshake
<1>8. TypeOK'
  <2>1. count' \in Nat
    BY <1>1, <1>2, <1>6
  <2>2. x.by \in {Caller} \cup Workers
    BY <1>2 DEF Ranges
  <2> QED
    BY <2>1, <2>2, <1>1, Frame DEF TypeOK
<1>9. Fresh' /\ InBlocks' /\ AllCut' /\ Disjoint'
  BY <1>1, <1>2, Frame DEF Fresh, InBlocks, AllCut, Disjoint
<1>10. TimesExact'
  <2>1. \A i \in Units : Pending(i)' <=> Pending(i)
    BY <1>1 DEF Pending, Holds
  <2> QED
    BY <2>1, <1>1, Frame DEF TimesExact
<1>11. Handshake'
  <2>1. CASE count = 1 /\ waiter
    BY <2>1, <1>1, <1>2, <1>7 DEF Handshake
  <2>2. CASE ~ (count = 1 /\ waiter)
    BY <2>2, <1>1, <1>2, <1>7 DEF Handshake
  <2> QED
    BY <2>1, <2>2
<1> QED
  BY <1>6, <1>8, <1>9, <1>10, <1>11

\* The steps of the counter leave the ranges alone.
LEMMA CounterKeeps ==
    ASSUME IInv, UNCHANGED <<call, work, times, count>>, caller # "start", caller' # "start"
    PROVE  InBlocks' /\ AllCut' /\ Disjoint' /\ TimesExact' /\ CountExact' /\ Fresh'
<1> USE DEF IInv
<1>1. InBlocks' /\ Fresh'
  BY Frame DEF InBlocks, Fresh
<1>2. AllCut' /\ Disjoint'
  BY Frame DEF AllCut, Disjoint
<1>3. TimesExact'
  BY Frame DEF TimesExact, Pending
<1>4. CountExact'
  BY Frame DEF CountExact, Covered
<1> QED
  BY <1>1, <1>2, <1>3, <1>4

\* The last piece wakes the caller.
LEMMA NotifyKeeps ==
    ASSUME IInv, NEW t \in notify, Notify(t)
    PROVE  IInv'
<1> USE DEF IInv
<1>1. /\ UNCHANGED <<call, work, times, count, waiter, caller>>
      /\ notify' = notify \ {t} /\ notified' = TRUE
  BY DEF Notify
<1>2. count = 0 /\ caller = "waiting" /\ notify = {t}
  BY DEF Handshake
<1>3. TypeOK'
  BY <1>1, Frame DEF TypeOK
<1>4. Handshake'
  BY <1>1, <1>2 DEF Handshake
<1> QED
  BY <1>1, <1>2, <1>3, <1>4, CounterKeeps

\* The caller looks at the counter.
LEMMA WaitKeeps == IInv /\ Wait => IInv'
<1> SUFFICES ASSUME IInv, Wait PROVE IInv'
  OBVIOUS
<1> USE DEF IInv
<1>1. /\ UNCHANGED <<call, work, times, count, notified, notify>>
      /\ caller = "working" /\ waiter' = TRUE
      /\ caller' = IF count = 0 THEN "returned" ELSE "waiting"
  BY DEF Wait
<1>2. TypeOK'
  BY <1>1, Frame DEF TypeOK
<1>3. Handshake'
  BY <1>1 DEF Handshake
<1> QED
  BY <1>1, <1>2, <1>3, CounterKeeps

\* The caller is woken.
LEMMA WakeKeeps == IInv /\ Wake => IInv'
<1> SUFFICES ASSUME IInv, Wake PROVE IInv'
  OBVIOUS
<1> USE DEF IInv
<1>1. /\ UNCHANGED <<call, work, times, count, waiter, notified, notify>>
      /\ caller = "waiting" /\ notified /\ caller' = "returned"
  BY DEF Wake, counter
<1>2. TypeOK'
  BY <1>1, Frame DEF TypeOK
<1>3. Handshake'
  BY <1>1 DEF Handshake
<1> QED
  BY <1>1, <1>2, <1>3, CounterKeeps

\* Nothing changes.
LEMMA StutterKeeps == IInv /\ UNCHANGED vars => IInv'
<1> SUFFICES ASSUME IInv, UNCHANGED vars PROVE IInv'
  OBVIOUS
<1> USE DEF IInv, vars, counter
<1>1. TypeOK' /\ Fresh' /\ InBlocks' /\ AllCut' /\ Disjoint'
  BY Frame DEF TypeOK, Fresh, InBlocks, AllCut, Disjoint
<1>2. TimesExact' /\ CountExact' /\ Handshake'
  BY Frame DEF TimesExact, Pending, CountExact, Covered, Handshake
<1> QED
  BY <1>1, <1>2

\* Every step keeps the invariant.
LEMMA StepIInv == IInv /\ [Next]_vars => IInv'
<1> SUFFICES ASSUME IInv, [Next]_vars PROVE IInv'
  OBVIOUS
<1>1. ASSUME NEW x \in work, InHand(x)
      PROVE  IInv'
  BY <1>1, SplitKeeps, RunKeeps, DecrementKeeps DEF InHand
<1>2. CASE CallerStep
  BY <1>1, <1>2, CallDirectlyKeeps, StartKeeps, WaitKeeps, WakeKeeps DEF CallerStep
<1>3. CASE NotifyStep
  BY <1>3, NotifyKeeps DEF NotifyStep
<1>4. ASSUME NEW t \in Workers, WorkerStep(t)
      PROVE  IInv'
  BY <1>1, <1>4, TakeKeeps DEF WorkerStep
<1>5. CASE UNCHANGED vars
  BY <1>5, StutterKeeps
<1> QED
  BY <1>2, <1>3, <1>4, <1>5 DEF Next

-----------------------------------------------------------------------------
(* The properties.                                                           *)

\* What the invariant says of the call.
LEMMA IInvImplies ==
    IInv => TypeOK /\ ExactlyOnce /\ NoUseAfterReturn /\ FixedBlocks /\ CounterChecks
<1> SUFFICES ASSUME IInv
             PROVE  TypeOK /\ ExactlyOnce /\ NoUseAfterReturn /\ FixedBlocks /\ CounterChecks
  OBVIOUS
<1> USE DEF IInv
<1>1. caller = "returned" => work = {} /\ notify = {}
  BY ZeroIsAll DEF Handshake
<1>2. ExactlyOnce
  BY <1>1 DEF ExactlyOnce, Fresh, TimesExact, Pending
<1>3. FixedBlocks
  <2> SUFFICES ASSUME NEW x \in work, x.called
               PROVE  /\ x.first % call.block_size = 0
                      /\ x.last - x.first = call.block_size \/ x.last = call.total
    BY DEF FixedBlocks
  <2> DEFINE n == call.block_size
  <2>1. /\ call \in Calls /\ NumShards # 1 /\ Cut(x) /\ x \in Ranges
        /\ x.last - x.first <= n
    BY DEF TypeOK, InBlocks, AllCut, Cut
  <2>2. n \in Nat \ {0} /\ call.total \in Nat /\ x.first \in Nat /\ x.last \in Nat
    BY <2>1, BlocksOfCall DEF Ranges
  <2>3. PICK b \in 0..call.total : x.first = b * n
    BY <2>1 DEF Cut, IsFirst, FirstOf
  <2>4. x.first % n = 0
    BY <2>2, <2>3, NoRest
  <2>5. ASSUME x.last # call.total
        PROVE  x.last - x.first = n
    <3>1. PICK c \in 0..call.total : x.last = c * n
      BY <2>1, <2>5 DEF Cut, IsFirst, FirstOf
    <3>2. b \in Nat /\ c \in Nat
      BY <2>2, <2>3, <3>1
    <3>3. /\ b < c => b * n + n <= c * n
          /\ c < b => c * n + n <= b * n
      BY <3>2, <2>2, Apart
    <3> HIDE DEF n
    <3> QED
      BY <2>1, <2>2, <2>3, <3>1, <3>2, <3>3 DEF Cut
  <2> QED
    BY <2>4, <2>5
<1>4. CounterChecks
  <2>1. ASSUME NEW x \in work
        PROVE  count > 0
    <3>1. count \in Nat /\ count # 0
      BY ZeroIsAll DEF TypeOK
    <3> QED
      BY <3>1
  <2>2. notify # {} => ~ notified /\ Cardinality(notify) = 1 /\ count = 0
    BY FS_Singleton DEF Handshake
  <2> QED
    BY <2>1, <2>2 DEF CounterChecks
<1> QED
  BY <1>1, <1>2, <1>3, <1>4 DEF NoUseAfterReturn

\* For every call and every pool, and in whatever order the threads run: each unit
\* is done once, in whole blocks, the assertions of the counter hold, and nobody
\* uses the stack of the caller after it has returned.
THEOREM ParallelForCorrect ==
    Spec => [](TypeOK /\ ExactlyOnce /\ NoUseAfterReturn /\ FixedBlocks /\ CounterChecks)
<1>1. Init => IInv
  BY InitIInv
<1>2. IInv /\ [Next]_vars => IInv'
  BY StepIInv
<1>3. IInv => TypeOK /\ ExactlyOnce /\ NoUseAfterReturn /\ FixedBlocks /\ CounterChecks
  BY IInvImplies
<1> QED
  BY <1>1, <1>2, <1>3, PTL DEF Spec

\* The halving of ranges by several threads does every unit exactly once.
THEOREM UnitsDoneOnce == Spec => []ExactlyOnce
BY ParallelForCorrect, PTL

\* Every call of fn gets a whole block or the rest of the last one, so the number
\* of calls is the one the counter was created with.
THEOREM BlocksWhole == Spec => []FixedBlocks
BY ParallelForCorrect, PTL
=============================================================================
