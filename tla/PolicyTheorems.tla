--------------------------- MODULE PolicyTheorems ---------------------------
(***************************************************************************)
(* What the scheduling policies and the reassignments compute, for every   *)
(* number of cores and of threads.                                         *)
(***************************************************************************)
EXTENDS Reassignment, TLAPS

-----------------------------------------------------------------------------
(* Types of what the policies give.                                        *)

\* A quotient of naturals (the shares of the policies) is natural.
LEMMA DivNat ==
    ASSUME NEW n \in Nat, NEW d \in Nat \ {0}
    PROVE  n \div d \in Nat
BY SMT

\* Python's round() of a quotient of naturals is natural, and is 0 only for a
\* quotient of at most one half.
LEMMA RoundNat ==
    ASSUME NEW n \in Nat, NEW d \in Nat \ {0}
    PROVE  /\ Round(n, d) \in Nat
           /\ Round(n, d) = 0 => 2 * n <= d
<1>1. n \div d \in Nat /\ n % d \in Nat /\ n = d * (n \div d) + (n % d)
  BY SMT
<1>2. Round(n, d) \in Nat
  BY <1>1 DEF Round
<1>3. ASSUME Round(n, d) = 0 PROVE 2 * n <= d
  <2>1. n \div d = 0 /\ 2 * (n % d) <= d
    BY <1>1, <1>3 DEF Round
  <2>2. n = n % d
    BY <1>1, <2>1
  <2> QED BY <2>1, <2>2
<1> QED BY <1>2, <1>3

\* Whatever a launch asks for, the policy answers with two natural numbers, or
\* with nothing.
LEMMA GrantNat ==
    ASSUME NEW avail \in Int, NEW inter \in Nat, NEW intra \in Nat,
           NEW factor \in (Nat \ {0}) \X Nat,
           schedule_parallelism(avail, inter, intra, factor) # <<>>
    PROVE  schedule_parallelism(avail, inter, intra, factor) \in Nat \X Nat
<1> USE PolicyAssumption
<1>1. ASSUME Strict(avail, inter, intra) # <<>>
      PROVE  Strict(avail, inter, intra) \in Nat \X Nat
  BY <1>1 DEF Strict, OneInter
<1>2. ASSUME MaxProp(avail, intra, factor) # <<>>
      PROVE  MaxProp(avail, intra, factor) \in Nat \X Nat
  <2> DEFINE share == (intra * factor[2]) \div factor[1]
  <2>1. intra * factor[2] \in Nat
    OBVIOUS
  <2>2. share \in Nat
    BY <2>1, DivNat
  <2> HIDE DEF share
  <2>3. MaxProp(avail, intra, factor) =
          LET capped == IF share >= MaxPerCont THEN MaxPerCont ELSE share
              wanted == IF capped = 0 THEN 1 ELSE capped
          IN  IF avail > 2
              THEN <<1, IF wanted > avail - 1 THEN avail - 1 ELSE wanted>>
              ELSE IF avail = 2 THEN <<1, 1>> ELSE <<>>
    BY DEF MaxProp, share
  <2> QED BY <1>2, <2>2, <2>3
<1>3. ASSUME AlwaysAttend(avail, inter, intra) # <<>>
      PROVE  AlwaysAttend(avail, inter, intra) \in Nat \X Nat
  <2>1. CASE inter + intra <= avail
    BY <1>3, <2>1 DEF AlwaysAttend, OneInter
  <2>2. CASE inter + intra > avail /\ inter > 0 /\ intra > 0
    <3> DEFINE x == Round(inter * avail, inter + intra)
               y == Round(intra * avail, inter + intra)
    <3>1. avail >= 2
      BY <1>3 DEF AlwaysAttend
    <3>2. inter * avail \in Nat /\ intra * avail \in Nat /\ inter + intra \in Nat \ {0}
      BY <2>2, <3>1
    <3>3. x \in Nat /\ y \in Nat
      BY <3>2, RoundNat
    <3>4. ~ (x = 0 /\ y = 0)
      <4> SUFFICES ASSUME x = 0, y = 0 PROVE FALSE
        OBVIOUS
      <4>1. 2 * (inter * avail) <= inter + intra /\ 2 * (intra * avail) <= inter + intra
        BY <3>2, RoundNat
      <4>2. inter * avail >= 2 * inter /\ intra * avail >= 2 * intra
        BY <3>1
      <4> QED BY <4>1, <4>2, <3>2, <2>2
    <3> HIDE DEF x, y
    <3>5. AlwaysAttend(avail, inter, intra) = AtLeastOne(<<x, y>>)
      BY <2>2, <3>1 DEF AlwaysAttend, Fraction, x, y
    <3> QED BY <3>3, <3>4, <3>5 DEF AtLeastOne
  <2>3. CASE inter + intra > avail /\ ~ (inter > 0 /\ intra > 0)
    BY <1>3, <2>3 DEF AlwaysAttend, Fraction, AtLeastOne
  <2> QED BY <2>1, <2>2, <2>3
<1> QED BY <1>1, <1>2, <1>3 DEF schedule_parallelism

\* An update may ask for a negative number of threads of one kind.
LEMMA GrantInt ==
    ASSUME NEW avail \in Int, NEW inter \in Int, NEW intra \in Int,
           NEW factor \in (Nat \ {0}) \X Nat,
           schedule_parallelism(avail, inter, intra, factor) # <<>>
    PROVE  schedule_parallelism(avail, inter, intra, factor) \in Int \X Int
<1> USE PolicyAssumption
<1>1. ASSUME Strict(avail, inter, intra) # <<>>
      PROVE  Strict(avail, inter, intra) \in Int \X Int
  BY <1>1 DEF Strict, OneInter
<1>2. ASSUME MaxProp(avail, intra, factor) # <<>>
      PROVE  MaxProp(avail, intra, factor) \in Int \X Int
  <2> DEFINE share == (intra * factor[2]) \div factor[1]
  <2>1. intra * factor[2] \in Int /\ factor[1] \in Nat \ {0}
    OBVIOUS
  <2>2. share \in Int
    BY <2>1
  <2> HIDE DEF share
  <2>3. MaxProp(avail, intra, factor) =
          LET capped == IF share >= MaxPerCont THEN MaxPerCont ELSE share
              wanted == IF capped = 0 THEN 1 ELSE capped
          IN  IF avail > 2
              THEN <<1, IF wanted > avail - 1 THEN avail - 1 ELSE wanted>>
              ELSE IF avail = 2 THEN <<1, 1>> ELSE <<>>
    BY DEF MaxProp, share
  <2> QED BY <1>2, <2>2, <2>3
<1>3. ASSUME AlwaysAttend(avail, inter, intra) # <<>>
      PROVE  AlwaysAttend(avail, inter, intra) \in Int \X Int
  <2>1. CASE inter + intra <= avail
    BY <1>3, <2>1 DEF AlwaysAttend, OneInter
  <2>2. CASE inter > 0 /\ intra > 0
    <3> DEFINE x == Round(inter * avail, inter + intra)
               y == Round(intra * avail, inter + intra)
    <3>2. CASE inter + intra > avail
      <4>1. avail >= 2
        BY <1>3 DEF AlwaysAttend
      <4>2. inter * avail \in Nat /\ intra * avail \in Nat /\ inter + intra \in Nat \ {0}
        BY <2>2, <4>1
      <4>3. x \in Nat /\ y \in Nat
        BY <4>2, RoundNat
      <4> HIDE DEF x, y
      <4>4. AlwaysAttend(avail, inter, intra) = AtLeastOne(<<x, y>>)
        BY <2>2, <3>2, <4>1 DEF AlwaysAttend, Fraction, x, y
      <4> QED BY <4>3, <4>4 DEF AtLeastOne
    <3> QED BY <2>1, <3>2
  <2>3. CASE inter + intra > avail /\ ~ (inter > 0 /\ intra > 0)
    BY <1>3, <2>3 DEF AlwaysAttend, Fraction, AtLeastOne
  <2> QED BY <2>1, <2>2, <2>3
<1> QED BY <1>1, <1>2, <1>3 DEF schedule_parallelism

-----------------------------------------------------------------------------
(* What the policies owe to the ledger.                                    *)

\* A launch gets a thread of each kind at least, and no more than there is.
Fits(p, avail) == p[1] >= 1 /\ p[2] >= 1 /\ p[1] + p[2] <= avail

\* Two shares that add up to the whole: at most one half of each is rounded, both
\* to an even number, and a share of 1 is never the one that was rounded up.
LEMMA SharesAddUp ==
    ASSUME NEW m \in Nat, NEW n \in Nat, NEW s \in Nat \ {0}, NEW a \in Nat,
           m + n = a * s
    PROVE  /\ Round(m, s) \in Nat /\ Round(n, s) \in Nat
           /\ Round(m, s) + Round(n, s) \in {a - 1, a, a + 1}
           /\ Round(m, s) + Round(n, s) # a =>
                 Round(m, s) % 2 = 0 /\ Round(n, s) % 2 = 0
           /\ Round(m, s) <= a /\ Round(n, s) <= a
<1> DEFINE q == m \div s
           p == m % s
           r == n \div s
           t == n % s
           k == a - q - r
<1>1. /\ q \in Nat /\ p \in 0..(s - 1) /\ m = s * q + p
      /\ r \in Nat /\ t \in 0..(s - 1) /\ n = s * r + t
  BY SMT
<1>2. k \in Int /\ k * s = p + t
  <2> HIDE DEF q, p, r, t
  <2>1. k \in Int
    BY <1>1
  <2>2. k * s = a * s - s * q - s * r
    BY <1>1
  <2> QED
    BY <1>1, <2>1, <2>2
<1>3. Round(m, s) = IF 2 * p > s \/ (2 * p = s /\ q % 2 = 1) THEN q + 1 ELSE q
  BY DEF Round
<1>4. Round(n, s) = IF 2 * t > s \/ (2 * t = s /\ r % 2 = 1) THEN r + 1 ELSE r
  BY DEF Round
<1> HIDE DEF q, p, r, t
<1>5. k \in {0, 1}
  <2>1. k >= 2 => k * s >= 2 * s
    BY <1>2
  <2>2. k < 0 => k * s <= -s
    BY <1>2
  <2> HIDE DEF k
  <2> QED
    BY <1>1, <1>2, <2>1, <2>2
<1>6. a = q + r + k
  BY <1>1
<1> HIDE DEF k
<1>7. CASE k = 0
  <2>1. p = 0 /\ t = 0
    BY <1>1, <1>2, <1>7
  <2> QED
    BY <1>1, <1>3, <1>4, <1>6, <1>7, <2>1
<1>8. CASE k = 1
  <2>1. p + t = s
    BY <1>2, <1>8
  <2>2. CASE 2 * p = s
    BY <1>1, <1>3, <1>4, <1>6, <1>8, <2>1, <2>2
  <2>3. CASE 2 * p # s
    BY <1>1, <1>3, <1>4, <1>6, <1>8, <2>1, <2>3
  <2> QED
    BY <2>2, <2>3
<1> QED
  BY <1>5, <1>7, <1>8

\* always_attend: whatever is rounded, a launch never gets more threads than the
\* cores it may have, and never a kind of threads without a thread.
LEMMA AlwaysAttendFitsAll ==
    ASSUME NEW avail \in Nat, NEW inter \in Nat \ {0}, NEW intra \in Nat \ {0},
           AlwaysAttend(avail, inter, intra) # <<>>
    PROVE  Fits(AlwaysAttend(avail, inter, intra), avail)
<1>1. avail >= 2
  BY DEF AlwaysAttend
<1>2. CASE inter + intra <= avail
  BY <1>1, <1>2 DEF AlwaysAttend, OneInter, Fits
<1>3. CASE inter + intra > avail
  <2> DEFINE s == inter + intra
             x == Round(inter * avail, s)
             y == Round(intra * avail, s)
  <2>1. /\ inter * avail \in Nat /\ intra * avail \in Nat /\ s \in Nat \ {0}
        /\ inter * avail + intra * avail = avail * s
    OBVIOUS
  <2>2. /\ x \in Nat /\ y \in Nat /\ x + y \in {avail - 1, avail, avail + 1}
        /\ x + y # avail => x % 2 = 0 /\ y % 2 = 0
        /\ x <= avail /\ y <= avail
    <3> DEFINE m == inter * avail
               n == intra * avail
    <3>1. m \in Nat /\ n \in Nat /\ s \in Nat \ {0} /\ avail \in Nat /\ m + n = avail * s
      BY <2>1
    <3> HIDE DEF m, n, s
    <3>2. /\ Round(m, s) \in Nat /\ Round(n, s) \in Nat
          /\ Round(m, s) + Round(n, s) \in {avail - 1, avail, avail + 1}
          /\ Round(m, s) + Round(n, s) # avail =>
                Round(m, s) % 2 = 0 /\ Round(n, s) % 2 = 0
          /\ Round(m, s) <= avail /\ Round(n, s) <= avail
      BY <3>1, SharesAddUp
    <3> QED
      BY <3>2 DEF m, n
  <2>3. AlwaysAttend(avail, inter, intra) = AtLeastOne(<<x, y>>)
    BY <1>1, <1>3 DEF AlwaysAttend, Fraction
  <2> HIDE DEF x, y, s
  <2>4. CASE x = 0
    BY <1>1, <2>2, <2>3, <2>4 DEF AtLeastOne, Fits
  <2>5. CASE y = 0 /\ x # 0
    BY <1>1, <2>2, <2>3, <2>5 DEF AtLeastOne, Fits
  <2>6. CASE x # 0 /\ y # 0
    BY <1>1, <2>2, <2>3, <2>6 DEF AtLeastOne, Fits
  <2> QED
    BY <2>4, <2>5, <2>6
<1> QED
  BY <1>2, <1>3

\* max_prop: the share of a launch is at least one thread and at most what is left
\* beside the inter thread, whatever the proportion is.
LEMMA MaxPropFitsAll ==
    ASSUME NEW avail \in Nat, NEW intra \in Nat, NEW factor \in (Nat \ {0}) \X Nat,
           MaxProp(avail, intra, factor) # <<>>
    PROVE  Fits(MaxProp(avail, intra, factor), avail)
<1> USE PolicyAssumption
<1> DEFINE share == (intra * factor[2]) \div factor[1]
<1>1. intra * factor[2] \in Nat
  OBVIOUS
<1>2. share \in Nat
  BY <1>1, DivNat
<1>3. MaxProp(avail, intra, factor) =
        LET capped == IF share >= MaxPerCont THEN MaxPerCont ELSE share
            wanted == IF capped = 0 THEN 1 ELSE capped
        IN  IF avail > 2
            THEN <<1, IF wanted > avail - 1 THEN avail - 1 ELSE wanted>>
            ELSE IF avail = 2 THEN <<1, 1>> ELSE <<>>
  BY DEF MaxProp
<1> HIDE DEF share
<1> QED
  BY <1>2, <1>3 DEF Fits

\* The cores that a container gains by a decision.
Gained(c, d) == Parallelism(update_parallelism(c, d.inter, d.intra)) - Parallelism(c)

\* strict_reassigment pays for what it gives, up to what a user asked for, as long
\* as nobody asks for more than max_resources_per_container above what he has.
LEMMA StrictPaid ==
    ASSUME NEW c \in ExecutionInfo, NEW avail \in Nat \ {0},
           c.inter_user - c.inter <= MaxPerCont, c.intra_user - c.intra <= MaxPerCont
    PROVE  LET d == StrictDecision(c, avail)
               u == update_parallelism(c, d.inter, d.intra)
           IN  /\ Gained(c, d) = d.cost /\ d.cost <= avail
               /\ u.inter = c.inter \/ u.inter <= c.inter_user
               /\ u.intra = c.intra \/ u.intra <= c.intra_user
<1> DEFINE d == StrictDecision(c, avail)
           inter == c.inter_user - c.inter
           intra == c.intra_user - c.intra
           u == update_parallelism(c, d.inter, d.intra)
<1>0. c.inter \in Nat /\ c.intra \in Nat /\ c.inter_user \in Nat /\ c.intra_user \in Nat
  BY DEF ExecutionInfo
<1>1. Required(c.inter_user, c.inter) = inter /\ Required(c.intra_user, c.intra) = intra
  BY <1>0, PolicyAssumption DEF Required
<1>2. \/ /\ inter > 0 /\ intra > 0 /\ avail >= inter + intra
         /\ d = Give(c.inter_user, c.intra_user, inter + intra)
      \/ /\ intra > 0 /\ avail >= intra
         /\ d = Give(0, c.intra_user, intra)
      \/ /\ intra > 0 /\ avail < intra
         /\ d = Give(0, c.intra + avail, avail)
      \/ /\ inter > 0 /\ avail >= inter
         /\ d = Give(c.inter_user, 0, inter)
      \/ /\ inter > 0 /\ avail < inter
         /\ d = Give(c.inter + avail, 0, avail)
      \/ d = Nothing
  <2>1. c.intra + intra = c.intra_user
    BY <1>0
  <2>2. inter \in Int /\ intra \in Int
    BY <1>0
  <2> HIDE DEF inter, intra
  <2>3. d = IF inter > 0 /\ intra > 0 /\ avail >= inter + intra
            THEN Give(c.inter_user, c.intra_user, inter + intra)
            ELSE IF intra > 0
            THEN IF avail >= intra THEN Give(0, c.intra_user, intra)
                 ELSE Give(0, c.intra + avail, avail)
            ELSE IF inter > 0
            THEN IF avail >= inter THEN Give(c.inter_user, 0, inter)
                 ELSE Give(c.inter + avail, 0, avail)
            ELSE Nothing
    BY <1>1, <2>1 DEF StrictDecision
  <2> HIDE DEF d
  <2> QED
    BY <2>2, <2>3
<1>3. /\ u.inter = IF d.inter > 0 THEN d.inter ELSE c.inter
      /\ u.intra = IF d.intra > 0 THEN d.intra ELSE c.intra
  <2> HIDE DEF d
  <2> QED
    BY DEF update_parallelism, ExecutionInfo
<1> HIDE DEF d
<1>4. /\ (u.inter + u.intra) - (c.inter + c.intra) = d.cost /\ d.cost <= avail
      /\ u.inter = c.inter \/ u.inter <= c.inter_user
      /\ u.intra = c.intra \/ u.intra <= c.intra_user
  <2> HIDE DEF u
  <2> QED
    BY <1>0, <1>2, <1>3 DEF Give, Nothing
<1>5. Gained(c, d) = (u.inter + u.intra) - (c.inter + c.intra)
  BY DEF Gained, Parallelism
<1> QED
  BY <1>4, <1>5 DEF d

\* maxprop_reassigment deducts at least what it gives, and raises the intra threads
\* of a container to max_resources_per_container at most.
LEMMA MaxPropPaid ==
    ASSUME NEW c \in ExecutionInfo, NEW share \in Nat \ {0}
    PROVE  LET d == MaxPropDecision(c, share)
           IN  /\ 0 <= Gained(c, d) /\ Gained(c, d) <= d.cost
               /\ Gained(c, d) > 0 => c.intra + Gained(c, d) <= MaxPerCont
<1> DEFINE d == MaxPropDecision(c, share)
           u == update_parallelism(c, d.inter, d.intra)
<1> USE PolicyAssumption
<1>0. c.inter \in Nat /\ c.intra \in Nat
  BY DEF ExecutionInfo
<1>1. \/ d = Nothing
      \/ c.intra + share <= MaxPerCont /\ d = Give(0, c.intra + share, share)
      \/ c.intra < MaxPerCont /\ d = Give(0, MaxPerCont, MaxPerCont)
  BY <1>0 DEF MaxPropDecision
<1>2. /\ u.inter = IF d.inter > 0 THEN d.inter ELSE c.inter
      /\ u.intra = IF d.intra > 0 THEN d.intra ELSE c.intra
  <2> HIDE DEF d
  <2> QED
    BY DEF update_parallelism, ExecutionInfo
<1> HIDE DEF d
<1>3. LET g == (u.inter + u.intra) - (c.inter + c.intra)
      IN  0 <= g /\ g <= d.cost /\ (g > 0 => c.intra + g <= MaxPerCont)
  <2> HIDE DEF u
  <2> QED
    BY <1>0, <1>1, <1>2 DEF Give, Nothing
<1>4. Gained(c, d) = (u.inter + u.intra) - (c.inter + c.intra)
  BY DEF Gained, Parallelism
<1> QED
  BY <1>3, <1>4 DEF d

\* The share of maxprop_reassigment is positive.
LEMMA FactorPositive ==
    ASSUME NEW avail \in Nat, NEW n \in Nat \ {0}
    PROVE  maxprop_factor(avail, n) \in Nat \ {0}
BY DivNat DEF maxprop_factor
=============================================================================
