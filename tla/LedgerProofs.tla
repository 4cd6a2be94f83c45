---------------------------- MODULE LedgerProofs ----------------------------
(***************************************************************************)
(* The ledger is exact, the containers that run fit in the machine, and    *)
(* every step is one of CoreLedger, for every workload in which no         *)
(* container fails.                                                        *)
(***************************************************************************)
EXTENDS SchedulerProofs, FiniteSetTheorems

-----------------------------------------------------------------------------
(* The conditions.                                                         *)

\* No limit of cores per container bites: strict_reassigment charges an intra thread
\* too few, and maxprop_reassigment charges too many, when they cut at MaxPerCont.
Uncapped ==
    IF Assignment = "max_prop" THEN Cores <= MaxPerCont
    ELSE \A k \in DOMAIN Workload : Workload[k].cores - 2 <= MaxPerCont

\* No container fails, none ends before its launch is registered, and no update asks
\* for no intra thread, which update_parallelism takes for no change.
Faultless ==
    /\ MaxFaults = 0 /\ Timely /\ Uncapped
    /\ \A k \in DOMAIN Workload : Workload[k].kind = "update" => Workload[k].cores > 1

-----------------------------------------------------------------------------
(* The invariant.                                                          *)

\* The rows, and the requests that the request thread makes of them.
PlainRow(row) ==
    /\ row.kind = "update" => row.cores > 1
    /\ Assignment # "max_prop" => row.cores - 2 <= MaxPerCont
Plain(r) ==
    /\ r.kind # "Restart" /\ r.inter = 1
    /\ r.kind = "Update" => r.intra >= 1
    /\ Assignment # "max_prop" => r.intra <= MaxPerCont + 1

Requests == Elements(queue_array) \cup Elements(queue_pending_array) \cup Elements(att.q_aux)
            \cup {r \in {att.request} : att.pc \in Handling}
RequestsPlain ==
    /\ \A k \in 1 .. Len(rows) : PlainRow(rows[k])
    /\ \A r \in Requests : Plain(r)

\* Threads only start, work and end, and those that end have released their container.
ThreadEnds ==
    /\ \A t \in Threads :
          /\ cl[t].pc \in {"none", "init", "loop", "removeName", "end", "done"}
          /\ cl[t].pc # "none" => dict_client_threads[t[1]] # -1
          /\ cl[t].pc \in {"removeName", "end", "done"} => ~ Listed(t[1])
          /\ cl[t].pc = "removeName" => docker[t[1]] \notin {"boot", "up", "finished"}
          /\ cl[t].pc \in {"end", "done"} => ~ Running(t[1])
    /\ \A k \in 1 .. Len(q_finish_container) :
          cl[<<q_finish_container[k].id, 0>>].pc \in {"removeName", "end", "done"}
    /\ \A k, l \in 1 .. Len(q_finish_container) :
          q_finish_container[k].id = q_finish_container[l].id => k = l
    /\ att.pc = "register" => cl[<<att.request.id, 0>>].pc \in {"init", "loop"}

\* The record of a container is within what strict_reassigment charges for.
Sound(c) ==
    /\ c.state # "failed" /\ c.inter >= 1 /\ c.inter_user <= c.inter
    /\ Assignment # "max_prop" => c.intra_user - c.intra <= MaxPerCont
Records == \A i \in Containers : Listed(i) => Sound(info[i])

\* What is handed out at a reassignment: under max_prop the shares of the containers
\* that are left are there, or one core each as long as there is any.
Chosen == execInfo_list[att.idx]
Sharing ==
    /\ att.pc \in {"give", "given", "updating"} => "execInfo" \in held
    /\ att.pc \in {"lockList", "give", "given", "giveback"} => att.avail >= 0
    /\ att.pc \in {"lockList", "giveback"} => att.avail > 0
    /\ att.pc \in {"give", "given"} /\ Assignment = "max_prop" =>
          /\ att.idx >= 1 /\ att.idx <= Len(execInfo_list) + 1 /\ att.share >= 1
          /\ att.share = 1 \/ (Len(execInfo_list) + 1 - att.idx) * att.share <= att.avail
    /\ att.pc = "given" =>
          /\ att.idx \in DOMAIN execInfo_list
          /\ att.give.cost = Gained(info[Chosen], att.give)
          /\ 0 <= att.give.cost /\ att.give.cost <= att.avail
          /\ Assignment = "max_prop" => att.give.cost = att.share

\* What is reserved for a request, and what it gets.
Wanted(r) == r.inter + r.intra - Parallelism(info[r.id])
Offered(granted, wanted) ==
    /\ granted <= 0 => granted = wanted
    /\ granted > 0 => wanted > 0 /\ (Assignment # "max_prop" => granted <= wanted)
Granting ==
    /\ att.pc = "take" => att.avail = check_resources(cores_used)
    /\ att.pc \in {"schedule", "accept", "register", "registerName", "updating"} => ~ att.ok
    /\ att.pc = "schedule" /\ att.request.kind = "Start" =>
          /\ att.granted > 0
          /\ Assignment # "max_prop" => att.granted <= att.request.inter + att.request.intra
    /\ att.pc = "schedule" /\ att.request.kind = "Update" /\ Listed(att.request.id) =>
          Offered(att.granted, Wanted(att.request))
    /\ att.pc \in {"accept", "register", "registerName"} =>
          /\ att.request.kind = "Start" /\ att.give.inter >= 1 /\ att.give.intra >= 0
          /\ att.give.cost = att.give.inter + att.give.intra /\ att.give.cost <= att.granted
          /\ Assignment # "max_prop" => att.request.intra - att.give.intra <= MaxPerCont
    /\ att.pc = "updating" =>
          /\ Listed(att.request.id) /\ att.give.cost # 0
          /\ att.give.cost = Gained(info[att.request.id], att.give)
          /\ \/ 0 < att.give.cost /\ att.give.cost <= att.granted
             \/ att.give.cost < 0 /\ att.give.cost = att.granted
    /\ att.pc \in {"excess", "excessWrite"} => att.ok
    /\ att.pc \in {"excessWrite", "postWrite"} => att.tmp = cores_used

\* What is set aside and not yet allotted.
Reserved ==
    IF att.pc \in {"lockList", "give", "given", "giveback"} THEN att.avail
    ELSE IF att.pc \in {"schedule", "accept", "register", "updating", "postWrite"}
            \/ (att.pc = "post" /\ ~ att.ok) THEN att.granted
    ELSE IF att.pc \in {"registerName", "excess", "excessWrite"} THEN att.granted - att.give.cost
    ELSE 0

Exact == att.pc # "dead" => cores_used = Total(Allotted) + Reserved

\* What a container may have beyond what is allotted to it: docker is told of a launch
\* or an update before it is written, and of an end before it has left.
Beyond(i) ==
    IF att.pc \in {"accept", "register", "updating"} /\ att.request.id = i THEN att.give.cost
    ELSE IF att.pc = "given" /\ Chosen = i THEN att.give.cost
    ELSE IF att.pc = "join" /\ att.joining = i THEN Cores - Total(Allotted)
    ELSE 0

Within ==
    /\ att.pc # "dead" => \A i \in Containers : Running(i) => cpus[i] <= Allotted[i] + Beyond(i)
    /\ NoOversubscription

Settled == RequestsPlain /\ ThreadEnds /\ Records /\ Sharing /\ Granting /\ Exact /\ Within

-----------------------------------------------------------------------------
(* Sums.                                                                   *)

\* The units of a function are those of its arguments, and finite.
LEMMA UnitsFinite ==
    ASSUME NEW S, IsFiniteSet(S), NEW f \in [S -> Int]
    PROVE  IsFiniteSet(Units(f)) /\ Total(f) \in Nat
<1> DEFINE Of(x) == {x} \X (1 .. f[x])
           g == [x \in S |-> Of(x)]
           T == {Of(x) : x \in S}
<1>1. g \in Surjection(S, T)
  BY DEF Surjection
<1>2. IsFiniteSet(T)
  BY <1>1, FS_Surjection
<1>3. ASSUME NEW x \in S PROVE IsFiniteSet(Of(x))
  <2>1. IsFiniteSet({x})
    BY FS_Singleton
  <2>2. f[x] \in Int
    OBVIOUS
  <2>3. IsFiniteSet(1 .. f[x])
    BY <2>2, FS_Interval
  <2> QED
    BY <2>1, <2>3, FS_Product
<1>4. IsFiniteSet(UNION T)
  BY <1>2, <1>3, FS_UNION
<1>5. Units(f) = UNION T
  BY DEF Units
<1> QED
  BY <1>4, <1>5, FS_CardinalityType DEF Total

\* What a unit is.
LEMMA UnitOf ==
    ASSUME NEW S, NEW f \in [S -> Int]
    PROVE  \A u : u \in Units(f) <=> \E x \in S : \E n \in 1 .. f[x] : u = <<x, n>>
BY DEF Units

\* A sum of numbers that are not larger is not larger; arguments that are left
\* out count for nothing.
LEMMA TotalMonotone ==
    ASSUME NEW S, IsFiniteSet(S), NEW f \in [S -> Int],
           NEW R \in SUBSET S, NEW g \in [R -> Int], \A x \in R : g[x] <= f[x]
    PROVE  Total(g) \in Nat /\ Total(f) \in Nat /\ Total(g) <= Total(f)
<1>1. IsFiniteSet(Units(f)) /\ Total(f) \in Nat
  BY UnitsFinite
<1>2. ASSUME NEW u \in Units(g) PROVE u \in Units(f)
  <2>1. PICK x \in R : \E n \in 1 .. g[x] : u = <<x, n>>
    BY <1>2, UnitOf
  <2>2. PICK n \in 1 .. g[x] : u = <<x, n>>
    BY <2>1
  <2>3. x \in S /\ n \in 1 .. f[x]
    BY <2>1, <2>2
  <2> QED
    BY <2>2, <2>3, UnitOf
<1>3. Units(g) \in SUBSET Units(f)
  BY <1>2
<1>4. IsFiniteSet(R)
  BY FS_Subset
<1> QED
  BY <1>1, <1>3, <1>4, FS_Subset, UnitsFinite DEF Total

\* A sum of nothing.
LEMMA TotalZero ==
    ASSUME NEW S, NEW f \in [S -> Int], \A x \in S : f[x] <= 0
    PROVE  Total(f) = 0
<1>1. Units(f) = {}
  BY UnitOf
<1> QED
  BY <1>1, FS_EmptySet DEF Total

\* The units of one argument.
LEMMA UnitsOfOne ==
    ASSUME NEW x, NEW n \in Nat
    PROVE  IsFiniteSet({x} \X (1 .. n)) /\ Cardinality({x} \X (1 .. n)) = n
<1>1. IsFiniteSet({x}) /\ Cardinality({x}) = 1
  BY FS_Singleton
<1>2. IsFiniteSet(1 .. n) /\ Cardinality(1 .. n) = n
  BY FS_Interval
<1>3. /\ IsFiniteSet({x} \X (1 .. n))
      /\ Cardinality({x} \X (1 .. n)) = Cardinality({x}) * Cardinality(1 .. n)
  BY <1>1, <1>2, FS_Product
<1>4. 1 * n = n
  OBVIOUS
<1> QED
  BY <1>1, <1>2, <1>3, <1>4

\* One summand changes.
LEMMA TotalChanges ==
    ASSUME NEW S, IsFiniteSet(S), NEW f \in [S -> Nat], NEW g \in [S -> Nat], NEW x \in S,
           \A y \in S : y # x => g[y] = f[y]
    PROVE  /\ Total(f) \in Nat /\ Total(g) \in Nat
           /\ f[x] <= Total(f) /\ Total(g) = Total(f) - f[x] + g[x]
<1> DEFINE Rest(h) == {u \in Units(h) : u[1] # x}
           Own(h) == {x} \X (1 .. h[x])
<1>1. ASSUME NEW h \in [S -> Nat]
      PROVE  /\ Units(h) = Rest(h) \cup Own(h) /\ Rest(h) \cap Own(h) = {}
             /\ IsFiniteSet(Rest(h)) /\ Cardinality(Rest(h)) \in Nat
             /\ Total(h) = Cardinality(Rest(h)) + h[x]
  <2>0. IsFiniteSet(Units(h))
    BY UnitsFinite
  <2>1. \A u : u \in Units(h) <=> \E y \in S : \E k \in 1 .. h[y] : u = <<y, k>>
    BY UnitOf
  <2>2. Units(h) = Rest(h) \cup Own(h)
    <3>1. ASSUME NEW u \in Units(h) PROVE u \in Rest(h) \cup Own(h)
      <4>1. PICK y \in S : \E k \in 1 .. h[y] : u = <<y, k>>
        BY <2>1
      <4> QED
        BY <4>1
    <3>2. Own(h) \subseteq Units(h)
      BY <2>1
    <3> QED
      BY <3>1, <3>2
  <2>3. Rest(h) \cap Own(h) = {}
    OBVIOUS
  <2>4. IsFiniteSet(Rest(h)) /\ Cardinality(Rest(h)) \in Nat
    BY <2>0, FS_Subset, FS_CardinalityType
  <2>5. IsFiniteSet(Own(h)) /\ Cardinality(Own(h)) = h[x]
    BY UnitsOfOne
  <2>6. Cardinality(Rest(h) \cup Own(h)) = Cardinality(Rest(h)) + Cardinality(Own(h)) - 0
    <3>1. Cardinality(Rest(h) \cap Own(h)) = 0
      BY <2>3, FS_EmptySet
    <3> HIDE DEF Rest, Own
    <3> QED
      BY <2>4, <2>5, <3>1, FS_Union
  <2> HIDE DEF Rest, Own
  <2> QED
    BY <2>2, <2>3, <2>4, <2>5, <2>6 DEF Total
<1>3. Rest(g) = Rest(f)
  <2>1. ASSUME NEW u PROVE u \in Rest(g) <=> u \in Rest(f)
    <3>1. u \in Units(g) <=> \E y \in S : \E k \in 1 .. g[y] : u = <<y, k>>
      BY UnitOf
    <3>2. u \in Units(f) <=> \E y \in S : \E k \in 1 .. f[y] : u = <<y, k>>
      BY UnitOf
    <3> QED
      BY <3>1, <3>2
  <2> QED
    BY <2>1
<1>4. Total(f) = Cardinality(Rest(f)) + f[x] /\ Cardinality(Rest(f)) \in Nat
  BY <1>1
<1>5. Total(g) = Cardinality(Rest(f)) + g[x]
  BY <1>1, <1>3
<1> HIDE DEF Rest, Own
<1> QED
  BY <1>1, <1>4, <1>5

\* A sum of one number.
LEMMA TotalOne ==
    ASSUME NEW x, NEW n \in Nat
    PROVE  Total([y \in {x} |-> n]) = n
<1> DEFINE f == [y \in {x} |-> n]
<1>1. Units(f) = {x} \X (1 .. n)
  BY DEF Units
<1> QED
  BY <1>1, UnitsOfOne DEF Total

-----------------------------------------------------------------------------
(* What a container is allotted.                                           *)

\* Allotted as a function of the list, the records and the finished containers.
FinishedOf(q, i) == [k \in {k \in DOMAIN q : q[k].id = i} |-> q[k].cores]
IsListed(l, i) == \E k \in DOMAIN l : l[k] = i
AllottedOf(l, f, q) ==
    [i \in Containers |->
        (IF IsListed(l, i) /\ f[i].state # "failed" THEN Parallelism(f[i]) ELSE 0)
        + Total(FinishedOf(q, i))]
Orderly(l, f, q) ==
    /\ l \in Seq(Containers) /\ f \in [Containers -> ExecutionInfo]
    /\ q \in Seq([cores : Nat, id : Containers])
    /\ \A i \in Containers : IsListed(l, i) => f[i].state # "failed"
    /\ \A k \in DOMAIN q : ~ IsListed(l, q[k].id)
    /\ \A k, m \in DOMAIN q : q[k].id = q[m].id => k = m

\* The elements of a sequence.
LEMMA SequenceOf ==
    ASSUME NEW S, NEW q \in Seq(S)
    PROVE  Len(q) \in Nat /\ DOMAIN q = 1 .. Len(q) /\ \A k \in DOMAIN q : q[k] \in S
OBVIOUS

LEMMA AllottedNow ==
    /\ Allotted = AllottedOf(execInfo_list, info, q_finish_container)
    /\ Allotted' = AllottedOf(execInfo_list', info', q_finish_container')
    /\ \A i : Listed(i) <=> IsListed(execInfo_list, i)
    /\ \A i : Listed(i)' <=> IsListed(execInfo_list', i)
BY DEF Allotted, AllottedOf, Listed, IsListed, Finished, FinishedOf

\* A container has the cores of its record while it is listed, those of its entry
\* in the queue when it has ended, and none otherwise.
LEMMA AllottedIs ==
    ASSUME NEW l, NEW f, NEW q, Orderly(l, f, q)
    PROVE  LET a == AllottedOf(l, f, q)
           IN  /\ a \in [Containers -> Nat]
               /\ \A i \in Containers : IsListed(l, i) => a[i] = Parallelism(f[i])
               /\ \A k \in DOMAIN q : a[q[k].id] = q[k].cores
               /\ \A i \in Containers :
                     ~ IsListed(l, i) /\ (\A k \in DOMAIN q : q[k].id # i) => a[i] = 0
<1> DEFINE a == AllottedOf(l, f, q)
           own(i) == IF IsListed(l, i) /\ f[i].state # "failed" THEN Parallelism(f[i]) ELSE 0
<1>0. /\ f \in [Containers -> ExecutionInfo] /\ q \in Seq([cores : Nat, id : Containers])
      /\ \A k \in DOMAIN q : q[k].id \in Containers /\ q[k].cores \in Nat
  <2>1. q \in Seq([cores : Nat, id : Containers])
    BY DEF Orderly
  <2>2. \A k \in DOMAIN q : q[k] \in [cores : Nat, id : Containers]
    BY <2>1, SequenceOf
  <2> QED
    BY <2>1, <2>2 DEF Orderly
<1>1. \A i \in Containers : Parallelism(f[i]) \in Nat /\ own(i) \in Nat
  BY <1>0 DEF Parallelism, ExecutionInfo
<1>2. ASSUME NEW i \in Containers, \A k \in DOMAIN q : q[k].id # i
      PROVE  Total(FinishedOf(q, i)) = 0
  <2> DEFINE g == FinishedOf(q, i)
  <2>1. g \in [{} -> Int]
    BY <1>2 DEF FinishedOf
  <2> HIDE DEF g
  <2>2. Total(g) = 0
    BY <2>1, TotalZero
  <2> QED
    BY <2>2 DEF g
<1>3. ASSUME NEW k \in DOMAIN q PROVE Total(FinishedOf(q, q[k].id)) = q[k].cores
  <2>1. {m \in DOMAIN q : q[m].id = q[k].id} = {k}
    BY DEF Orderly
  <2>2. FinishedOf(q, q[k].id) = [m \in {k} |-> q[k].cores]
    BY <2>1 DEF FinishedOf
  <2> QED
    BY <1>0, <2>2, TotalOne
<1>4. \A i \in Containers : a[i] = own(i) + Total(FinishedOf(q, i))
  BY DEF AllottedOf
<1>5. ASSUME NEW i \in Containers, IsListed(l, i) PROVE a[i] = Parallelism(f[i])
  <2>1. \A k \in DOMAIN q : q[k].id # i
    BY <1>5 DEF Orderly
  <2>2. own(i) = Parallelism(f[i])
    BY <1>5 DEF Orderly
  <2> QED
    BY <1>1, <1>2, <1>4, <2>1, <2>2
<1>6. ASSUME NEW k \in DOMAIN q PROVE a[q[k].id] = q[k].cores
  <2>1. own(q[k].id) = 0
    BY DEF Orderly
  <2> QED
    BY <1>0, <1>3, <1>4, <2>1
<1>7. ASSUME NEW i \in Containers, ~ IsListed(l, i), \A k \in DOMAIN q : q[k].id # i
      PROVE  a[i] = 0
  BY <1>2, <1>4, <1>7
<1>8. a \in [Containers -> Nat]
  <2>1. \A i \in Containers : a[i] \in Nat
    BY <1>0, <1>1, <1>5, <1>6, <1>7
  <2>2. a = [i \in Containers |-> a[i]]
    BY DEF AllottedOf
  <2> HIDE DEF a
  <2> QED
    BY <2>1, <2>2
<1> QED
  BY <1>5, <1>6, <1>7, <1>8

-----------------------------------------------------------------------------
(* Which steps there are.                                                  *)

\* What all the cases start from.
Stepping == IInv /\ Orders /\ Life /\ Faultless /\ Settled /\ [Next]_vars

LEMMA After ==
    ASSUME Stepping
    PROVE  Before /\ IInv' /\ Orders' /\ Life'
<1>1. Before
  BY DEF Stepping, IInv, Before, Faultless
<1>2. IInv'
  BY <1>1, TypeStep, LaunchGiveStep, LedgerStep DEF Stepping, IInv, Ledger, Before
<1>3. Orders' /\ Life'
  BY <1>1, OrdersStep, LifeStep DEF Before
<1> QED
  BY <1>1, <1>2, <1>3

\* Every container has one thread, and the steps of failures and timeouts are not
\* taken.
LEMMA NoFaults ==
    ASSUME Stepping
    PROVE  /\ \A t \in Threads : t = <<t[1], 0>> /\ t[1] \in Containers
           /\ \A i \in Containers : <<i, 0>> \in Threads
           /\ ~ AcceptTimeout /\ ~ RegisterRestart
           /\ \A t \in Threads : ~ ClientRemoveRaises(t) /\ ~ ClientFail(t) /\ ~ FailAttention(t)
<1>1. MaxFaults = 0 /\ TypeOK /\ Names /\ Timely /\ ThreadEnds /\ RequestsPlain
  BY DEF Stepping, IInv, Faultless, Life, Settled
<1>2. /\ \A t \in Threads : t = <<t[1], 0>> /\ t[1] \in Containers
      /\ \A i \in Containers : <<i, 0>> \in Threads
  BY <1>1 DEF Threads
<1>3. ~ AcceptTimeout /\ \A t \in Threads : ~ ClientRemoveRaises(t)
  BY <1>1, Closed
<1>4. \A t \in Threads : ~ ClientFail(t)
  BY <1>1, <1>2 DEF ClientFail
<1>5. ASSUME NEW t \in Threads PROVE ~ FailAttention(t)
  <2>1. cl[t].pc \in {"none", "init", "loop", "removeName", "end", "done"}
    BY <1>1 DEF ThreadEnds
  <2> QED
    BY <2>1 DEF FailAttention, FailRead, FailRaises, FailMark, FailLock, FailFree, FailQueue,
                FailNotify
<1>6. ~ RegisterRestart
  BY <1>1 DEF RegisterRestart, RequestsPlain, Requests, Handling, Plain
<1> QED
  BY <1>2, <1>3, <1>4, <1>5, <1>6

\* What the other threads and the containers do, and what they leave alone.
Leaves(t) == ClientInit(t) \/ ClientExit(t) \/ ClientRemoveName(t) \/ ClientEnd(t)
Outside ==
    \/ UNCHANGED vars \/ Generator
    \/ \E t \in Threads : Leaves(t)
    \/ \E i \in Containers : ContainerConnects(i) \/ TrainingEnds(i) \/ Crash(i)

LEMMA Inside ==
    ASSUME Stepping
    PROVE  \/ Outside
           \/ IsFinishQueues \/ IsFinishRest \/ Wait \/ Wake \/ FinishRequest \/ Join
           \/ Reassign \/ LockList \/ GiveNext \/ GiveWrite \/ GiveEnd \/ GiveBack
           \/ ScheduleLaunch \/ Accept \/ RegisterStart \/ RegisterName
           \/ ScheduleUpdate \/ UpdateWrite \/ SendFails
           \/ Pending \/ New \/ TakeRequest \/ PendingEnd \/ NewEnd \/ ExcessRead \/ ExcessWrite
           \/ PostPending \/ PostNew \/ PostWrite \/ Relock \/ Occupation
BY NoFaults DEF Stepping, Next, Attention, Finishing, Reassigning, Launching, Updating, Serving,
                Client, Outside, Leaves

LEMMA OutsideStep ==
    ASSUME Outside
    PROVE  /\ UNCHANGED <<att, cores_used, cpus, info, held>>
           /\ UNCHANGED execInfo_list \/ ("execInfo" \notin held /\ \E t \in Threads : ClientExit(t))
           /\ UNCHANGED q_finish_container \/ \E t \in Threads : ClientExit(t)
           /\ UNCHANGED cl \/ \E t \in Threads : Leaves(t)
<1> USE DEF lists, queues, world, clients, generator
<1>1. CASE UNCHANGED vars \/ Generator
  BY <1>1 DEF vars, Generator, ReadRow, ReadShortRow, NotifyRow, EndRequests
<1>2. CASE \E i \in Containers : ContainerConnects(i) \/ TrainingEnds(i) \/ Crash(i)
  BY <1>2 DEF ContainerConnects, TrainingEnds, Crash
<1>3. CASE \E t \in Threads : Leaves(t)
  BY <1>3 DEF Leaves, ClientInit, ClientExit, ClientRemoveName, ClientEnd, Free
<1> QED
  BY <1>1, <1>2, <1>3 DEF Outside

-----------------------------------------------------------------------------
(* Requests.                                                               *)

\* The request that is taken, and what is reserved for it.
Taken(q, p, r, granted) ==
    /\ q = IF att.phase = "pending" THEN queue_pending_array ELSE queue_array
    /\ q[p] # <<>> /\ r = Head(q[p]) /\ granted = schedule_resources(r, att.avail)
    /\ IF att.phase = "pending"
       THEN queue_pending_array' = [q EXCEPT ![p] = Tail(@)] /\ UNCHANGED queue_array
       ELSE queue_array' = [q EXCEPT ![p] = Tail(@)] /\ UNCHANGED queue_pending_array
    /\ cores_used' = IF granted > 0 THEN apply_resources(cores_used, granted)
                     ELSE free_resources(cores_used, -granted)
    /\ att' = [att EXCEPT !.pc = IF granted # 0 THEN "schedule" ELSE "post",
                          !.request = r, !.granted = granted, !.ok = FALSE]

LEMMA TakenWhat ==
    ASSUME TakeRequest
    PROVE  \E p \in QueueIds : \E q, r, granted : Taken(q, p, r, granted)
<1> DEFINE q == IF att.phase = "pending" THEN queue_pending_array ELSE queue_array
<1>1. PICK p \in QueueIds :
         LET r == Head(q[p])
             granted == schedule_resources(r, att.avail)
         IN  /\ IsFirstNonEmpty(q, p)
             /\ IF att.phase = "pending"
                THEN /\ queue_pending_array' = [q EXCEPT ![p] = Tail(@)]
                     /\ UNCHANGED queue_array
                ELSE /\ queue_array' = [q EXCEPT ![p] = Tail(@)]
                     /\ UNCHANGED queue_pending_array
             /\ cores_used' = IF granted > 0 THEN apply_resources(cores_used, granted)
                              ELSE free_resources(cores_used, -granted)
             /\ held' = IF att.phase = "new" \/ granted # 0 THEN held \ {"systemInfo"} ELSE held
             /\ att' = [att EXCEPT !.pc = IF granted # 0 THEN "schedule" ELSE "post",
                                   !.request = r, !.granted = granted, !.ok = FALSE]
  BY Zenon DEF TakeRequest
<1> DEFINE r == Head(q[p])
           g == schedule_resources(r, att.avail)
<1>2. Taken(q, p, r, g)
  BY <1>1 DEF Taken, IsFirstNonEmpty
<1> QED
  BY <1>2

\* A request is a row, or was there before.
LEMMA RequestsMove ==
    ASSUME Stepping
    PROVE  \/ UNCHANGED rows /\ Requests' \subseteq Requests
           \/ ReadRow /\ Requests' \subseteq Requests \cup {RequestOf(Head(rows))}
<1> USE DEF lists, queues, world, generator
<1>0. /\ TypeOK /\ att \in AttentionLocals /\ att.request \in Request
      /\ att.request.priority \in QueueIds
      /\ queue_array \in [QueueIds -> Seq(Request)]
      /\ queue_pending_array \in [QueueIds -> Seq(Request)]
      /\ att.q_aux \in [QueueIds -> Seq(Request)]
  <2>1. TypeOK
    BY DEF Stepping, IInv
  <2> QED
    BY <2>1, Known, RequestFields DEF TypeOK
<1>1. CASE UNCHANGED <<rows, queues, att>>
  BY <1>1 DEF Requests
<1>2. CASE ReadRow
  <2> DEFINE h == Head(rows)
             q == RequestOf(h)
  <2>1. /\ rows \in Seq(Row) /\ rows # <<>>
        /\ queue_array' = add_request(queue_array, h.priority, q)
        /\ UNCHANGED <<queue_pending_array, att>>
    BY <1>0, <1>2 DEF ReadRow, TypeOK
  <2>2. h \in Row
    BY <2>1
  <2>3. q \in Request /\ h.priority \in QueueIds
    BY <2>2 DEF RequestOf, Request, Row
  <2> HIDE DEF q, h
  <2>4. Elements(queue_array') \subseteq Elements(queue_array) \cup {q}
    BY <1>0, <2>1, <2>3, ElementsMove
  <2>5. Requests' \subseteq Requests \cup {q}
    BY <2>1, <2>4 DEF Requests
  <2> QED
    BY <1>2, <2>5 DEF q, h
<1>3. CASE Outside
  <2>1. UNCHANGED <<rows, queues, att>> \/ ReadRow
    BY <1>3 DEF Outside, vars, Generator, ReadShortRow, NotifyRow, EndRequests, Leaves, ClientInit,
                ClientExit, ClientRemoveName, ClientEnd, ContainerConnects, TrainingEnds, Crash
  <2> QED
    BY <1>1, <1>2, <2>1
<1>4. CASE Idle
  <2>1. /\ att'.q_aux = att.q_aux /\ att'.pc \notin Handling
        /\ UNCHANGED <<rows, queue_array, queue_pending_array>>
    BY <1>0, <1>4, IdleStep
  <2> QED
    BY <2>1 DEF Requests
<1>5. CASE Handles
  <2>1. /\ att'.request = att.request /\ att'.q_aux = att.q_aux
        /\ UNCHANGED <<rows, queue_array, queue_pending_array>>
    BY <1>0, <1>5, HandlesStep
  <2>2. att.pc \in Handling \/ att'.pc \notin Handling
    <3>1. CASE SendFails
      <4>1. att'.pc = "dead"
        BY <1>0, <3>1 DEF SendFails, AttentionLocals
      <4> QED
        BY <4>1 DEF Handling
    <3> QED
      BY <1>5, <3>1
         DEF Handles, ScheduleLaunch, AcceptTimeout, RegisterRestart, RegisterStart, RegisterName,
             ScheduleUpdate, UpdateWrite, ExcessRead, ExcessWrite, Handling
  <2> QED
    BY <2>1, <2>2 DEF Requests
<1>6. CASE Accept
  <2>1. /\ att.pc = "accept" /\ att'.request = att.request /\ att'.q_aux = att.q_aux
        /\ UNCHANGED <<rows, queue_array, queue_pending_array>>
    BY <1>0, <1>6 DEF Accept, AttentionLocals
  <2>2. att.pc \in Handling
    BY <2>1 DEF Handling
  <2> QED
    BY <2>1, <2>2 DEF Requests
<1>7. CASE TakeRequest
  <2>1. PICK p \in QueueIds : \E q, r, granted : Taken(q, p, r, granted)
    BY <1>7, TakenWhat
  <2>a. PICK q, r, g : Taken(q, p, r, g)
    BY <2>1
  <2> DEFINE t == [q EXCEPT ![p] = Tail(@)]
  <2>2. q \in [QueueIds -> Seq(Request)] /\ q[p] # <<>> /\ UNCHANGED rows
    BY <1>0, <1>7, <2>a DEF TakeRequest, Taken
  <2>3. /\ r = Head(q[p])
        /\ att' = [att EXCEPT !.pc = IF g # 0 THEN "schedule" ELSE "post",
                              !.request = r, !.granted = g, !.ok = FALSE]
    BY <2>a DEF Taken
  <2>4. Elements(t) \subseteq Elements(q) /\ r \in Elements(q)
    BY <2>2, <2>3, ElementsMove
  <2>5. \/ queue_pending_array' = t /\ q = queue_pending_array /\ UNCHANGED queue_array
        \/ queue_array' = t /\ q = queue_array /\ UNCHANGED queue_pending_array
    BY <2>a DEF Taken
  <2> HIDE DEF t
  <2>6. att'.request = r /\ att'.q_aux = att.q_aux
    BY <1>0, <2>3 DEF AttentionLocals
  <2>7. Requests' \subseteq Requests
    BY <2>4, <2>5, <2>6 DEF Requests
  <2> QED
    BY <2>2, <2>7
<1>8. CASE PendingEnd
  <2>1. /\ queue_pending_array' = att.q_aux /\ UNCHANGED <<rows, queue_array>>
        /\ att'.pc = "new" /\ att'.q_aux = [p \in QueueIds |-> <<>>]
    BY <1>0, <1>8 DEF PendingEnd, AttentionLocals
  <2>2. Elements(att'.q_aux) = {} /\ att'.pc \notin Handling
    BY <2>1, NoOrder DEF Handling
  <2> QED
    BY <2>1, <2>2 DEF Requests
<1>9. CASE PostPending \/ PostNew
  <2>1. /\ att.pc = "post" /\ att'.pc \in {"take", "relock", "postWrite"}
        /\ \/ att'.q_aux = att.q_aux
           \/ att'.q_aux = add_request(att.q_aux, att.request.priority, att.request)
    <3>1. CASE PostPending
      BY <1>0, <3>1 DEF PostPending, AttentionLocals
    <3>2. CASE PostNew
      BY <1>0, <3>2 DEF PostNew, AttentionLocals
    <3> QED
      BY <1>9, <3>1, <3>2
  <2>2. /\ UNCHANGED <<rows, queue_array>>
        /\ \/ UNCHANGED queue_pending_array
           \/ queue_pending_array' =
                 add_request(queue_pending_array, att.request.priority, att.request)
    BY <1>9 DEF PostPending, PostNew
  <2>3. /\ Elements(att'.q_aux) \subseteq Elements(att.q_aux) \cup {att.request}
        /\ Elements(queue_pending_array')
              \subseteq Elements(queue_pending_array) \cup {att.request}
    <3>1. Elements(att'.q_aux) \subseteq Elements(att.q_aux) \cup {att.request}
      <4> DEFINE q == att.q_aux
                 r == att.request
                 p == att.request.priority
      <4>1. /\ q \in [QueueIds -> Seq(Request)] /\ r \in Request /\ p \in QueueIds
            /\ att'.q_aux = q \/ att'.q_aux = add_request(q, p, r)
        BY <1>0, <2>1
      <4> HIDE DEF q, r, p
      <4>2. Elements(add_request(q, p, r)) \subseteq Elements(q) \cup {r}
        BY <4>1, ElementsMove
      <4> QED
        BY <4>1, <4>2 DEF q, r
    <3>2. Elements(queue_pending_array')
             \subseteq Elements(queue_pending_array) \cup {att.request}
      BY <1>0, <2>2, ElementsMove
    <3> QED
      BY <3>1, <3>2
  <2>4. att.request \in Requests /\ att'.pc \notin Handling
    BY <2>1 DEF Requests, Handling
  <2> QED
    BY <2>2, <2>3, <2>4 DEF Requests
<1>10. CASE Relock \/ Occupation
  <2>1. /\ UNCHANGED <<rows, queues>> /\ att'.pc \in {"take", "dead", "check"}
        /\ att'.q_aux = att.q_aux \/ att'.q_aux = [p \in QueueIds |-> <<>>]
    <3>1. CASE Relock
      BY <1>0, <3>1 DEF Relock, AttentionLocals
    <3>2. CASE Occupation
      <4>1. /\ AttentionAt("check", att.factor).pc = "check"
            /\ AttentionAt("check", att.factor).q_aux = [p \in QueueIds |-> <<>>]
        BY DEF AttentionAt
      <4>2. [att EXCEPT !.pc = "dead"].pc = "dead" /\ [att EXCEPT !.pc = "dead"].q_aux = att.q_aux
        BY <1>0 DEF AttentionLocals
      <4>3. UNCHANGED <<rows, queues>>
        BY <3>2 DEF Occupation
      <4>4. att' = AttentionAt("check", att.factor) \/ att' = [att EXCEPT !.pc = "dead"]
        BY <3>2 DEF Occupation
      <4> QED
        BY <4>1, <4>2, <4>3, <4>4
    <3> QED
      BY <1>10, <3>1, <3>2
  <2>2. att'.pc \notin Handling /\ Elements(att'.q_aux) \subseteq Elements(att.q_aux)
    BY <2>1, NoOrder DEF Handling
  <2> QED
    BY <2>1, <2>2 DEF Requests
<1> QED
  BY <1>3, <1>4, <1>5, <1>6, <1>7, <1>8, <1>9, <1>10, Inside
     DEF Idle, Finishing, Reassigning, Handles

LEMMA RequestsStep ==
    ASSUME Stepping
    PROVE  RequestsPlain'
<1>1. RequestsPlain /\ rows \in Seq(Row)
  BY DEF Stepping, Settled, IInv, TypeOK
<1>2. CASE UNCHANGED rows /\ Requests' \subseteq Requests
  BY <1>1, <1>2 DEF RequestsPlain
<1>3. CASE ReadRow /\ Requests' \subseteq Requests \cup {RequestOf(Head(rows))}
  <2> DEFINE h == Head(rows)
  <2>1. rows # <<>> /\ rows' = Tail(rows)
    BY <1>3 DEF ReadRow
  <2>2. /\ 1 \in 1 .. Len(rows) /\ h = rows[1] /\ h \in Row
        /\ \A k \in 1 .. Len(rows') : k + 1 \in 1 .. Len(rows) /\ rows'[k] = rows[k + 1]
    BY <1>1, <2>1
  <2>3. PlainRow(h)
    BY <1>1, <2>2 DEF RequestsPlain
  <2>4. Plain(RequestOf(h))
    <3>1. h.kind \in {"execution", "update"} /\ h.cores \in Nat \ {0}
      BY <2>2 DEF Row
    <3> HIDE DEF h
    <3> QED
      BY <2>3, <3>1, PolicyAssumption DEF PlainRow, Plain, RequestOf
  <2> QED
    BY <1>1, <1>3, <2>2, <2>4 DEF RequestsPlain
<1> QED
  BY <1>2, <1>3, RequestsMove

-----------------------------------------------------------------------------
(* The client threads.                                                     *)

DockerStates == {"none", "boot", "up", "finished", "leaving", "exited"}

\* What the invariants say together.
LEMMA Given ==
    ASSUME Stepping
    PROVE  /\ TypeOK /\ OwnPeer /\ ListedLater /\ ThreadEnds /\ Names /\ MaxFaults = 0
           /\ [Next]_vars
           /\ att.request \in Request /\ att.request.id \in Containers
           /\ cl \in [Threads -> ClientLocals] /\ docker \in [Containers -> DockerStates]
           /\ \A t \in Threads : cl[t].peer = t[1] /\ ThreadNames(t)
           /\ \A t, u \in Threads : t[1] = u[1] => t = u
           /\ att.pc \in {"schedule", "accept", "register"} => att.request.kind # "Restart"
           /\ att.pc = "register" =>
                 att.request.kind = "Start" /\ ~ Listed(att.request.id) /\ Registers(att.request.id)
           /\ (att.pc = "schedule" /\ att.request.kind = "Start") \/ att.pc = "accept" =>
                 /\ dict_client_threads[att.request.id] = -1
                 /\ \A t \in Threads : t[1] = att.request.id => cl[t].pc = "none"
<1>1. /\ TypeOK /\ OwnPeer /\ ListedLater /\ ThreadEnds /\ Names /\ MaxFaults = 0 /\ [Next]_vars
      /\ RequestsPlain /\ Orders
  BY DEF Stepping, IInv, Orders, Life, Settled, Faultless
<1>2. /\ att.request \in Request /\ att.request.id \in Containers
      /\ cl \in [Threads -> ClientLocals] /\ docker \in [Containers -> DockerStates]
      /\ att.request.kind \in {"Start", "Update", "Restart"}
  BY <1>1, Known, RequestFields DEF TypeOK, DockerStates
<1>3. \A t \in Threads : cl[t].peer = t[1] /\ ThreadNames(t)
  BY <1>1 DEF OwnPeer, Names
<1>4. \A t, u \in Threads : t[1] = u[1] => t = u
  BY <1>1 DEF Threads
<1>5. att.pc \in {"schedule", "accept", "register"} => att.request.kind # "Restart"
  BY <1>1 DEF RequestsPlain, Requests, Handling, Plain
<1>6. att.pc = "register" =>
         att.request.kind = "Start" /\ ~ Listed(att.request.id) /\ Registers(att.request.id)
  BY <1>1, <1>2, <1>5 DEF Orders, Accepting, IsLaunch, ListedLater, Unknown, Registers
<1>7. ASSUME (att.pc = "schedule" /\ att.request.kind = "Start") \/ att.pc = "accept"
      PROVE  /\ dict_client_threads[att.request.id] = -1
             /\ \A t \in Threads : t[1] = att.request.id => cl[t].pc = "none"
  <2>1. att.request.kind = "Start"
    BY <1>1, <1>5, <1>7 DEF Orders, Accepting, IsLaunch
  <2>2. Undertaken(att.request.id)
    BY <1>7, <2>1 DEF Undertaken, Launches, IsLaunch
  <2>3. dict_client_threads[att.request.id] = -1
    BY <1>1, <2>1, <2>2 DEF Orders, StartsAreFirst
  <2> QED
    BY <1>1, <2>3 DEF ThreadEnds
<1> QED
  BY <1>1, <1>2, <1>3, <1>4, <1>5, <1>6, <1>7

\* The entries of the containers that have ended.
LEMMA EndsTyped ==
    ASSUME TypeOK
    PROVE  LET q == q_finish_container
           IN  /\ q \in Seq([cores : Nat, id : Containers]) /\ Len(q) \in Nat
               /\ DOMAIN q = 1 .. Len(q)
               /\ \A k \in 1 .. Len(q) : q[k].id \in Containers /\ q[k].cores \in Nat
<1> DEFINE q == q_finish_container
<1>1. q \in Seq([cores : Nat, id : Containers])
  BY DEF TypeOK
<1> HIDE DEF q
<1>2. /\ Len(q) \in Nat /\ DOMAIN q = 1 .. Len(q)
      /\ \A k \in 1 .. Len(q) : q[k] \in [cores : Nat, id : Containers]
  BY <1>1, SequenceOf
<1> QED
  BY <1>1, <1>2 DEF q

\* The threads themselves.
LEMMA LeavesStep ==
    ASSUME Stepping, NEW t \in Threads, Leaves(t)
    PROVE  ThreadEnds'
<1> USE DEF lists, queues, generator
<1> DEFINE Past == {"removeName", "end", "done"}
<1>0. /\ TypeOK /\ OwnPeer /\ ListedLater /\ ThreadEnds /\ Names /\ [Next]_vars
      /\ cl \in [Threads -> ClientLocals] /\ docker \in [Containers -> DockerStates]
      /\ \A u \in Threads : cl[u].peer = u[1] /\ ThreadNames(u) /\ u = <<u[1], 0>>
                            /\ u[1] \in Containers
      /\ \A i \in Containers : <<i, 0>> \in Threads
      /\ \A u, v \in Threads : u[1] = v[1] => u = v
      /\ Client(t)
  BY Given, NoFaults DEF Leaves, Client
<1>1. /\ UNCHANGED <<att, dict_client_threads>>
      /\ \A u \in Threads : u # t => cl'[u] = cl[u]
  BY <1>0, ThreadStep
<1>2. /\ \/ ClientExit(t) /\ cl[t].pc = "loop" /\ cl'[t].pc = "removeName"
         \/ ClientInit(t) /\ cl[t].pc = "init" /\ cl'[t].pc = "loop"
         \/ ClientRemoveName(t) /\ cl[t].pc = "removeName" /\ cl'[t].pc = "end"
         \/ ClientEnd(t) /\ cl[t].pc = "end" /\ cl'[t].pc = "done"
      /\ ClientExit(t) => /\ Listed(t[1]) /\ ~ Registers(t[1])
                          /\ cl[t].pc = "loop" /\ cl'[t].pc = "removeName"
  <2>1. ClientExit(t) => Listed(t[1]) /\ ~ Registers(t[1])
    <3>1. ClientExit(t) => docker[t[1]] = "finished" /\ cl[t].pc = "loop"
      BY <1>0 DEF ClientExit
    <3>2. ClientExit(t) => Listed(t[1]) /\ Named(t[1])
      BY <1>0, <3>1 DEF ThreadNames
    <3> QED
      BY <1>0, <3>2 DEF Names, ListNames
  <2> QED
    BY <1>0, <2>1 DEF Leaves, ClientInit, ClientExit, ClientRemoveName, ClientEnd, ClientLocals
<1>3. ASSUME NEW i \in Containers
      PROVE  /\ docker'[i] = "boot" => docker[i] = "boot"
             /\ docker'[i] = "up" => docker[i] \in {"boot", "up"}
             /\ docker'[i] = "finished" => docker[i] \in {"up", "finished"}
             /\ docker'[i] = "leaving" => docker[i] = "leaving" \/ (ClientExit(t) /\ t[1] = i)
             /\ Listed(i)' => Listed(i) /\ (ClientExit(t) => i # t[1])
             /\ ClientExit(t) => docker'[t[1]] = "leaving"
             /\ ClientRemoveName(t) /\ docker[t[1]] = "leaving" => docker'[t[1]] = "exited"
  <2>1. CASE ClientExit(t)
    <3>1. docker' = [docker EXCEPT ![t[1]] = "leaving"]
      BY <1>0, <2>1 DEF ClientExit
    <3>2. Listed(i)' => Listed(i) /\ i # t[1]
      BY <1>0, <1>2, <2>1, ExitList
    <3>3. ~ ClientRemoveName(t)
      BY <1>2, <2>1 DEF ClientRemoveName
    <3> QED
      BY <1>0, <2>1, <3>1, <3>2, <3>3
  <2>2. CASE ~ ClientExit(t)
    <3>1. \/ UNCHANGED <<docker, execInfo_list>>
          \/ /\ docker' = [docker EXCEPT ![t[1]] = IF @ = "leaving" THEN "exited" ELSE @]
             /\ UNCHANGED execInfo_list
          \/ docker' = Pruned(docker) /\ UNCHANGED execInfo_list /\ ~ ClientRemoveName(t)
      BY <1>0, <1>2, <2>2 DEF ClientInit, ClientRemoveName, ClientEnd, world
    <3>2. ClientRemoveName(t) =>
             docker' = [docker EXCEPT ![t[1]] = IF @ = "leaving" THEN "exited" ELSE @]
      BY <1>0 DEF ClientRemoveName
    <3> QED
      BY <1>0, <2>2, <3>1, <3>2 DEF Pruned, Listed
  <2> QED
    BY <2>1, <2>2
<1>4. ASSUME NEW u \in Threads
      PROVE  /\ cl'[u].pc \in {"none", "init", "loop", "removeName", "end", "done"}
             /\ cl'[u].pc # "none" => dict_client_threads'[u[1]] # -1
             /\ cl'[u].pc \in Past => ~ Listed(u[1])'
             /\ cl'[u].pc = "removeName" => docker'[u[1]] \notin {"boot", "up", "finished"}
             /\ cl'[u].pc \in {"end", "done"} => ~ Running(u[1])'
             /\ cl[u].pc \in Past => cl'[u].pc \in Past
  <2>1. CASE u = t
    BY <1>0, <1>1, <1>2, <1>3, <2>1 DEF ThreadEnds, Running
  <2>2. CASE u # t
    BY <1>0, <1>1, <1>2, <1>3, <2>2 DEF ThreadEnds, Running
  <2> QED
    BY <2>1, <2>2
<1>5. /\ \A k \in 1 .. Len(q_finish_container') :
            cl'[<<q_finish_container'[k].id, 0>>].pc \in Past
      /\ \A k, l \in 1 .. Len(q_finish_container') :
            q_finish_container'[k].id = q_finish_container'[l].id => k = l
  <2> DEFINE q == q_finish_container
  <2>1. /\ q \in Seq([cores : Nat, id : Containers]) /\ Len(q) \in Nat
        /\ \A k \in 1 .. Len(q) : q[k].id \in Containers /\ cl[<<q[k].id, 0>>].pc \in Past
        /\ \A k, l \in 1 .. Len(q) : q[k].id = q[l].id => k = l
    BY <1>0, EndsTyped DEF ThreadEnds
  <2>2. CASE ~ ClientExit(t)
    <3>1. q' = q
      BY <1>2, <2>2 DEF ClientInit, ClientRemoveName, ClientEnd
    <3> QED
      BY <1>0, <1>4, <2>1, <3>1
  <2>3. CASE ClientExit(t)
    <3> DEFINE e == [cores |-> Parallelism(info[t[1]]), id |-> t[1]]
    <3>1. q' = Append(q, e) /\ e.id = t[1]
      BY <1>2, <2>3 DEF ClientExit
    <3> HIDE DEF e, q
    <3>2. /\ Len(q') = Len(q) + 1 /\ q'[Len(q) + 1] = e
          /\ \A k \in 1 .. Len(q) : q'[k] = q[k]
      BY <2>1, <3>1
    <3>3. \A k \in 1 .. Len(q) : q[k].id # t[1]
      BY <1>0, <1>2, <2>1, <2>3
    <3>4. \A k \in 1 .. Len(q') : \/ k = Len(q) + 1 /\ q'[k].id = t[1]
                                  \/ k \in 1 .. Len(q) /\ q'[k] = q[k]
      BY <2>1, <3>1, <3>2
    <3>5. cl'[<<t[1], 0>>].pc \in Past
      BY <1>0, <1>2, <2>3
    <3>6. /\ \A k \in 1 .. Len(q') : cl'[<<q'[k].id, 0>>].pc \in Past
          /\ \A k, l \in 1 .. Len(q') : q'[k].id = q'[l].id => k = l
      BY <1>0, <1>4, <2>1, <3>3, <3>4, <3>5
    <3> QED
      BY <3>6 DEF q
  <2> QED
    BY <2>2, <2>3
<1>6. att'.pc = "register" => cl'[<<att'.request.id, 0>>].pc \in {"init", "loop"}
  <2> SUFFICES ASSUME att.pc = "register" PROVE cl'[<<att.request.id, 0>>].pc \in {"init", "loop"}
    BY <1>1
  <2>1. cl[<<att.request.id, 0>>].pc \in {"init", "loop"} /\ Registers(att.request.id)
    BY <1>0, Given DEF ThreadEnds
  <2>2. t = <<att.request.id, 0>> => cl'[t].pc \in {"init", "loop"}
    BY <1>2, <2>1
  <2> QED
    BY <1>0, <1>1, <2>1, <2>2, Given
<1> QED
  BY <1>4, <1>5, <1>6 DEF ThreadEnds

LEMMA ThreadEndsStep ==
    ASSUME Stepping
    PROVE  ThreadEnds'
<1> USE DEF lists, queues, generator
<1> DEFINE Past == {"removeName", "end", "done"}
<1>0. /\ TypeOK /\ OwnPeer /\ ListedLater /\ ThreadEnds /\ Names /\ [Next]_vars /\ MaxFaults = 0
      /\ cl \in [Threads -> ClientLocals] /\ docker \in [Containers -> DockerStates]
      /\ \A u \in Threads : u = <<u[1], 0>> /\ u[1] \in Containers
      /\ \A i \in Containers : <<i, 0>> \in Threads
      /\ att.request.id \in Containers
      /\ \A t \in Threads : Client(t) \/ ClientFail(t) => Leaves(t)
  BY Given, NoFaults DEF Client, Leaves
<1>1. CASE \E t \in Threads : Leaves(t)
  BY <1>1, LeavesStep
<1>2. CASE Accept
  <2> DEFINE i == att.request.id
  <2>1. /\ att.pc = "accept" /\ att'.pc = "register" /\ att'.request = att.request
        /\ UNCHANGED <<docker, execInfo_list, q_finish_container>>
        /\ dict_client_threads' = [dict_client_threads EXCEPT ![i] = 0]
        /\ \E p : cl' = [cl EXCEPT ![<<i, 0>>].pc = "init", ![<<i, 0>>].peer = p]
    <3>1. att \in AttentionLocals
      BY <1>0, Known
    <3>2. /\ att.pc = "accept" /\ att'.pc = "register" /\ att'.request = att.request
          /\ UNCHANGED <<docker, execInfo_list, q_finish_container>>
      BY <1>2, <3>1 DEF Accept, AttentionLocals
    <3>3. PICK n \in 0 .. MaxFaults :
             /\ dict_client_threads' = [dict_client_threads EXCEPT ![i] = n]
             /\ cl' = [cl EXCEPT ![<<i, n>>].pc = "init", ![<<i, n>>].peer = Head(backlog)]
      BY <1>2 DEF Accept
    <3>4. n = 0
      BY <1>0
    <3> QED
      BY <3>2, <3>3, <3>4
  <2>2. /\ \A u \in Threads : u[1] = i => cl[u].pc = "none"
        /\ i \in Containers /\ dict_client_threads \in [Containers -> Int]
    BY <1>0, <2>1, Given DEF TypeOK
  <2>3. \A u \in Threads : IF u[1] = i THEN cl'[u].pc = "init" ELSE cl'[u] = cl[u]
    <3>1. PICK p : cl' = [cl EXCEPT ![<<i, 0>>].pc = "init", ![<<i, 0>>].peer = p]
      BY <2>1
    <3>2. <<i, 0>> \in Threads /\ cl[<<i, 0>>] \in ClientLocals
      BY <1>0, <2>2
    <3>3. cl'[<<i, 0>>].pc = "init"
      BY <1>0, <3>1, <3>2 DEF ClientLocals
    <3>4. \A u \in Threads : u # <<i, 0>> => cl'[u] = cl[u]
      BY <1>0, <3>1
    <3> QED
      BY <1>0, <3>3, <3>4
  <2>4. \A j \in Containers : dict_client_threads'[j] = -1 => dict_client_threads[j] = -1 /\ j # i
    BY <2>1, <2>2
  <2>5. \A k \in 1 .. Len(q_finish_container) : /\ q_finish_container[k].id # i
                                                /\ q_finish_container[k].id \in Containers
    <3>1. \A k \in 1 .. Len(q_finish_container) : q_finish_container[k].id \in Containers
      BY <1>0, EndsTyped
    <3> QED
      BY <1>0, <2>2, <3>1 DEF ThreadEnds
  <2> HIDE DEF i
  <2>6. \A u \in Threads : Listed(u[1])' = Listed(u[1]) /\ Running(u[1])' = Running(u[1])
    BY <2>1 DEF Listed, Running
  <2>7. \A u \in Threads :
           /\ cl'[u].pc \in {"none", "init", "loop", "removeName", "end", "done"}
           /\ cl'[u].pc # "none" => dict_client_threads'[u[1]] # -1
           /\ cl'[u].pc \in {"removeName", "end", "done"} => ~ Listed(u[1])'
           /\ cl'[u].pc = "removeName" => docker'[u[1]] \notin {"boot", "up", "finished"}
           /\ cl'[u].pc \in {"end", "done"} => ~ Running(u[1])'
    BY <1>0, <2>1, <2>3, <2>4, <2>6 DEF ThreadEnds
  <2>8. \A k \in 1 .. Len(q_finish_container') :
           cl'[<<q_finish_container'[k].id, 0>>].pc \in {"removeName", "end", "done"}
    BY <1>0, <2>1, <2>3, <2>5 DEF ThreadEnds
  <2>9. \A k, l \in 1 .. Len(q_finish_container') :
           q_finish_container'[k].id = q_finish_container'[l].id => k = l
    BY <1>0, <2>1 DEF ThreadEnds
  <2>10. cl'[<<att'.request.id, 0>>].pc \in {"init", "loop"}
    BY <1>0, <2>1, <2>2, <2>3 DEF i
  <2> QED
    BY <2>7, <2>8, <2>9, <2>10 DEF ThreadEnds
<1>3. CASE ~ Accept /\ ~ \E t \in Threads : Leaves(t)
  <2>1. UNCHANGED clients /\ (UNCHANGED q_finish_container \/ FinishRequest)
    BY <1>0, <1>3, Touches DEF Leaves
  <2>2. ASSUME NEW u \in Threads, Launched(u[1]) PROVE cl[u].pc = "none"
    BY <2>2, Given DEF Launched, ScheduleLaunch, IsLaunch
  <2>3. ASSUME NEW u \in Threads, RegisterStart, u[1] = att.request.id
        PROVE  cl[u].pc \in {"init", "loop"}
    BY <1>0, <2>3 DEF RegisterStart, ThreadEnds
  <2>4. ASSUME NEW u \in Threads, cl[u].pc \in Past
        PROVE  /\ ~ Listed(u[1])'
               /\ cl[u].pc = "removeName" => docker'[u[1]] \notin {"boot", "up", "finished"}
               /\ cl[u].pc \in {"end", "done"} => ~ Running(u[1])'
    <3> DEFINE i == u[1]
    <3>1. i \in Containers /\ ~ Launched(i) /\ ~ (RegisterStart /\ i = att.request.id)
      BY <1>0, <2>2, <2>3, <2>4
    <3>2. Listed(i)' => Listed(i)
      BY <1>0, <3>1, ListStep
    <3>3. /\ docker'[i] = "boot" => docker[i] = "boot"
          /\ docker'[i] = "up" => docker[i] \in {"boot", "up"}
          /\ docker'[i] = "finished" => docker[i] \in {"up", "finished"}
          /\ docker'[i] = "leaving" => docker[i] = "leaving"
      BY <1>0, <1>3, <3>1, DockerStep DEF Leaves
    <3> QED
      BY <1>0, <2>4, <3>2, <3>3 DEF ThreadEnds, Running
  <2>5. \A u \in Threads : /\ cl'[u] = cl[u] /\ dict_client_threads'[u[1]] = dict_client_threads[u[1]]
    BY <2>1 DEF clients
  <2>6. /\ \A k \in 1 .. Len(q_finish_container') :
              cl'[<<q_finish_container'[k].id, 0>>].pc \in Past
        /\ \A k, l \in 1 .. Len(q_finish_container') :
              q_finish_container'[k].id = q_finish_container'[l].id => k = l
    <3> DEFINE q == q_finish_container
    <3>1. /\ q \in Seq([cores : Nat, id : Containers]) /\ Len(q) \in Nat
          /\ \A k \in 1 .. Len(q) : q[k].id \in Containers /\ cl[<<q[k].id, 0>>].pc \in Past
          /\ \A k, l \in 1 .. Len(q) : q[k].id = q[l].id => k = l
      BY <1>0, EndsTyped DEF ThreadEnds
    <3>2. CASE UNCHANGED q_finish_container
      BY <1>0, <2>5, <3>1, <3>2
    <3>3. CASE FinishRequest
      <4>1. q' = Tail(q) /\ q # <<>>
        BY <3>3 DEF FinishRequest
      <4> HIDE DEF q
      <4>2. /\ Len(q') = Len(q) - 1
            /\ \A k \in 1 .. Len(q') : k + 1 \in 1 .. Len(q) /\ q'[k] = q[k + 1]
        BY <3>1, <4>1
      <4>3. /\ \A k \in 1 .. Len(q') : cl'[<<q'[k].id, 0>>].pc \in Past
            /\ \A k, l \in 1 .. Len(q') : q'[k].id = q'[l].id => k = l
        <5>1. \A k \in 1 .. Len(q') : cl'[<<q'[k].id, 0>>].pc \in Past
          BY <1>0, <2>5, <3>1, <4>2
        <5>2. ASSUME NEW k \in 1 .. Len(q'), NEW l \in 1 .. Len(q'), q'[k].id = q'[l].id
              PROVE  k = l
          <6>1. /\ k + 1 \in 1 .. Len(q) /\ l + 1 \in 1 .. Len(q)
                /\ q[k + 1].id = q[l + 1].id
            BY <4>2, <5>2
          <6>2. k + 1 = l + 1
            BY <3>1, <6>1
          <6> QED
            BY <3>1, <4>2, <6>2
        <5> QED
          BY <5>1, <5>2
      <4> QED
        BY <4>3 DEF q
    <3> QED
      BY <2>1, <3>2, <3>3
  <2>7. att'.pc = "register" => cl'[<<att'.request.id, 0>>].pc \in {"init", "loop"}
    <3>1. att'.pc = "register" => UNCHANGED att
      BY <1>0, <1>3, AttTouches
    <3> QED
      BY <1>0, <2>5, <3>1 DEF ThreadEnds
  <2> QED
    BY <1>0, <2>4, <2>5, <2>6, <2>7 DEF ThreadEnds
<1> QED
  BY <1>1, <1>2, <1>3

-----------------------------------------------------------------------------
(* The records.                                                            *)

LEMMA SoundKept ==
    ASSUME NEW c \in ExecutionInfo, NEW x \in Int, NEW y \in Int, Sound(c)
    PROVE  LET u == update_parallelism(c, x, y)
           IN  Sound(u) /\ Sound([u EXCEPT !.state = "update"])
<1> DEFINE u == update_parallelism(c, x, y)
<1>1. /\ c.inter \in Nat /\ c.inter_user \in Nat /\ c.intra \in Nat /\ c.intra_user \in Nat
      /\ MaxPerCont \in Nat
  BY PolicyAssumption DEF ExecutionInfo
<1>2. /\ u.inter = (IF x > 0 THEN x ELSE c.inter)
      /\ u.inter_user = (IF x > 0 THEN x ELSE c.inter_user)
      /\ u.intra = (IF y > 0 THEN y ELSE c.intra)
      /\ u.intra_user = (IF y > 0 THEN y ELSE c.intra_user)
      /\ u.state = c.state
  BY DEF update_parallelism, ExecutionInfo
<1>3. LET v == [u EXCEPT !.state = "update"]
      IN  /\ v.inter = u.inter /\ v.inter_user = u.inter_user /\ v.state = "update"
          /\ v.intra = u.intra /\ v.intra_user = u.intra_user
  BY DEF update_parallelism, ExecutionInfo
<1> HIDE DEF u
<1>4. Sound(u)
  BY <1>1, <1>2 DEF Sound
<1>5. Sound([u EXCEPT !.state = "update"])
  BY <1>3, <1>4 DEF Sound
<1> QED
  BY <1>4, <1>5 DEF u

\* Which steps write a record.
LEMMA InfoStep ==
    ASSUME Stepping
    PROVE  UNCHANGED info \/ RegisterStart \/ GiveWrite \/ UpdateWrite
<1> USE DEF lists
<1>1. CASE Outside
  BY <1>1, OutsideStep
<1>2. CASE IsFinishQueues \/ IsFinishRest \/ Wait \/ Wake \/ FinishRequest \/ Join
  BY <1>2 DEF IsFinishQueues, IsFinishRest, Wait, Wake, FinishRequest, Join
<1>3. CASE Reassign \/ LockList \/ GiveNext \/ GiveEnd \/ GiveBack
  BY <1>3 DEF Reassign, LockList, GiveNext, GiveEnd, GiveBack
<1>4. CASE ScheduleLaunch \/ Accept \/ RegisterName \/ ScheduleUpdate \/ SendFails
  BY <1>4 DEF ScheduleLaunch, Accept, RegisterName, ScheduleUpdate, SendFails
<1>5. CASE Pending \/ New \/ TakeRequest \/ PendingEnd \/ NewEnd \/ ExcessRead \/ ExcessWrite
  <2>1. CASE Pending \/ New \/ PendingEnd \/ NewEnd \/ ExcessRead \/ ExcessWrite
    BY <2>1 DEF Pending, New, PendingEnd, NewEnd, ExcessRead, ExcessWrite
  <2>2. CASE TakeRequest
    BY <2>2 DEF TakeRequest
  <2> QED
    BY <1>5, <2>1, <2>2
<1>6. CASE PostPending \/ PostNew \/ PostWrite \/ Relock \/ Occupation
  BY <1>6 DEF PostPending, PostNew, PostWrite, Relock, Occupation
<1> QED
  BY <1>1, <1>2, <1>3, <1>4, <1>5, <1>6, Inside

\* The record of a container that is registered.
LEMMA Registered ==
    ASSUME Stepping, RegisterStart
    PROVE  LET i == att.request.id
           IN  /\ i \in Containers /\ Sound(info'[i])
               /\ Parallelism(info'[i]) = att.give.cost
               /\ \A j \in Containers : j # i => info'[j] = info[j]
<1> DEFINE i == att.request.id
           r == att.request
<1>0. /\ TypeOK /\ Granting /\ RequestsPlain /\ i \in Containers /\ r \in Request
      /\ info \in [Containers -> ExecutionInfo]
  BY Given DEF Stepping, Settled, TypeOK
<1>1. att.pc = "register"
  BY DEF RegisterStart
<1>2. /\ att.give.inter \in Nat /\ att.give.intra \in Nat /\ att.give.cost \in Int
      /\ MaxPerCont \in Nat /\ r.intra \in Nat
  BY <1>0, <1>1, Known, RequestFields, PolicyAssumption DEF Stepping, IInv, LaunchGive
<1>3. /\ att.give.inter >= 1 /\ att.give.cost = att.give.inter + att.give.intra
      /\ Assignment # "max_prop" => r.intra - att.give.intra <= MaxPerCont
  BY <1>0, <1>1 DEF Granting
<1>4. r.inter = 1
  BY <1>0, <1>1 DEF RequestsPlain, Requests, Handling, Plain
<1>5. info' = [info EXCEPT ![i] = [inter_user |-> r.inter, intra_user |-> r.intra,
                                   inter |-> att.give.inter, intra |-> att.give.intra,
                                   state |-> "start", priority |-> r.priority]]
  BY DEF RegisterStart
<1>6. /\ info'[i].inter_user = 1 /\ info'[i].intra_user = r.intra
      /\ info'[i].inter = att.give.inter /\ info'[i].intra = att.give.intra
      /\ info'[i].state = "start"
      /\ \A j \in Containers : j # i => info'[j] = info[j]
  BY <1>0, <1>4, <1>5
<1> QED
  BY <1>0, <1>2, <1>3, <1>6 DEF Sound, Parallelism

LEMMA RecordsStep ==
    ASSUME Stepping
    PROVE  Records'
<1>0. /\ TypeOK /\ ListedLater /\ [Next]_vars /\ Records /\ Granting /\ RequestsPlain
      /\ info \in [Containers -> ExecutionInfo] /\ att.request.id \in Containers
      /\ att.give.inter \in Int /\ att.give.intra \in Int
  BY Given, Known DEF Stepping, Settled, TypeOK
<1> SUFFICES ASSUME NEW i \in Containers, Listed(i)' PROVE Sound(info'[i])
  BY DEF Records
<1>1. Listed(i) \/ (RegisterStart /\ i = att.request.id)
  BY <1>0, ListStep
<1>2. CASE UNCHANGED info
  <2>1. RegisterStart /\ i = att.request.id => Sound(info'[i])
    BY Registered
  <2> QED
    BY <1>0, <1>1, <1>2, <2>1 DEF Records
<1>3. CASE RegisterStart
  <2>1. CASE i = att.request.id
    BY <1>3, <2>1, Registered
  <2>2. CASE i # att.request.id
    <3>1. info'[i] = info[i]
      BY <1>0, <1>3, <2>2 DEF RegisterStart
    <3> QED
      BY <1>0, <1>1, <2>2, <3>1 DEF Records
  <2> QED
    BY <2>1, <2>2
<1>4. CASE GiveWrite
  <2> DEFINE j == execInfo_list[att.idx]
             c == update_parallelism(info[j], att.give.inter, att.give.intra)
  <2>1. info' = [info EXCEPT ![j] = IF Assignment = "max_prop"
                                    THEN [c EXCEPT !.state = "update"] ELSE c]
    BY <1>4 DEF GiveWrite
  <2>2. ~ RegisterStart
    BY <1>4 DEF GiveWrite, RegisterStart
  <2>3. i = j => Sound(c) /\ Sound([c EXCEPT !.state = "update"])
    BY <1>0, <1>1, <2>2, SoundKept DEF Records
  <2> HIDE DEF c, j
  <2> QED
    BY <1>0, <1>1, <2>1, <2>2, <2>3 DEF Records
<1>5. CASE UpdateWrite
  <2> DEFINE j == att.request.id
             c == update_parallelism(info[j], att.give.inter, att.give.intra)
  <2>1. info' = [info EXCEPT ![j] = c]
    BY <1>5 DEF UpdateWrite
  <2>2. ~ RegisterStart
    BY <1>5 DEF UpdateWrite, RegisterStart
  <2>3. i = j => Sound(c)
    BY <1>0, <1>1, <2>2, SoundKept DEF Records
  <2> HIDE DEF c, j
  <2> QED
    BY <1>0, <1>1, <2>1, <2>2, <2>3 DEF Records
<1> QED
  BY <1>2, <1>3, <1>4, <1>5, InfoStep

-----------------------------------------------------------------------------
(* What the policies give of what was reserved.                            *)

\* What a launch with one inter thread gets.
LEMMA LaunchGrant ==
    ASSUME NEW granted \in Nat \ {0}, NEW intra \in Nat, NEW factor \in (Nat \ {0}) \X Nat,
           Assignment # "max_prop" => granted <= 1 + intra /\ intra <= MaxPerCont + 1,
           schedule_parallelism(granted, 1, intra, factor) # <<>>
    PROVE  LET p == schedule_parallelism(granted, 1, intra, factor)
           IN  /\ p[1] \in Nat /\ p[1] >= 1 /\ p[2] \in Nat /\ p[1] + p[2] <= granted
               /\ Assignment # "max_prop" => intra - p[2] <= MaxPerCont
<1> DEFINE p == schedule_parallelism(granted, 1, intra, factor)
<1>0. MaxPerCont \in Nat \ {0}
  BY PolicyAssumption
<1>1. p \in Nat \X Nat
  BY GrantNat
<1>2. CASE Assignment = "strict"
  <2>1. p = Strict(granted, 1, intra)
    BY <1>2 DEF schedule_parallelism
  <2>2. p = <<1, intra>> /\ granted >= 1 + intra
    BY <2>1 DEF Strict, OneInter
  <2> QED
    BY <1>0, <1>1, <2>2
<1>3. CASE Assignment = "max_prop"
  <2>1. p = MaxProp(granted, intra, factor)
    BY <1>3 DEF schedule_parallelism
  <2>2. Fits(p, granted)
    BY <2>1, MaxPropFitsAll
  <2> QED
    BY <1>1, <1>3, <2>2 DEF Fits
<1>4. CASE Assignment # "strict" /\ Assignment # "max_prop"
  <2>1. p = AlwaysAttend(granted, 1, intra)
    BY <1>4 DEF schedule_parallelism
  <2>2. granted >= 2
    BY <2>1 DEF AlwaysAttend
  <2>3. intra \in Nat \ {0}
    BY <1>4, <2>2
  <2>4. Fits(p, granted)
    BY <2>1, <2>3, AlwaysAttendFitsAll
  <2> QED
    BY <1>0, <1>1, <1>4, <2>4 DEF Fits
<1> QED
  BY <1>2, <1>3, <1>4

\* What an update gets: all that was reserved, or one inter thread and the rest.
LEMMA UpdateGrant ==
    ASSUME NEW granted \in Nat \ {0}, NEW a \in Int, NEW b \in Nat \ {0},
           NEW factor \in (Nat \ {0}) \X Nat, a <= 0,
           Assignment # "max_prop" => granted <= a + b,
           schedule_parallelism(granted, a, b, factor) # <<>>
    PROVE  LET p == schedule_parallelism(granted, a, b, factor)
           IN  \/ p = <<a, b>> /\ granted = a + b
               \/ \E k \in Nat \ {0} : p = <<1, k>> /\ 1 + k <= granted
<1> DEFINE p == schedule_parallelism(granted, a, b, factor)
<1>2. CASE Assignment = "strict"
  <2>1. p = Strict(granted, a, b)
    BY <1>2 DEF schedule_parallelism
  <2>2. a + b > 0 /\ granted <= a + b
    BY <1>2
  <2>3. p = <<a, b>> /\ granted >= a + b
    BY <2>1, <2>2 DEF Strict, OneInter
  <2> QED
    BY <2>2, <2>3
<1>3. CASE Assignment = "max_prop"
  <2>1. p = MaxProp(granted, b, factor)
    BY <1>3 DEF schedule_parallelism
  <2>2. Fits(p, granted)
    BY <2>1, MaxPropFitsAll
  <2>3. \E k : p = <<1, k>>
    BY <2>1 DEF MaxProp
  <2>4. p \in Int \X Int
    BY GrantInt
  <2> QED
    BY <2>2, <2>3, <2>4 DEF Fits
<1>4. CASE Assignment # "strict" /\ Assignment # "max_prop"
  <2>1. p = AlwaysAttend(granted, a, b)
    BY <1>4 DEF schedule_parallelism
  <2>2. granted >= 2 /\ granted <= a + b
    BY <1>4, <2>1 DEF AlwaysAttend
  <2>3. CASE a + b <= granted
    BY <2>1, <2>2, <2>3 DEF AlwaysAttend, OneInter
  <2>4. CASE a + b > granted
    <3>1. p = AtLeastOne(<<0, granted>>)
      BY <2>1, <2>2, <2>4 DEF AlwaysAttend, Fraction
    <3>2. p = <<1, granted - 1>>
      BY <2>2, <3>1 DEF AtLeastOne
    <3>3. granted - 1 \in Nat \ {0} /\ 1 + (granted - 1) <= granted
      BY <2>2
    <3> QED
      BY <3>2, <3>3
  <2> QED
    BY <2>3, <2>4
<1> QED
  BY <1>2, <1>3, <1>4

\* What the record of a container becomes.
LEMMA Gains ==
    ASSUME NEW c \in ExecutionInfo, NEW x \in Int, NEW y \in Int
    PROVE  LET u == update_parallelism(c, x, y)
               g == (IF x > 0 THEN x - c.inter ELSE 0) + (IF y > 0 THEN y - c.intra ELSE 0)
           IN  /\ Parallelism(c) \in Nat /\ Parallelism(u) \in Nat
               /\ Parallelism(u) = Parallelism(c) + g
               /\ new_parallelism(c, x, y) <= Parallelism(u)
               /\ Parallelism([u EXCEPT !.state = "update"]) = Parallelism(u)
<1> DEFINE u == update_parallelism(c, x, y)
<1>1. c.inter \in Nat /\ c.intra \in Nat
  BY DEF ExecutionInfo
<1>2. /\ u.inter = (IF x > 0 THEN x ELSE c.inter)
      /\ u.intra = (IF y > 0 THEN y ELSE c.intra)
      /\ LET v == [u EXCEPT !.state = "update"] IN v.inter = u.inter /\ v.intra = u.intra
  BY DEF update_parallelism, ExecutionInfo
<1> HIDE DEF u
<1> QED
  BY <1>1, <1>2 DEF Parallelism, new_parallelism, u

LEMMA GainedIs ==
    ASSUME NEW c \in ExecutionInfo, NEW x \in Int, NEW y \in Int, NEW z
    PROVE  Gained(c, Give(x, y, z)) =
              (IF x > 0 THEN x - c.inter ELSE 0) + (IF y > 0 THEN y - c.intra ELSE 0)
<1> DEFINE u == update_parallelism(c, x, y)
           g == (IF x > 0 THEN x - c.inter ELSE 0) + (IF y > 0 THEN y - c.intra ELSE 0)
<1>1. Gained(c, Give(x, y, z)) = Parallelism(u) - Parallelism(c)
  BY DEF Gained, Give
<1>2. Parallelism(c) \in Nat /\ Parallelism(u) = Parallelism(c) + g /\ g \in Int
  <2>1. c.inter \in Nat /\ c.intra \in Nat
    BY DEF ExecutionInfo
  <2>2. Parallelism(c) \in Nat /\ Parallelism(u) = Parallelism(c) + g
    BY Gains
  <2> QED
    BY <2>1, <2>2
<1> HIDE DEF u, g
<1>3. Gained(c, Give(x, y, z)) = g
  BY <1>1, <1>2
<1> QED
  BY <1>3 DEF g

\* What a container with m inter and n intra threads gains by what the policy gives of
\* the difference to one inter and t intra threads.
LEMMA UpdateAmounts ==
    ASSUME NEW m \in Nat \ {0}, NEW n \in Nat, NEW t \in Nat \ {0}, NEW granted \in Nat \ {0},
           NEW p, (1 - m) + (t - n) > 0,
           \/ p = <<1 - m, t - n>> /\ granted = (1 - m) + (t - n)
           \/ \E k \in Nat \ {0} : p = <<1, k>> /\ 1 + k <= granted
    PROVE  LET x == IF p[1] # 0 THEN m + p[1] ELSE 0
               y == IF p[1] # 0 /\ p[2] = 0 THEN 0 ELSE n + p[2]
               z == p[1] + p[2]
           IN  /\ x \in Int /\ y \in Int /\ z \in Int /\ 0 < z /\ z <= granted
               /\ z = (IF x > 0 THEN x - m ELSE 0) + (IF y > 0 THEN y - n ELSE 0)
<1>1. CASE p = <<1 - m, t - n>> /\ granted = (1 - m) + (t - n)
  BY <1>1
<1>2. CASE \E k \in Nat \ {0} : p = <<1, k>> /\ 1 + k <= granted
  BY <1>2
<1> QED
  BY <1>1, <1>2

\* What an update writes costs what the container gains, and no more than was reserved;
\* a request for fewer cores gives back what was counted as free.
LEMMA UpdatePaid ==
    ASSUME NEW r \in Request, NEW c \in ExecutionInfo, Sound(c),
           r.inter = 1, r.intra >= 1,
           att.granted \in Int \ {0}, att.factor \in (Nat \ {0}) \X Nat,
           Offered(att.granted, r.inter + r.intra - Parallelism(c)),
           UpdateGive(r, c) # <<>>
    PROVE  LET g == UpdateGive(r, c)[1]
           IN  /\ g \in [inter : Int, intra : Int, cost : Int]
               /\ g.cost # 0 /\ g.cost = Gained(c, g)
               /\ \/ 0 < g.cost /\ g.cost <= att.granted
                  \/ g.cost < 0 /\ g.cost = att.granted
<1> DEFINE m == c.inter
           n == c.intra
           t == r.intra
           e == att.granted
           w == (1 - m) + (t - n)
           p == schedule_parallelism(e, 1 - m, t - n, att.factor)
           Paid(g) == /\ g \in [inter : Int, intra : Int, cost : Int]
                      /\ g.cost # 0 /\ g.cost = Gained(c, g)
                      /\ (0 < g.cost /\ g.cost <= e) \/ (g.cost < 0 /\ g.cost = e)
<1>1. m \in Nat \ {0} /\ n \in Nat /\ t \in Nat \ {0}
  <2>1. c.inter \in Nat /\ c.intra \in Nat /\ c.inter >= 1 /\ r.intra \in Nat
    BY RequestFields DEF ExecutionInfo, Sound
  <2> QED
    BY <2>1
<1>2. r.inter + r.intra - Parallelism(c) = w
  <2>1. r.inter + r.intra - Parallelism(c) = 1 + t - (m + n)
    BY DEF Parallelism
  <2> HIDE DEF m, n, t
  <2> QED
    BY <1>1, <2>1
<1>3. \A x, y \in Int : \A z :
         Gained(c, Give(x, y, z)) =
            (IF x > 0 THEN x - m ELSE 0) + (IF y > 0 THEN y - n ELSE 0)
  BY GainedIs
<1>4. e \in Int \ {0} /\ att.factor \in (Nat \ {0}) \X Nat /\ Offered(e, w)
  BY <1>2
<1>5. UpdateGive(r, c) =
         (IF e < 0 THEN <<Give(1, t, w)>>
          ELSE IF p = <<>> THEN <<>>
          ELSE <<Give(IF p[1] # 0 THEN m + p[1] ELSE 0,
                      IF p[1] # 0 /\ p[2] = 0 THEN 0 ELSE n + p[2],
                      p[1] + p[2])>>)
  BY <1>2 DEF UpdateGive
<1>6. CASE e < 0
  <2>1. UpdateGive(r, c)[1] = Give(1, t, w)
    BY <1>5, <1>6
  <2> HIDE DEF m, n, t, e, p
  <2>2. Gained(c, Give(1, t, w)) = (1 - m) + (t - n)
    <3>1. 1 \in Int /\ t \in Int /\ 1 > 0 /\ t > 0
      BY <1>1
    <3> HIDE DEF w
    <3>2. Gained(c, Give(1, t, w)) = (IF 1 > 0 THEN 1 - m ELSE 0) + (IF t > 0 THEN t - n ELSE 0)
      BY <1>3, <3>1, Zenon
    <3> QED
      BY <3>1, <3>2
  <2>3. w = e /\ w \in Int
    BY <1>1, <1>4, <1>6 DEF Offered
  <2>4. Paid(Give(1, t, w))
    <3> HIDE DEF w
    <3>1. /\ Give(1, t, w).cost = w
          /\ Give(1, t, w) \in [inter : Int, intra : Int, cost : Int]
      BY <1>1, <2>3 DEF Give
    <3> QED
      BY <1>4, <1>6, <2>2, <2>3, <3>1 DEF w
  <2> QED
    BY <2>1, <2>4 DEF e
<1>7. CASE ~ (e < 0)
  <2> DEFINE x == IF p[1] # 0 THEN m + p[1] ELSE 0
             y == IF p[1] # 0 /\ p[2] = 0 THEN 0 ELSE n + p[2]
             z == p[1] + p[2]
  <2>1. p # <<>> /\ UpdateGive(r, c)[1] = Give(x, y, z)
    BY <1>5, <1>7
  <2> HIDE DEF m, n, t, e, p
  <2>2. /\ e \in Nat \ {0} /\ w > 0 /\ 1 - m \in Int /\ 1 - m <= 0 /\ t - n \in Nat \ {0}
        /\ Assignment # "max_prop" => e <= (1 - m) + (t - n)
    BY <1>1, <1>4, <1>7 DEF Offered
  <2>3. \/ p = <<1 - m, t - n>> /\ e = (1 - m) + (t - n)
        \/ \E k \in Nat \ {0} : p = <<1, k>> /\ 1 + k <= e
    <3> DEFINE a == 1 - m
               b == t - n
               f == att.factor
    <3>1. /\ a \in Int /\ a <= 0 /\ b \in Nat \ {0} /\ f \in (Nat \ {0}) \X Nat
          /\ Assignment # "max_prop" => e <= a + b
          /\ p = schedule_parallelism(e, a, b, f)
      BY <1>4, <2>2 DEF p
    <3> HIDE DEF a, b, f
    <3>2. \/ p = <<a, b>> /\ e = a + b
          \/ \E k \in Nat \ {0} : p = <<1, k>> /\ 1 + k <= e
      <4>1. schedule_parallelism(e, a, b, f) # <<>> /\ e \in Nat \ {0}
        BY <2>1, <2>2, <3>1
      <4>2. LET p_2 == schedule_parallelism(e, a, b, f)
            IN  \/ p_2 = <<a, b>> /\ e = a + b
                \/ \E k \in Nat \ {0} : p_2 = <<1, k>> /\ 1 + k <= e
        BY <3>1, <4>1, UpdateGrant, SMTT(30)
      <4> QED
        BY <3>1, <4>2
    <3> QED
      BY <3>2 DEF a, b
  <2>4. /\ x \in Int /\ y \in Int /\ z \in Int /\ 0 < z /\ z <= e
        /\ z = (IF x > 0 THEN x - m ELSE 0) + (IF y > 0 THEN y - n ELSE 0)
    BY <1>1, <2>2, <2>3, UpdateAmounts
  <2> HIDE DEF x, y, z
  <2>5. Gained(c, Give(x, y, z)) = z
    <3>1. x \in Int /\ y \in Int
      BY <2>4
    <3>2. Gained(c, Give(x, y, z)) = (IF x > 0 THEN x - m ELSE 0) + (IF y > 0 THEN y - n ELSE 0)
      BY <1>3, <3>1, Zenon
    <3> QED
      BY <2>4, <3>2
  <2>6. /\ Give(x, y, z).cost = z
        /\ Give(x, y, z) \in [inter : Int, intra : Int, cost : Int]
    BY <2>4 DEF Give
  <2>7. Paid(Give(x, y, z))
    BY <2>4, <2>5, <2>6
  <2> QED
    BY <2>1, <2>7 DEF e
<1> QED
  BY <1>6, <1>7

\* What a reassignment gives to one container costs what the container gains, and is there.
LEMMA DecisionPaid ==
    ASSUME NEW c \in ExecutionInfo, NEW avail \in Nat, NEW share \in Int, Sound(c),
           Assignment = "max_prop" =>
              share >= 1 /\ (avail > 0 => share <= avail /\ c.intra + share <= MaxPerCont),
           Decision(c, avail, share) # Nothing
    PROVE  LET d == Decision(c, avail, share)
           IN  /\ d.cost = Gained(c, d) /\ 0 <= d.cost /\ d.cost <= avail
               /\ Assignment = "max_prop" => d.cost = share
<1> DEFINE d == Decision(c, avail, share)
<1>0. /\ c.inter \in Nat /\ c.intra \in Nat /\ c.inter_user \in Nat /\ c.intra_user \in Nat
      /\ MaxPerCont \in Nat \ {0}
  BY PolicyAssumption DEF ExecutionInfo
<1>1. c.state = "start" /\ avail > 0 /\ avail \in Nat \ {0}
  BY DEF Decision
<1>2. CASE Assignment = "max_prop"
  <2>1. d = MaxPropDecision(c, share)
    BY <1>1, <1>2 DEF Decision
  <2>2. d = Give(0, c.intra + share, share)
    BY <1>0, <1>1, <1>2, <2>1 DEF MaxPropDecision
  <2>3. Gained(c, d) = share
    BY <1>0, <1>2, <2>2, GainedIs
  <2>4. d.cost = share
    BY <2>2 DEF Give
  <2> HIDE DEF d
  <2> QED
    BY <1>1, <1>2, <2>3, <2>4 DEF d
<1>3. CASE Assignment # "max_prop"
  <2>1. d = StrictDecision(c, avail)
    BY <1>1, <1>3 DEF Decision
  <2>2. c.inter_user - c.inter <= 0 /\ c.intra_user - c.intra <= MaxPerCont
    BY <1>0, <1>3 DEF Sound
  <2>3. Gained(c, d) = d.cost /\ d.cost <= avail
    BY <1>0, <1>1, <2>1, <2>2, StrictPaid
  <2>4. 0 <= d.cost
    <3> DEFINE intra == c.intra_user - c.intra
    <3>1. /\ Required(c.intra_user, c.intra) = intra
          /\ Required(c.inter_user, c.inter) = c.inter_user - c.inter
      BY <1>0, <2>2 DEF Required
    <3>2. \E x : (d = Give(0, x, intra) /\ intra > 0) \/ d = Give(0, x, avail) \/ d = Nothing
      BY <1>0, <2>1, <2>2, <3>1 DEF StrictDecision
    <3> HIDE DEF d
    <3> QED
      BY <1>0, <3>2 DEF Give, Nothing
  <2> HIDE DEF d
  <2> QED
    BY <1>3, <2>3, <2>4 DEF d
<1> QED
  BY <1>2, <1>3

-----------------------------------------------------------------------------
(* How what is allotted changes.                                           *)

LEMMA OrderlyNow ==
    ASSUME NEW l \in Seq(Containers), NEW f \in [Containers -> ExecutionInfo],
           NEW q \in Seq([cores : Nat, id : Containers]), NEW c, MaxFaults = 0,
           \A i \in Containers : IsListed(l, i) => f[i].state # "failed",
           \A t \in Threads : c[t].pc \in {"removeName", "end", "done"} => ~ IsListed(l, t[1]),
           \A k \in 1 .. Len(q) : c[<<q[k].id, 0>>].pc \in {"removeName", "end", "done"},
           \A k, m \in 1 .. Len(q) : q[k].id = q[m].id => k = m
    PROVE  Orderly(l, f, q)
<1>1. /\ DOMAIN q = 1 .. Len(q)
      /\ \A k \in DOMAIN q : q[k] \in [cores : Nat, id : Containers]
  BY SequenceOf
<1>2. \A k \in DOMAIN q : <<q[k].id, 0>> \in Threads
  BY <1>1 DEF Threads
<1>3. \A k \in DOMAIN q : ~ IsListed(l, q[k].id)
  BY <1>1, <1>2
<1> QED
  BY <1>1, <1>3 DEF Orderly

\* The places of the queue that speak of a container.
InEnds(q, i) == \E k \in DOMAIN q : q[k].id = i

\* When the list, the records and the queue change for one container only, so does what is
\* allotted.
LEMMA OneAllotted ==
    ASSUME NEW l, NEW f, NEW q, NEW m, NEW g, NEW s, Orderly(l, f, q), Orderly(m, g, s),
           NEW j \in Containers,
           \A i \in Containers : i # j =>
              /\ IsListed(m, i) <=> IsListed(l, i)
              /\ IsListed(l, i) => Parallelism(g[i]) = Parallelism(f[i])
              /\ InEnds(s, i) <=> InEnds(q, i),
           \A k \in DOMAIN s : s[k].id # j => \E n \in DOMAIN q : q[n] = s[k]
    PROVE  LET a == AllottedOf(l, f, q)
               b == AllottedOf(m, g, s)
           IN  b[j] \in Nat /\ b = [a EXCEPT ![j] = b[j]]
<1> DEFINE a == AllottedOf(l, f, q)
           b == AllottedOf(m, g, s)
<1>1. /\ a \in [Containers -> Nat]
      /\ \A i \in Containers : IsListed(l, i) => a[i] = Parallelism(f[i])
      /\ \A k \in DOMAIN q : a[q[k].id] = q[k].cores
      /\ \A i \in Containers :
            ~ IsListed(l, i) /\ (\A k \in DOMAIN q : q[k].id # i) => a[i] = 0
  BY AllottedIs
<1>2. /\ b \in [Containers -> Nat]
      /\ \A i \in Containers : IsListed(m, i) => b[i] = Parallelism(g[i])
      /\ \A k \in DOMAIN s : b[s[k].id] = s[k].cores
      /\ \A i \in Containers :
            ~ IsListed(m, i) /\ (\A k \in DOMAIN s : s[k].id # i) => b[i] = 0
  BY AllottedIs
<1> HIDE DEF a, b
<1>3. ASSUME NEW i \in Containers, i # j PROVE b[i] = a[i]
  <2>1. CASE IsListed(l, i)
    BY <1>1, <1>2, <1>3, <2>1
  <2>2. CASE ~ IsListed(l, i) /\ InEnds(s, i)
    <3>1. PICK k \in DOMAIN s : s[k].id = i
      BY <2>2 DEF InEnds
    <3>2. PICK n \in DOMAIN q : q[n] = s[k]
      BY <1>3, <3>1
    <3> QED
      BY <1>1, <1>2, <3>1, <3>2
  <2>3. CASE ~ IsListed(l, i) /\ ~ InEnds(s, i)
    <3>1. ~ InEnds(q, i) /\ ~ IsListed(m, i)
      BY <1>3, <2>3
    <3> QED
      BY <1>1, <1>2, <2>3, <3>1 DEF InEnds
  <2> QED
    BY <2>1, <2>2, <2>3
<1> QED
  BY <1>1, <1>2, <1>3 DEF a, b

\* One container is allotted n cores.
Allots(i, n) == /\ i \in Containers /\ Allotted[i] \in Nat /\ n \in Nat
                /\ Allotted' = [Allotted EXCEPT ![i] = n]

LEMMA OrderlyStates ==
    ASSUME Stepping
    PROVE  /\ Orderly(execInfo_list, info, q_finish_container)
           /\ Orderly(execInfo_list', info', q_finish_container')
           /\ Allotted \in [Containers -> Nat] /\ Allotted' \in [Containers -> Nat]
<1>1. MaxFaults = 0 /\ TypeOK /\ TypeOK' /\ Records /\ Records' /\ ThreadEnds /\ ThreadEnds'
  BY Given, After, RecordsStep, ThreadEndsStep DEF Stepping, Settled, IInv
<1>2. Orderly(execInfo_list, info, q_finish_container)
  <2> DEFINE l == execInfo_list
             q == q_finish_container
  <2>1. /\ l \in Seq(Containers) /\ info \in [Containers -> ExecutionInfo]
        /\ q \in Seq([cores : Nat, id : Containers])
    BY <1>1 DEF TypeOK
  <2>2. \A i \in Containers : IsListed(l, i) => info[i].state # "failed"
    BY <1>1, AllottedNow DEF Records, Sound
  <2>3. \A t \in Threads : t[1] \in Containers
    BY DEF Threads
  <2>4. /\ \A t \in Threads : cl[t].pc \in {"removeName", "end", "done"} => ~ IsListed(l, t[1])
        /\ \A k \in 1 .. Len(q) : cl[<<q[k].id, 0>>].pc \in {"removeName", "end", "done"}
        /\ \A k, m \in 1 .. Len(q) : q[k].id = q[m].id => k = m
    BY <1>1, <2>3, AllottedNow DEF ThreadEnds
  <2> HIDE DEF l, q
  <2>5. Orderly(l, info, q)
    BY <1>1, <2>1, <2>2, <2>4, OrderlyNow
  <2> QED
    BY <2>5 DEF l, q
<1>3. Orderly(execInfo_list', info', q_finish_container')
  <2> DEFINE l == execInfo_list'
             f == info'
             q == q_finish_container'
             c == cl'
  <2>1. /\ l \in Seq(Containers) /\ f \in [Containers -> ExecutionInfo]
        /\ q \in Seq([cores : Nat, id : Containers])
    BY <1>1 DEF TypeOK
  <2>2. \A i \in Containers : IsListed(l, i) => f[i].state # "failed"
    BY <1>1, AllottedNow DEF Records, Sound
  <2>3. \A t \in Threads : t[1] \in Containers
    BY DEF Threads
  <2>4. /\ \A t \in Threads : c[t].pc \in {"removeName", "end", "done"} => ~ IsListed(l, t[1])
        /\ \A k \in 1 .. Len(q) : c[<<q[k].id, 0>>].pc \in {"removeName", "end", "done"}
        /\ \A k, m \in 1 .. Len(q) : q[k].id = q[m].id => k = m
    BY <1>1, <2>3, AllottedNow DEF ThreadEnds
  <2> HIDE DEF l, f, q, c
  <2>5. Orderly(l, f, q)
    BY <1>1, <2>1, <2>2, <2>4, OrderlyNow
  <2> QED
    BY <2>5 DEF l, f, q
<1> QED
  BY <1>2, <1>3, AllottedNow, AllottedIs

\* The steps that change the list, the records or the queue.
LEMMA AllottingSteps ==
    ASSUME Stepping
    PROVE  \/ UNCHANGED <<execInfo_list, info, q_finish_container>>
           \/ RegisterStart \/ GiveWrite \/ UpdateWrite \/ FinishRequest
           \/ \E t \in Threads : ClientExit(t)
BY Given, Touches, InfoStep

LEMMA AllottedRegisters ==
    ASSUME Stepping, RegisterStart
    PROVE  Allots(att.request.id, att.give.cost) /\ Allotted[att.request.id] = 0
<1> DEFINE i == att.request.id
           l == execInfo_list
           q == q_finish_container
<1>0. /\ i \in Containers /\ info'[i] \in ExecutionInfo /\ Parallelism(info'[i]) = att.give.cost
      /\ \A j \in Containers : j # i => info'[j] = info[j]
      /\ ThreadEnds /\ MaxFaults = 0 /\ TypeOK /\ <<i, 0>> \in Threads
  BY Registered, Given, After, NoFaults DEF IInv, TypeOK
<1>1. l' = Append(l, i) /\ q' = q /\ l \in Seq(Containers) /\ att.pc = "register"
  BY <1>0 DEF RegisterStart, TypeOK
<1>2. \A j \in Containers : IsListed(l', j) <=> IsListed(l, j) \/ j = i
  <2> HIDE DEF i, l
  <2> QED
    BY <1>1 DEF IsListed
<1>3. ~ IsListed(l, i) /\ ~ InEnds(q, i)
  <2>1. ~ IsListed(l, i)
    BY <1>1, Given, AllottedNow
  <2>2. cl[<<i, 0>>].pc \in {"init", "loop"}
    BY <1>0, <1>1 DEF ThreadEnds
  <2>3. \A k \in DOMAIN q : k \in 1 .. Len(q)
    BY <1>0, EndsTyped
  <2> QED
    BY <1>0, <2>1, <2>2, <2>3 DEF ThreadEnds, InEnds
<1>4. Orderly(l, info, q) /\ Orderly(l', info', q') /\ Allotted \in [Containers -> Nat]
  BY OrderlyStates
<1>5. Allotted = AllottedOf(l, info, q) /\ Allotted' = AllottedOf(l', info', q')
  BY AllottedNow
<1>6. Allotted[i] = 0 /\ Allotted'[i] = att.give.cost
  <2>1. Allotted[i] = 0
    BY <1>0, <1>3, <1>4, <1>5, AllottedIs DEF InEnds
  <2>2. IsListed(l', i)
    BY <1>0, <1>2
  <2>3. AllottedOf(l', info', q')[i] = Parallelism(info'[i])
    BY <1>0, <1>4, <2>2, AllottedIs
  <2> QED
    BY <1>0, <1>5, <2>1, <2>3
<1>7. /\ AllottedOf(l', info', q')[i] \in Nat
      /\ AllottedOf(l', info', q') =
            [AllottedOf(l, info, q) EXCEPT ![i] = AllottedOf(l', info', q')[i]]
  <2> DEFINE m == l'
             g == info'
  <2>1. /\ Orderly(l, info, q) /\ Orderly(m, g, q) /\ i \in Containers
        /\ \A j \in Containers : j # i => /\ IsListed(m, j) <=> IsListed(l, j)
                                          /\ Parallelism(g[j]) = Parallelism(info[j])
    BY <1>0, <1>1, <1>2, <1>4
  <2> HIDE DEF m, g, l, q, i
  <2>2. /\ AllottedOf(m, g, q)[i] \in Nat
        /\ AllottedOf(m, g, q) = [AllottedOf(l, info, q) EXCEPT ![i] = AllottedOf(m, g, q)[i]]
    BY <2>1, OneAllotted
  <2> QED
    BY <1>1, <2>2 DEF m, g
<1> QED
  BY <1>0, <1>4, <1>5, <1>6, <1>7 DEF Allots

\* A record is written of a container that is listed.
LEMMA AllottedGains ==
    ASSUME Stepping, NEW i \in Containers, Listed(i),
           UNCHANGED <<execInfo_list, q_finish_container>>,
           \A j \in Containers : j # i => info'[j] = info[j],
           NEW n \in Int, Parallelism(info'[i]) = Parallelism(info[i]) + n
    PROVE  Allots(i, Allotted[i] + n) /\ Allotted[i] = Parallelism(info[i])
<1> DEFINE l == execInfo_list
           q == q_finish_container
           g == info'
<1>1. Orderly(l, info, q) /\ Orderly(l, g, q) /\ Allotted \in [Containers -> Nat]
  BY OrderlyStates
<1>2. Allotted = AllottedOf(l, info, q) /\ Allotted' = AllottedOf(l, g, q) /\ IsListed(l, i)
  BY AllottedNow
<1>3. AllottedOf(l, info, q)[i] = Parallelism(info[i]) /\ AllottedOf(l, g, q)[i] = Parallelism(g[i])
  BY <1>1, <1>2, AllottedIs
<1>4. \A j \in Containers : j # i => Parallelism(g[j]) = Parallelism(info[j])
  OBVIOUS
<1>5. Parallelism(g[i]) = Parallelism(info[i]) + n
  OBVIOUS
<1> HIDE DEF l, q, g
<1>6. /\ AllottedOf(l, g, q)[i] \in Nat
      /\ AllottedOf(l, g, q) = [AllottedOf(l, info, q) EXCEPT ![i] = AllottedOf(l, g, q)[i]]
  BY <1>1, <1>4, OneAllotted
<1> QED
  BY <1>1, <1>2, <1>3, <1>5, <1>6 DEF Allots

\* The cores of a finished container are freed.
LEMMA AllottedReturns ==
    ASSUME Stepping, FinishRequest
    PROVE  LET h == Head(q_finish_container)
           IN  Allots(h.id, 0) /\ Allotted[h.id] = h.cores
<1> DEFINE l == execInfo_list
           q == q_finish_container
           s == q_finish_container'
           h == Head(q)
<1>1. /\ UNCHANGED <<execInfo_list, info>> /\ s = Tail(q) /\ q # <<>>
      /\ q \in Seq([cores : Nat, id : Containers])
  BY Given DEF FinishRequest, lists, TypeOK
<1>2. Orderly(l, info, q) /\ Orderly(l, info, s) /\ Allotted \in [Containers -> Nat]
  BY <1>1, OrderlyStates
<1>3. Allotted = AllottedOf(l, info, q) /\ Allotted' = AllottedOf(l, info, s)
  BY <1>1, AllottedNow
<1> HIDE DEF q, s, l
<1>4. /\ 1 \in DOMAIN q /\ h = q[1] /\ h.id \in Containers /\ h.cores \in Nat
      /\ \A k \in DOMAIN s : k + 1 \in DOMAIN q /\ k + 1 # 1 /\ s[k] = q[k + 1]
      /\ \A k \in DOMAIN q : k # 1 => k - 1 \in DOMAIN s /\ s[k - 1] = q[k]
  <2> DEFINE E == [cores : Nat, id : Containers]
  <2>1. /\ Len(q) \in Nat /\ DOMAIN q = 1 .. Len(q)
        /\ \A k \in DOMAIN q : q[k] \in E
    BY <1>1, SequenceOf
  <2>2. Len(q) >= 1 /\ h = q[1]
    BY <1>1, <2>1
  <2>3. h \in E
    BY <2>1, <2>2
  <2>4. s \in Seq(E) /\ Len(s) = Len(q) - 1 /\ \A k \in 1 .. Len(s) : s[k] = q[k + 1]
    BY <1>1
  <2>5. DOMAIN s = 1 .. Len(s)
    BY <2>4
  <2>6. \A k \in DOMAIN q : k # 1 => k - 1 \in DOMAIN s /\ s[k - 1] = q[k]
    <3>1. ASSUME NEW k \in DOMAIN q, k # 1 PROVE k - 1 \in DOMAIN s /\ s[k - 1] = q[k]
      <4>1. k \in Nat /\ k - 1 \in 1 .. Len(s) /\ (k - 1) + 1 = k
        BY <2>1, <2>4, <3>1
      <4> QED
        BY <2>4, <2>5, <4>1
    <3> QED
      BY <3>1
  <2>7. \A k \in DOMAIN s : k + 1 \in DOMAIN q /\ k + 1 # 1 /\ s[k] = q[k + 1]
    BY <2>1, <2>4, <2>5
  <2> QED
    BY <2>1, <2>2, <2>3, <2>6, <2>7
<1>5. \A k, m \in DOMAIN q : q[k].id = q[m].id => k = m
  BY <1>2 DEF Orderly
<1>6. \A k \in DOMAIN s : s[k].id # h.id
  BY <1>4, <1>5
<1>7. /\ \A k \in DOMAIN s : \E n \in DOMAIN q : q[n] = s[k]
      /\ \A i \in Containers : i # h.id => (InEnds(s, i) <=> InEnds(q, i))
  BY <1>4 DEF InEnds
<1>8. ~ IsListed(l, h.id)
  BY <1>2, <1>4 DEF Orderly
<1>9. AllottedOf(l, info, q)[h.id] = h.cores /\ AllottedOf(l, info, s)[h.id] = 0
  BY <1>2, <1>4, <1>6, <1>8, AllottedIs
<1> HIDE DEF h
<1>10. AllottedOf(l, info, s) = [AllottedOf(l, info, q) EXCEPT ![h.id] = AllottedOf(l, info, s)[h.id]]
  BY <1>2, <1>4, <1>7, OneAllotted
<1> QED
  BY <1>2, <1>3, <1>4, <1>9, <1>10 DEF Allots, h, q

\* A container that leaves the list keeps its cores in the queue.
LEMMA AllottedLeaves ==
    ASSUME Stepping, NEW t \in Threads, ClientExit(t)
    PROVE  Allotted' = Allotted
<1> DEFINE l == execInfo_list
           q == q_finish_container
           m == execInfo_list'
           s == q_finish_container'
           j == t[1]
           e == [cores |-> Parallelism(info[j]), id |-> j]
<1>0. /\ j \in Containers /\ cl[t].peer = j /\ TypeOK /\ ListedLater /\ ThreadNames(t)
  BY Given, NoFaults
<1>1. /\ UNCHANGED info /\ Listed(j) /\ s = Append(q, e)
      /\ q \in Seq([cores : Nat, id : Containers])
  <2>1. docker[j] = "finished" /\ cl[t].pc = "loop"
    BY <1>0 DEF ClientExit
  <2>2. Listed(j)
    BY <1>0, <2>1 DEF ThreadNames
  <2> QED
    BY <1>0, <2>2 DEF ClientExit, TypeOK
<1>2. /\ \A i \in Containers : i # j => (IsListed(m, i) <=> IsListed(l, i))
      /\ IsListed(l, j)
  <2>1. /\ \A i \in Containers : i # j /\ Listed(i) => Listed(i)'
        /\ \A i \in Containers : Listed(i)' => Listed(i)
    BY <1>0, ExitList
  <2> QED
    BY <1>1, <2>1, AllottedNow
<1>3. Orderly(l, info, q) /\ Orderly(m, info, s) /\ Allotted \in [Containers -> Nat]
  BY <1>1, OrderlyStates
<1>4. Allotted = AllottedOf(l, info, q) /\ Allotted' = AllottedOf(m, info, s)
  BY <1>1, AllottedNow
<1>5. e.id = j /\ e.cores = Parallelism(info[j])
  OBVIOUS
<1> HIDE DEF q, s, l, m, e, j
<1>6. /\ DOMAIN q = 1 .. Len(q) /\ DOMAIN s = 1 .. Len(q) + 1 /\ Len(q) \in Nat
      /\ s[Len(q) + 1] = e /\ \A k \in 1 .. Len(q) : s[k] = q[k]
  <2>1. DOMAIN q = 1 .. Len(q) /\ Len(q) \in Nat
    BY <1>1, SequenceOf
  <2> QED
    BY <1>1, <2>1
<1>7. /\ \A k \in DOMAIN s : s[k].id # j => \E n \in DOMAIN q : q[n] = s[k]
      /\ \A i \in Containers : i # j => (InEnds(s, i) <=> InEnds(q, i))
  <2>1. \A k \in DOMAIN s : k \in DOMAIN q \/ k = Len(q) + 1
    BY <1>6
  <2>2. Len(q) + 1 \in DOMAIN s /\ \A k \in DOMAIN q : k \in DOMAIN s
    BY <1>6
  <2> QED
    BY <1>5, <1>6, <2>1, <2>2 DEF InEnds
<1>8. AllottedOf(l, info, q)[j] = Parallelism(info[j])
  BY <1>0, <1>2, <1>3, AllottedIs
<1>9. AllottedOf(m, info, s)[j] = Parallelism(info[j])
  <2>1. Len(q) + 1 \in DOMAIN s
    BY <1>6
  <2>2. AllottedOf(m, info, s)[s[Len(q) + 1].id] = s[Len(q) + 1].cores
    BY <1>3, <2>1, AllottedIs
  <2> QED
    BY <1>5, <1>6, <2>2
<1>10. AllottedOf(m, info, s) = [AllottedOf(l, info, q) EXCEPT ![j] = AllottedOf(m, info, s)[j]]
  BY <1>0, <1>2, <1>3, <1>7, OneAllotted
<1> QED
  BY <1>0, <1>3, <1>4, <1>8, <1>9, <1>10

-----------------------------------------------------------------------------
(* What is set aside, and for whom.                                        *)

Kept == Sharing' /\ Granting' /\ Exact'

\* Where the attention thread has nothing in its hands.
QuietPcs == {"check", "check2", "towait", "wait", "finish", "join", "reassign", "pend", "new",
             "relock", "occ", "done", "dead"}

LEMMA Seen ==
    ASSUME Stepping
    PROVE  /\ att \in AttentionLocals /\ att.granted \in Int /\ att.avail \in Int
           /\ att.give.cost \in Int /\ att.give.inter \in Int /\ att.give.intra \in Int
           /\ att.idx \in Nat /\ att.share \in Int /\ att.tmp \in Int
           /\ att.request.id \in Containers /\ att.joining \in Containers
           /\ cores_used \in Int /\ Cores \in Nat \ {0} /\ MaxPerCont \in Nat \ {0}
           /\ Allotted \in [Containers -> Nat] /\ Allotted' \in [Containers -> Nat]
           /\ Total(Allotted) \in Nat /\ Total(Allotted') \in Nat
           /\ info \in [Containers -> ExecutionInfo] /\ execInfo_list \in Seq(Containers)
           /\ cpus \in [Containers -> Int] /\ IsFiniteSet(Containers)
           /\ LedgerBounds /\ SystemInfoLock /\ Sharing /\ Granting /\ Exact /\ Records
           /\ RequestsPlain /\ Within
<1>1. /\ TypeOK /\ LedgerBounds /\ SystemInfoLock /\ Sharing /\ Granting /\ Exact /\ Records
      /\ RequestsPlain /\ Within
  BY DEF Stepping, IInv, Settled
<1>2. /\ att \in AttentionLocals /\ att.request \in Request
  BY <1>1, Known
<1>3. Allotted \in [Containers -> Nat] /\ Allotted' \in [Containers -> Nat]
  BY OrderlyStates
<1>4. IsFiniteSet(Containers)
  BY SchedulerAssumption
<1>5. /\ Allotted \in [Containers -> Int] /\ Allotted' \in [Containers -> Int]
  BY <1>3
<1>6. Total(Allotted) \in Nat /\ Total(Allotted') \in Nat
  <2> DEFINE a == Allotted
             b == Allotted'
  <2> HIDE DEF a, b
  <2>1. Total(a) \in Nat /\ Total(b) \in Nat
    BY <1>4, <1>5, UnitsFinite DEF a, b
  <2> QED
    BY <2>1 DEF a, b
<1>7. /\ att.granted \in Int /\ att.avail \in Int
      /\ att.give.cost \in Int /\ att.give.inter \in Int /\ att.give.intra \in Int
      /\ att.idx \in Nat /\ att.share \in Int /\ att.tmp \in Int
      /\ att.joining \in Containers
  BY <1>2 DEF AttentionLocals
<1> QED
  BY <1>1, <1>2, <1>3, <1>4, <1>6, <1>7, RequestFields, CoresAssumption, PolicyAssumption DEF TypeOK

\* The allotment of one container changes.
LEMMA OneChanges ==
    ASSUME NEW a \in [Containers -> Nat], NEW b \in [Containers -> Nat], NEW i \in Containers,
           \A j \in Containers : j # i => b[j] = a[j]
    PROVE  /\ Total(a) \in Nat /\ Total(b) \in Nat
           /\ a[i] <= Total(a) /\ Total(b) = Total(a) - a[i] + b[i]
<1>1. IsFiniteSet(Containers)
  BY SchedulerAssumption
<1> QED
  BY <1>1, TotalChanges

LEMMA Vacuous ==
    ASSUME att'.pc \in QuietPcs \cup {"post"}
    PROVE  Sharing' /\ Granting'
BY DEF QuietPcs, Sharing, Granting

LEMMA QuietReserved ==
    /\ att.pc \in QuietPcs \cup {"take"} => Reserved = 0
    /\ att'.pc \in QuietPcs \cup {"take"} => Reserved' = 0
BY DEF QuietPcs, Reserved

\* What is allotted depends on the list, the records and the queue.
LEMMA SameAllotted ==
    ASSUME UNCHANGED <<execInfo_list, info, q_finish_container>>
    PROVE  Allotted' = Allotted /\ \A i : Listed(i)' <=> Listed(i)
BY AllottedNow

\* The attention thread waits, looks around or ends.
LEMMA KeptQuiet ==
    ASSUME Stepping, att.pc \in QuietPcs \cup {"take"}, att.pc # "dead", att'.pc \in QuietPcs,
           UNCHANGED <<cores_used, execInfo_list, info, q_finish_container>>
    PROVE  Kept
<1>1. Sharing' /\ Granting'
  BY Vacuous
<1>2. Allotted' = Allotted
  BY SameAllotted
<1>3. Reserved = 0 /\ Reserved' = 0
  BY QuietReserved
<1> QED
  BY <1>1, <1>2, <1>3, Seen DEF Kept, Exact

LEMMA KeptWaiting ==
    ASSUME Stepping,
           \/ IsFinishQueues \/ IsFinishRest \/ Wait \/ Wake \/ Join \/ SendFails
           \/ PendingEnd \/ NewEnd \/ Occupation
    PROVE  Kept
<1> USE DEF lists, queues, world
<1>0. att \in AttentionLocals
  BY Seen
<1>1. UNCHANGED <<cores_used, execInfo_list, info, q_finish_container>>
  BY DEF IsFinishQueues, IsFinishRest, Wait, Wake, Join, SendFails, PendingEnd, NewEnd, Occupation
<1>2. CASE SendFails
  <2>1. att'.pc = "dead"
    BY <1>0, <1>2 DEF SendFails, AttentionLocals
  <2> QED
    BY <2>1, Vacuous DEF QuietPcs, Kept, Exact
<1>3. CASE ~ SendFails
  <2>1. att.pc \in {"check", "check2", "towait", "wait", "join", "take", "occ"}
    BY <1>3 DEF IsFinishQueues, IsFinishRest, Wait, Wake, Join, PendingEnd, NewEnd, Occupation
  <2>2. att'.pc \in QuietPcs
    <3>1. CASE IsFinishQueues \/ IsFinishRest \/ Wait \/ Wake \/ Join
      BY <1>0, <3>1 DEF IsFinishQueues, IsFinishRest, Wait, Wake, Join, AttentionLocals, QuietPcs
    <3>2. CASE PendingEnd \/ NewEnd
      BY <1>0, <3>2 DEF PendingEnd, NewEnd, AttentionLocals, QuietPcs
    <3>3. CASE Occupation
      <4>1. AttentionAt("check", att.factor).pc = "check"
        BY DEF AttentionAt
      <4> QED
        BY <1>0, <3>3, <4>1 DEF Occupation, AttentionLocals, QuietPcs
    <3> QED
      BY <1>3, <3>1, <3>2, <3>3
  <2>3. att.pc \in QuietPcs \cup {"take"} /\ att.pc # "dead"
    BY <2>1 DEF QuietPcs
  <2> QED
    BY <1>1, <2>2, <2>3, KeptQuiet
<1> QED
  BY <1>2, <1>3

\* The other threads and the containers change nothing of it.
LEMMA OutsideSame ==
    ASSUME Stepping, Outside
    PROVE  /\ UNCHANGED <<att, cores_used, cpus, info, held>> /\ Allotted' = Allotted
           /\ \A i \in Containers : Listed(i)' => Listed(i)
           /\ "execInfo" \in held => UNCHANGED execInfo_list /\ \A i : Listed(i)' <=> Listed(i)
           /\ \A i \in Containers : Running(i)' => Running(i)
<1> USE DEF lists, queues, world, clients, generator
<1>0. /\ TypeOK /\ OwnPeer /\ ListedLater /\ [Next]_vars
      /\ docker \in [Containers -> DockerStates]
  BY Given
<1>1. /\ UNCHANGED <<att, cores_used, cpus, info, held>>
      /\ UNCHANGED execInfo_list \/ ("execInfo" \notin held /\ \E t \in Threads : ClientExit(t))
      /\ UNCHANGED q_finish_container \/ \E t \in Threads : ClientExit(t)
  BY OutsideStep
<1>2. Allotted' = Allotted
  <2>1. CASE \E t \in Threads : ClientExit(t)
    BY <2>1, AllottedLeaves
  <2>2. CASE ~ \E t \in Threads : ClientExit(t)
    BY <1>1, <2>2, SameAllotted
  <2> QED
    BY <2>1, <2>2
<1>3. "execInfo" \in held => UNCHANGED execInfo_list /\ \A i : Listed(i)' <=> Listed(i)
  BY <1>1 DEF Listed
<1>4. ~ RegisterStart /\ ~ ScheduleLaunch
  <2>1. RegisterStart \/ ScheduleLaunch => att.pc \in {"register", "schedule"}
    BY DEF RegisterStart, ScheduleLaunch
  <2>2. RegisterStart => att'.pc = "registerName"
    BY Seen DEF RegisterStart, AttentionLocals
  <2>3. ScheduleLaunch => att'.pc # "schedule"
    BY Seen DEF ScheduleLaunch, AttentionLocals
  <2>4. RegisterStart => att.pc = "register"
    BY DEF RegisterStart
  <2>5. ScheduleLaunch => att.pc = "schedule"
    BY DEF ScheduleLaunch
  <2> QED
    BY <1>1, <2>2, <2>3, <2>4, <2>5
<1>5. \A i \in Containers : Listed(i)' => Listed(i)
  BY <1>0, <1>4, ListStep
<1>6. \A i \in Containers : Running(i)' => Running(i)
  <2>1. \A i \in Containers : ~ Launched(i)
    BY <1>4 DEF Launched
  <2>2. ASSUME NEW i \in Containers, docker'[i] = "leaving", docker[i] # "leaving"
        PROVE  docker[i] = "finished"
    <3>1. PICK t \in Threads : ClientExit(t) /\ t[1] = i
      BY <1>0, <2>2, DockerStep
    <3>2. cl[t].peer = i
      BY <3>1, Given
    <3> QED
      BY <3>1, <3>2 DEF ClientExit
  <2> QED
    BY <1>0, <2>1, <2>2, DockerStep DEF Running
<1> QED
  BY <1>1, <1>2, <1>3, <1>5, <1>6

LEMMA KeptOutside ==
    ASSUME Stepping, Outside
    PROVE  Kept
<1>1. /\ UNCHANGED <<att, cores_used, cpus, info, held>> /\ Allotted' = Allotted
      /\ \A i \in Containers : Listed(i)' => Listed(i)
      /\ "execInfo" \in held => UNCHANGED execInfo_list /\ \A i : Listed(i)' <=> Listed(i)
  BY OutsideSame
<1>2. Sharing /\ Granting /\ Exact /\ att.request.id \in Containers
  BY Seen
<1>3. Sharing'
  <2>1. CASE "execInfo" \in held
    BY <1>1, <1>2, <2>1 DEF Sharing, Chosen
  <2>2. CASE "execInfo" \notin held
    <3>1. att.pc \notin {"give", "given", "updating"}
      BY <1>2, <2>2 DEF Sharing
    <3> QED
      BY <1>1, <1>2, <3>1 DEF Sharing
  <2> QED
    BY <2>1, <2>2
<1>4. Granting'
  <2>1. att.pc = "updating" => "execInfo" \in held
    BY <1>2 DEF Sharing
  <2> QED
    BY <1>1, <1>2, <2>1 DEF Granting, Wanted
<1>5. Exact'
  BY <1>1, <1>2 DEF Exact, Reserved
<1> QED
  BY <1>3, <1>4, <1>5 DEF Kept

-----------------------------------------------------------------------------
(* Finish requests and reassignment.                                       *)

\* The shares of maxprop_reassigment add up to what there is, or are one core each.
LEMMA SharesThere ==
    ASSUME NEW avail \in Nat, NEW n \in Nat \ {0}
    PROVE  LET s == maxprop_factor(avail, n)
           IN  s \in Nat \ {0} /\ (s = 1 \/ n * s <= avail)
<1>1. avail \div n \in Nat /\ n * (avail \div n) <= avail
  <2>1. avail = n * (avail \div n) + (avail % n) /\ avail % n \in Nat /\ avail \div n \in Nat
    BY SMT
  <2> DEFINE q == avail \div n
             m == avail % n
  <2> HIDE DEF q, m
  <2>2. n * q \in Int
    BY <2>1 DEF q
  <2> QED
    BY <2>1, <2>2 DEF q, m
<1> QED
  BY <1>1, FactorPositive DEF maxprop_factor

\* One share less, of one container less.
LEMMA ShareTaken ==
    ASSUME NEW n \in Nat \ {0}, NEW s \in Nat \ {0}, NEW avail \in Nat, n * s <= avail
    PROVE  s <= avail /\ (n - 1) * s <= avail - s /\ (n - 1) * s <= avail
<1> DEFINE m == n - 1
<1>1. m \in Nat /\ n = m + 1
  OBVIOUS
<1> HIDE DEF m
<1>2. n * s = m * s + s
  BY <1>1
<1>3. m * s \in Nat
  BY <1>1
<1> QED
  BY <1>2, <1>3 DEF m

LEMMA KeptFinishRequest ==
    ASSUME Stepping, FinishRequest
    PROVE  /\ Kept
           /\ LET h == Head(q_finish_container)
              IN  /\ att'.pc = "join" /\ att'.joining = h.id /\ h.id \in Containers
                  /\ Allotted' = [Allotted EXCEPT ![h.id] = 0]
                  /\ Total(Allotted') = Total(Allotted) - Allotted[h.id]
                  /\ Total(Allotted) <= Cores
<1> DEFINE h == Head(q_finish_container)
<1>1. Allots(h.id, 0) /\ Allotted[h.id] = h.cores
  BY AllottedReturns
<1>2. /\ att.pc = "finish" /\ cores_used' = free_resources(cores_used, h.cores)
      /\ att'.pc = "join" /\ att'.joining = h.id
  BY Seen DEF FinishRequest, AttentionLocals
<1> HIDE DEF h
<1>3. /\ h.id \in Containers /\ Allotted' = [Allotted EXCEPT ![h.id] = 0]
      /\ Allotted[h.id] \in Nat /\ Allotted \in [Containers -> Nat]
      /\ IsFiniteSet(Containers)
  BY <1>1, Seen DEF Allots
<1>4. Total(Allotted') = Total(Allotted) - Allotted[h.id] + 0
  <2> DEFINE a == Allotted
             b == Allotted'
  <2>1. /\ a \in [Containers -> Nat] /\ b \in [Containers -> Nat] /\ b[h.id] = 0
        /\ \A i \in Containers : i # h.id => b[i] = a[i]
    BY <1>3, Seen
  <2> HIDE DEF a, b
  <2>2. Total(b) = Total(a) - a[h.id] + b[h.id]
    BY <1>3, <2>1, OneChanges
  <2> QED
    BY <2>1, <2>2 DEF a, b
<1>5. Reserved = 0 /\ Reserved' = 0 /\ att'.pc \in QuietPcs
  BY <1>2, QuietReserved DEF QuietPcs
<1>6. cores_used = Total(Allotted) /\ cores_used <= Cores
  BY <1>2, <1>5, Seen DEF Exact, LedgerBounds
<1>7. Exact'
  <2> DEFINE t == Total(Allotted)
             u == Total(Allotted')
             n == h.cores
  <2>1. n \in Nat /\ t \in Nat /\ u \in Nat /\ u = t - n + 0 /\ cores_used = t
    BY <1>1, <1>3, <1>4, <1>6, Seen
  <2>2. cores_used' = cores_used - n
    BY <1>2 DEF free_resources
  <2> HIDE DEF t, u, n
  <2>3. cores_used' = u + 0
    BY <2>1, <2>2
  <2> QED
    BY <1>5, <2>3 DEF Exact, u
<1>8. Kept
  BY <1>5, <1>7, Vacuous DEF Kept
<1>9. Total(Allotted') = Total(Allotted) - Allotted[h.id] /\ Total(Allotted) <= Cores
  BY <1>3, <1>4, <1>6, Seen, SMTT(30)
<1> QED
  BY <1>2, <1>3, <1>8, <1>9 DEF h

LEMMA KeptReassign ==
    ASSUME Stepping, Reassign
    PROVE  Kept
<1> DEFINE avail == check_resources(cores_used)
<1>0. /\ att \in AttentionLocals /\ cores_used \in Int /\ Cores \in Nat
      /\ Total(Allotted) \in Nat /\ Exact
  BY Seen
<1>1. /\ UNCHANGED <<execInfo_list, info, q_finish_container>> /\ att.pc = "reassign"
      /\ \/ /\ avail > 0 /\ cores_used' = apply_resources(cores_used, avail)
            /\ att'.avail = avail /\ att'.pc \in {"giveback", "lockList"}
         \/ ~ (avail > 0) /\ att'.pc = att.after /\ UNCHANGED cores_used
  <2>1. UNCHANGED <<execInfo_list, info, q_finish_container>> /\ att.pc = "reassign"
    BY DEF Reassign, lists
  <2>2. CASE avail > 0
    <3>1. /\ cores_used' = apply_resources(cores_used, avail)
          /\ att' = [att EXCEPT !.avail = avail,
                                !.pc = IF Assignment = "max_prop" /\ execInfo_list = <<>>
                                       THEN "giveback" ELSE "lockList"]
      BY <2>2 DEF Reassign
    <3> HIDE DEF avail
    <3>2. att'.avail = avail /\ att'.pc \in {"giveback", "lockList"}
      BY <1>0, <3>1 DEF AttentionLocals
    <3> QED
      BY <2>1, <2>2, <3>1, <3>2
  <2>3. CASE ~ (avail > 0)
    <3>1. att' = [att EXCEPT !.pc = att.after] /\ UNCHANGED cores_used
      BY <2>3 DEF Reassign
    <3>2. att'.pc = att.after
      BY <1>0, <3>1 DEF AttentionLocals
    <3> QED
      BY <2>1, <2>3, <3>1, <3>2
  <2> QED
    BY <2>1, <2>2, <2>3
<1>2. CASE avail > 0
  <2>1. Allotted' = Allotted /\ Reserved = 0
    BY <1>1, SameAllotted, QuietReserved DEF QuietPcs
  <2>2. cores_used' = cores_used + avail /\ Reserved' = avail
    BY <1>0, <1>1, <1>2 DEF check_resources, apply_resources, Reserved
  <2>3. avail \in Int
    BY <1>0 DEF check_resources
  <2> HIDE DEF avail
  <2>4. Exact'
    BY <1>0, <1>1, <2>1, <2>2, <2>3 DEF Exact
  <2>5. Sharing' /\ Granting'
    BY <1>1, <1>2, <2>3 DEF Sharing, Granting
  <2> QED
    BY <2>4, <2>5 DEF Kept
<1>3. CASE ~ (avail > 0)
  <2>1. att.after \in {"pend", "occ"}
    BY <1>0 DEF AttentionLocals
  <2> QED
    BY <1>1, <1>3, <2>1, KeptQuiet DEF QuietPcs
<1> QED
  BY <1>2, <1>3

LEMMA KeptLockList ==
    ASSUME Stepping, LockList
    PROVE  Kept
<1>0. /\ att \in AttentionLocals /\ Sharing /\ Exact /\ att.avail \in Int
      /\ execInfo_list \in Seq(Containers)
  BY Seen
<1>1. /\ UNCHANGED <<execInfo_list, info, q_finish_container, cores_used>> /\ att.pc = "lockList"
      /\ held' = held \cup {"execInfo"}
  BY DEF LockList, lists
<1>2. att.avail \in Nat \ {0}
  BY <1>0, <1>1 DEF Sharing
<1>3. CASE Assignment = "max_prop" /\ execInfo_list = <<>>
  <2>1. att'.pc = "dead"
    BY <1>0, <1>3 DEF LockList, AttentionLocals
  <2> QED
    BY <2>1, Vacuous DEF QuietPcs, Kept, Exact
<1>4. CASE ~ (Assignment = "max_prop" /\ execInfo_list = <<>>)
  <2> DEFINE n == Len(execInfo_list)
  <2>1. /\ att'.pc = "give" /\ att'.avail = att.avail
        /\ att'.idx = (IF SkipsEverybody THEN n + 1 ELSE 1)
        /\ att'.share = IF Assignment = "max_prop" THEN maxprop_factor(att.avail, n) ELSE 0
    BY <1>0, <1>4 DEF LockList, AttentionLocals
  <2>2. n \in Nat /\ (n = 0 <=> execInfo_list = <<>>) /\ Len(execInfo_list') = n
    BY <1>0, <1>1
  <2> HIDE DEF n
  <2>3. ASSUME Assignment = "max_prop"
        PROVE  /\ att'.idx >= 1 /\ att'.idx <= n + 1 /\ att'.share >= 1
               /\ att'.share = 1 \/ (n + 1 - att'.idx) * att'.share <= att.avail
    <3> DEFINE s == maxprop_factor(att.avail, n)
    <3>1. s \in Nat \ {0} /\ (s = 1 \/ n * s <= att.avail)
      BY <1>2, <1>4, <2>2, <2>3, SharesThere
    <3>2. att'.share = s /\ att'.idx \in {1, n + 1}
      BY <2>1, <2>3
    <3> HIDE DEF s
    <3>3. (n + 1) - 1 = n /\ (n + 1) - (n + 1) = 0 /\ 0 * s = 0
      BY <2>2, <3>1
    <3>4. att'.share = 1 \/ (n + 1 - att'.idx) * att'.share <= att.avail
      <4> DEFINE k == n + 1 - att'.idx
      <4>1. k = n \/ k = 0
        BY <2>2, <3>2
      <4> HIDE DEF k
      <4>2. s = 1 \/ k * s <= att.avail
        BY <1>2, <3>1, <3>3, <4>1
      <4> QED
        BY <3>2, <4>2 DEF k
    <3> QED
      BY <2>2, <3>1, <3>2, <3>4
  <2>4. Sharing'
    BY <1>1, <1>2, <2>1, <2>2, <2>3 DEF Sharing
  <2>5. Granting'
    BY <2>1 DEF Granting
  <2>6. Reserved = att.avail /\ Reserved' = att.avail
    BY <1>1, <2>1 DEF Reserved
  <2>7. Exact'
    BY <1>0, <1>1, <2>1, <2>6, SameAllotted DEF Exact
  <2> QED
    BY <2>4, <2>5, <2>7 DEF Kept
<1> QED
  BY <1>3, <1>4

\* A container that is listed is allotted what its record says, which is in use.
LEMMA ListedAllotted ==
    ASSUME Stepping, NEW i \in Containers, Listed(i)
    PROVE  /\ Allotted[i] = Parallelism(info[i]) /\ Allotted[i] \in Nat
           /\ Allotted[i] <= Total(Allotted) /\ Sound(info[i])
<1> DEFINE a == Allotted
<1>1. a \in [Containers -> Nat] /\ Sound(info[i])
  BY Seen DEF Records
<1>2. a[i] = Parallelism(info[i])
  BY OrderlyStates, AllottedNow, AllottedIs
<1> HIDE DEF a
<1>3. a[i] <= Total(a)
  BY <1>1, OneChanges
<1> QED
  BY <1>1, <1>2, <1>3 DEF a

\* Where the loop over the list stands.
LEMMA AtChosen ==
    ASSUME Stepping, att.idx \in DOMAIN execInfo_list
    PROVE  /\ Chosen \in Containers /\ Listed(Chosen) /\ Len(execInfo_list) \in Nat
           /\ 1 <= att.idx /\ att.idx <= Len(execInfo_list)
<1> DEFINE l == execInfo_list
<1>1. l \in Seq(Containers)
  BY Seen
<1> HIDE DEF l
<1>2. Len(l) \in Nat /\ DOMAIN l = 1 .. Len(l) /\ \A k \in DOMAIN l : l[k] \in Containers
  BY <1>1, SequenceOf
<1>3. att.idx \in DOMAIN l
  BY DEF l
<1>4. l[att.idx] \in Containers /\ 1 <= att.idx /\ att.idx <= Len(l) /\ IsListed(l, l[att.idx])
  BY <1>2, <1>3 DEF IsListed
<1> QED
  BY <1>2, <1>4, AllottedNow DEF l, Chosen

LEMMA KeptGiveNext ==
    ASSUME Stepping, GiveNext
    PROVE  /\ Kept
           /\ att'.pc \in {"give", "given"} /\ Allotted' = Allotted /\ UNCHANGED docker
           /\ att'.pc = "give" => UNCHANGED cpus
           /\ att'.pc = "given" =>
                 /\ att'.idx = att.idx
                 /\ DockerUpdate(Chosen, new_parallelism(info[Chosen], att'.give.inter,
                                                         att'.give.intra))
<1> DEFINE i == Chosen
           c == info[i]
           d == Decision(c, att.avail, att.share)
           n == Len(execInfo_list)
<1>0. /\ att \in AttentionLocals /\ Sharing /\ Exact /\ att.avail \in Int /\ att.share \in Int
      /\ att.idx \in Nat /\ cores_used \in Int /\ Cores \in Nat /\ MaxPerCont \in Nat
      /\ info \in [Containers -> ExecutionInfo] /\ cores_used <= Cores
      /\ Total(Allotted) \in Nat
  BY Seen DEF LedgerBounds
<1>1. /\ UNCHANGED <<execInfo_list, info, q_finish_container, cores_used, held, docker>>
      /\ att.pc = "give" /\ att.idx \in DOMAIN execInfo_list
  BY DEF GiveNext, lists
<1>2. i \in Containers /\ Listed(i) /\ n \in Nat /\ 1 <= att.idx /\ att.idx <= n
  BY <1>1, AtChosen
<1>3. IF d = Nothing
      THEN att' = [att EXCEPT !.idx = @ + 1] /\ UNCHANGED cpus
      ELSE /\ att' = [att EXCEPT !.pc = "given", !.give = d]
           /\ DockerUpdate(i, new_parallelism(c, d.inter, d.intra))
  BY DEF GiveNext, Chosen
<1>4. /\ "execInfo" \in held /\ att.avail \in Nat
      /\ Assignment = "max_prop" =>
            /\ att.idx <= n + 1 /\ att.share >= 1
            /\ att.share = 1 \/ (n + 1 - att.idx) * att.share <= att.avail
  BY <1>0, <1>1 DEF Sharing
<1>5. Allotted' = Allotted /\ (\A j : Listed(j)' <=> Listed(j)) /\ Chosen' = execInfo_list[att'.idx]
  BY <1>1, SameAllotted DEF Chosen
<1>6. ASSUME Assignment = "max_prop"
      PROVE  /\ att.share \in Nat \ {0} /\ n + 1 - att.idx \in Nat \ {0}
             /\ (n + 1 - att.idx) - 1 = n + 1 - (att.idx + 1)
  <2> HIDE DEF n, i
  <2> QED
    BY <1>0, <1>2, <1>4, <1>6
<1>7. CASE d = Nothing
  <2>1. /\ att'.pc = "give" /\ att'.idx = att.idx + 1 /\ att'.avail = att.avail
        /\ att'.share = att.share /\ UNCHANGED cpus
    BY <1>0, <1>1, <1>3, <1>7 DEF AttentionLocals
  <2>2. ASSUME Assignment = "max_prop", att.share # 1
        PROVE  (n + 1 - (att.idx + 1)) * att.share <= att.avail
    <3> DEFINE m == n + 1 - att.idx
    <3>1. m \in Nat \ {0} /\ m - 1 = n + 1 - (att.idx + 1) /\ m * att.share <= att.avail
      BY <1>4, <1>6, <2>2
    <3> HIDE DEF m
    <3>2. (m - 1) * att.share <= att.avail
      BY <1>4, <1>6, <2>2, <3>1, ShareTaken
    <3> QED
      BY <3>1, <3>2
  <2>3. Sharing'
    BY <1>0, <1>1, <1>2, <1>4, <2>1, <2>2 DEF Sharing
  <2>4. Granting' /\ Reserved = att.avail /\ Reserved' = att.avail
    BY <1>1, <2>1 DEF Granting, Reserved
  <2>5. Exact'
    BY <1>0, <1>1, <1>5, <2>1, <2>4 DEF Exact
  <2> QED
    BY <1>1, <1>5, <2>1, <2>3, <2>4, <2>5 DEF Kept
<1>8. CASE d # Nothing
  <2>1. c \in ExecutionInfo /\ Sound(c) /\ Parallelism(c) <= Total(Allotted)
    BY <1>0, <1>2, ListedAllotted
  <2>2. Reserved = att.avail /\ cores_used = Total(Allotted) + att.avail
    BY <1>0, <1>1 DEF Exact, Reserved
  <2>3. ASSUME Assignment = "max_prop", att.avail > 0
        PROVE  att.share <= att.avail /\ c.intra + att.share <= MaxPerCont
    <3>1. att.share <= att.avail
      <4> DEFINE m == n + 1 - att.idx
      <4>1. m \in Nat \ {0} /\ (att.share = 1 \/ m * att.share <= att.avail)
        BY <1>4, <1>6, <2>3
      <4>2. att.share \in Nat \ {0} /\ att.avail \in Nat /\ att.avail > 0
        BY <1>4, <1>6, <2>3
      <4> HIDE DEF m
      <4>3. CASE att.share = 1
        BY <4>2, <4>3
      <4>4. CASE m * att.share <= att.avail
        BY <4>1, <4>2, <4>4, ShareTaken
      <4> QED
        BY <4>1, <4>3, <4>4
    <3>2. Cores <= MaxPerCont
      BY <2>3 DEF Stepping, Faultless, Uncapped
    <3>3. c.inter \in Nat /\ c.intra \in Nat /\ Parallelism(c) = c.inter + c.intra
      BY <2>1 DEF ExecutionInfo, Parallelism
    <3> DEFINE m == c.intra
               t == Total(Allotted)
    <3>4. m \in Nat /\ t \in Nat /\ m <= t /\ cores_used = t + att.avail
      <4> DEFINE k == c.inter
      <4>1. k \in Nat /\ m \in Nat /\ k + m <= t /\ t \in Nat
        BY <1>0, <2>1, <3>3
      <4> HIDE DEF k, m, t
      <4>2. m <= t
        BY <4>1
      <4> QED
        BY <2>2, <4>1, <4>2 DEF t
    <3> HIDE DEF m, t
    <3>5. m + att.share <= MaxPerCont
      <4>1. /\ att.share \in Int /\ att.avail \in Int /\ Cores \in Int /\ MaxPerCont \in Int
            /\ att.share <= att.avail /\ t + att.avail <= Cores /\ Cores <= MaxPerCont
        BY <1>0, <3>1, <3>2, <3>4
      <4> QED
        BY <3>4, <4>1
    <3> QED
      BY <3>1, <3>5 DEF m
  <2>5. /\ d.cost = Gained(c, d) /\ 0 <= d.cost /\ d.cost <= att.avail
        /\ Assignment = "max_prop" => d.cost = att.share
    BY <1>0, <1>4, <1>6, <1>8, <2>1, <2>3, DecisionPaid
  <2> HIDE DEF d, c
  <2>6. /\ att'.pc = "given" /\ att'.give = d /\ att'.idx = att.idx /\ att'.avail = att.avail
        /\ att'.share = att.share /\ DockerUpdate(i, new_parallelism(c, d.inter, d.intra))
    BY <1>0, <1>3, <1>8 DEF AttentionLocals
  <2>7. Chosen' = Chosen /\ info' = info /\ held' = held
    BY <1>1, <1>5, <2>6 DEF Chosen
  <2>8. Sharing'
    BY <1>0, <1>1, <1>2, <1>4, <2>5, <2>6, <2>7 DEF Sharing, c
  <2>9. Granting' /\ Reserved' = att.avail
    BY <2>6 DEF Granting, Reserved
  <2>10. Exact'
    BY <1>0, <1>1, <1>5, <2>2, <2>6, <2>9 DEF Exact
  <2> QED
    BY <1>1, <1>5, <2>6, <2>8, <2>9, <2>10 DEF Kept, c
<1> QED
  BY <1>7, <1>8

\* What is written to a record, and what docker is told.
LEMMA WriteGains ==
    ASSUME NEW c \in ExecutionInfo, NEW d, d.inter \in Int, d.intra \in Int
    PROVE  LET u == update_parallelism(c, d.inter, d.intra)
           IN  /\ Gained(c, d) \in Int /\ Parallelism(u) = Parallelism(c) + Gained(c, d)
               /\ Parallelism([u EXCEPT !.state = "update"]) = Parallelism(c) + Gained(c, d)
               /\ new_parallelism(c, d.inter, d.intra) <= Parallelism(c) + Gained(c, d)
<1> DEFINE u == update_parallelism(c, d.inter, d.intra)
<1>1. /\ Parallelism(c) \in Nat /\ Parallelism(u) \in Nat
      /\ new_parallelism(c, d.inter, d.intra) <= Parallelism(u)
      /\ Parallelism([u EXCEPT !.state = "update"]) = Parallelism(u)
  BY Gains
<1>2. Gained(c, d) = Parallelism(u) - Parallelism(c)
  BY DEF Gained
<1> HIDE DEF u
<1>3. Gained(c, d) \in Int /\ Parallelism(u) = Parallelism(c) + Gained(c, d)
  BY <1>1, <1>2
<1> QED
  BY <1>1, <1>3 DEF u

\* A container gets what is set aside for it.
LEMMA GivenOne ==
    ASSUME Stepping, NEW i, NEW n \in Int, Allots(i, Allotted[i] + n)
    PROVE  /\ i \in Containers /\ Allotted[i] \in Nat
           /\ Allotted'[i] = Allotted[i] + n
           /\ \A j \in Containers : j # i => Allotted'[j] = Allotted[j]
           /\ Total(Allotted') = Total(Allotted) + n
<1> DEFINE a == Allotted
           b == Allotted'
<1>1. /\ a \in [Containers -> Nat] /\ b \in [Containers -> Nat] /\ i \in Containers
      /\ b = [a EXCEPT ![i] = a[i] + n]
  BY Seen DEF Allots
<1> HIDE DEF a, b
<1>2. b[i] = a[i] + n /\ \A j \in Containers : j # i => b[j] = a[j]
  BY <1>1
<1>3. Total(a) \in Nat /\ a[i] \in Nat /\ Total(b) = Total(a) - a[i] + b[i]
  BY <1>1, <1>2, OneChanges
<1>4. Total(b) = Total(a) + n
  BY <1>2, <1>3
<1> QED
  BY <1>1, <1>2, <1>3, <1>4 DEF a, b

LEMMA KeptGiveWrite ==
    ASSUME Stepping, GiveWrite
    PROVE  /\ Kept /\ Allots(Chosen, Allotted[Chosen] + att.give.cost)
           /\ att'.pc = "give" /\ UNCHANGED <<cpus, docker>>
<1> DEFINE i == Chosen
           n == Len(execInfo_list)
           cost == att.give.cost
<1>0. /\ att \in AttentionLocals /\ Sharing /\ Exact /\ att.avail \in Int /\ att.share \in Int
      /\ att.idx \in Nat /\ cores_used \in Int /\ cost \in Int
      /\ att.give.inter \in Int /\ att.give.intra \in Int
      /\ info \in [Containers -> ExecutionInfo] /\ Total(Allotted) \in Nat
  BY Seen
<1>1. /\ UNCHANGED <<execInfo_list, q_finish_container, cores_used, held, cpus, docker>>
      /\ att.pc = "given" /\ att.idx \in DOMAIN execInfo_list
  BY DEF GiveWrite, world
<1>2. i \in Containers /\ Listed(i) /\ n \in Nat /\ 1 <= att.idx /\ att.idx <= n
  BY <1>1, AtChosen
<1>3. /\ "execInfo" \in held /\ cost = Gained(info[i], att.give) /\ 0 <= cost /\ cost <= att.avail
      /\ Assignment = "max_prop" =>
            /\ att.share >= 1 /\ cost = att.share
            /\ att.share = 1 \/ (n + 1 - att.idx) * att.share <= att.avail
  BY <1>0, <1>1 DEF Sharing
<1>4. Allots(i, Allotted[i] + cost)
  <2> DEFINE c == info[i]
             u == update_parallelism(c, att.give.inter, att.give.intra)
  <2>1. info' = [info EXCEPT ![i] = IF Assignment = "max_prop"
                                    THEN [u EXCEPT !.state = "update"] ELSE u]
    BY DEF GiveWrite, Chosen
  <2>2. c \in ExecutionInfo
    BY <1>0, <1>2
  <2> HIDE DEF c
  <2>3. /\ Parallelism(u) = Parallelism(c) + cost
        /\ Parallelism([u EXCEPT !.state = "update"]) = Parallelism(c) + cost
    BY <1>0, <1>3, <2>2, WriteGains DEF c
  <2> HIDE DEF u
  <2>4. /\ Parallelism(info'[i]) = Parallelism(info[i]) + cost
        /\ \A j \in Containers : j # i => info'[j] = info[j]
    BY <1>0, <1>2, <2>1, <2>3 DEF c
  <2> HIDE DEF i, cost
  <2> QED
    BY <1>0, <1>1, <1>2, <2>4, AllottedGains
<1> HIDE DEF i, cost
<1>5. Total(Allotted') = Total(Allotted) + cost
  BY <1>0, <1>4, GivenOne
<1>6. /\ att'.pc = "give" /\ att'.idx = att.idx + 1 /\ att'.avail = att.avail - cost
      /\ att'.share = att.share
  BY <1>0 DEF GiveWrite, AttentionLocals, cost
<1>7. att'.avail \in Nat
  BY <1>0, <1>3, <1>6
<1>8. ASSUME Assignment = "max_prop", att.share # 1
      PROVE  (n + 1 - (att.idx + 1)) * att.share <= att.avail - cost
  <2> DEFINE m == n + 1 - att.idx
  <2> HIDE DEF n
  <2>1. /\ m \in Nat \ {0} /\ m - 1 = n + 1 - (att.idx + 1)
        /\ att.share \in Nat \ {0} /\ att.avail \in Nat /\ m * att.share <= att.avail
    BY <1>0, <1>2, <1>3, <1>8
  <2> HIDE DEF m
  <2>2. (m - 1) * att.share <= att.avail - att.share
    BY <2>1, ShareTaken
  <2> QED
    BY <1>3, <1>8, <2>1, <2>2
<1>9. Sharing'
  <2>1. n' = n /\ "execInfo" \in held' /\ att'.avail >= 0
    BY <1>1, <1>3, <1>7
  <2> HIDE DEF n
  <2>2. att'.idx >= 1 /\ att'.idx <= n + 1
    BY <1>0, <1>2, <1>6
  <2>3. ASSUME Assignment = "max_prop"
        PROVE  att'.share >= 1 /\ (att'.share = 1 \/ (n + 1 - att'.idx) * att'.share <= att'.avail)
    BY <1>3, <1>6, <1>8, <2>3
  <2> QED
    BY <1>6, <2>1, <2>2, <2>3 DEF Sharing, n
<1>10. Granting' /\ Reserved = att.avail /\ Reserved' = att.avail - cost
  BY <1>1, <1>6 DEF Granting, Reserved
<1>11. Exact'
  BY <1>0, <1>1, <1>5, <1>6, <1>10 DEF Exact
<1> QED
  BY <1>1, <1>4, <1>6, <1>9, <1>10, <1>11 DEF Kept, i, cost

LEMMA KeptGiveEnd ==
    ASSUME Stepping, GiveEnd
    PROVE  Kept
<1>0. att \in AttentionLocals /\ Sharing /\ Exact /\ att.avail \in Int
  BY Seen
<1>1. /\ UNCHANGED <<execInfo_list, info, q_finish_container, cores_used>> /\ att.pc = "give"
      /\ att' = [att EXCEPT !.pc = IF att.avail > 0 THEN "giveback" ELSE att.after]
  BY DEF GiveEnd, lists
<1>2. att'.pc = (IF att.avail > 0 THEN "giveback" ELSE att.after) /\ att'.avail = att.avail
  BY <1>0, <1>1 DEF AttentionLocals
<1>3. att.avail >= 0 /\ Reserved = att.avail /\ att.after \in {"pend", "occ"}
  BY <1>0, <1>1 DEF Sharing, Reserved, AttentionLocals
<1>4. Reserved' = att.avail
  BY <1>0, <1>2, <1>3 DEF Reserved
<1>5. Exact'
  BY <1>0, <1>1, <1>3, <1>4, SameAllotted DEF Exact
<1>6. Sharing' /\ Granting'
  BY <1>0, <1>2, <1>3 DEF Sharing, Granting
<1> QED
  BY <1>5, <1>6 DEF Kept

LEMMA KeptGiveBack ==
    ASSUME Stepping, GiveBack
    PROVE  Kept
<1>0. /\ att \in AttentionLocals /\ Exact /\ att.avail \in Int /\ cores_used \in Int
      /\ Total(Allotted) \in Nat
  BY Seen
<1>1. /\ UNCHANGED <<execInfo_list, info, q_finish_container>> /\ att.pc = "giveback"
      /\ cores_used' = cores_used - att.avail /\ att'.pc \in {"pend", "occ"}
  BY <1>0 DEF GiveBack, lists, free_resources, AttentionLocals
<1>2. Reserved = att.avail /\ Reserved' = 0
  BY <1>1 DEF Reserved
<1>3. Exact'
  BY <1>0, <1>1, <1>2, SameAllotted DEF Exact
<1> QED
  BY <1>1, <1>3, Vacuous DEF Kept, QuietPcs

-----------------------------------------------------------------------------
(* Requests: what is reserved for them.                                    *)

\* The attention thread looks at the next request, with nothing in its hands.
LEMMA KeptLooks ==
    ASSUME Stepping, att.pc \in QuietPcs \cup {"take"}, att.pc # "dead", att'.pc = "take",
           att'.avail = check_resources(cores_used),
           UNCHANGED <<cores_used, execInfo_list, info, q_finish_container>>
    PROVE  Kept
<1>1. Sharing' /\ Granting'
  BY DEF Sharing, Granting
<1>2. Allotted' = Allotted
  BY SameAllotted
<1>3. Reserved = 0 /\ Reserved' = 0
  BY QuietReserved
<1> QED
  BY <1>1, <1>2, <1>3, Seen DEF Kept, Exact

LEMMA KeptPending ==
    ASSUME Stepping, Pending \/ New \/ Relock
    PROVE  Kept
<1> DEFINE avail == check_resources(cores_used)
<1>0. att \in AttentionLocals
  BY Seen
<1>1. UNCHANGED <<cores_used, execInfo_list, info, q_finish_container>>
  BY DEF Pending, New, Relock, lists
<1>2. att.pc \in QuietPcs \cup {"take"} /\ att.pc # "dead"
  <2>1. att.pc \in {"pend", "new", "relock"}
    BY DEF Pending, New, Relock
  <2> QED
    BY <2>1 DEF QuietPcs
<1>3. att'.pc \in QuietPcs \/ (att'.pc = "take" /\ att'.avail = avail)
  <2>1. CASE Pending
    <3> DEFINE f == IF Assignment = "max_prop" THEN calculate_factor_prop(avail) ELSE att.factor
    <3>1. CASE Assignment = "max_prop" /\ avail > 0 /\ FactorRaises
      <4>1. att' = [att EXCEPT !.pc = "dead"]
        BY <2>1, <3>1 DEF Pending
      <4> QED
        BY <1>0, <4>1 DEF AttentionLocals, QuietPcs
    <3>2. CASE ~ (Assignment = "max_prop" /\ avail > 0 /\ FactorRaises) /\ avail > 0
      <4>1. att' = [att EXCEPT !.pc = "take", !.phase = "pending", !.avail = avail, !.factor = f]
        BY <2>1, <3>2 DEF Pending
      <4> HIDE DEF avail, f
      <4> QED
        BY <1>0, <4>1 DEF AttentionLocals
    <3>3. CASE ~ (avail > 0)
      <4>1. att' = [att EXCEPT !.pc = "new"]
        BY <2>1, <3>3 DEF Pending
      <4> QED
        BY <1>0, <4>1 DEF AttentionLocals, QuietPcs
    <3> QED
      BY <3>1, <3>2, <3>3
  <2>2. CASE New
    <3>1. \/ att' = [att EXCEPT !.pc = "take", !.phase = "new", !.avail = avail]
          \/ att' = [att EXCEPT !.pc = "reassign", !.after = "occ"]
      BY <2>2 DEF New
    <3> HIDE DEF avail
    <3> QED
      BY <1>0, <3>1 DEF AttentionLocals, QuietPcs
  <2>3. CASE Relock
    <3>1. att' = [att EXCEPT !.pc = "take", !.avail = avail,
                             !.request = NoRequest, !.granted = 0, !.give = Nothing, !.ok = FALSE]
      BY <2>3 DEF Relock
    <3> HIDE DEF avail
    <3> QED
      BY <1>0, <3>1 DEF AttentionLocals
  <2> QED
    BY <2>1, <2>2, <2>3
<1> QED
  BY <1>1, <1>2, <1>3, KeptQuiet, KeptLooks

\* What schedule_resources returns for what is asked and what there is.
LEMMA ScheduleResources ==
    ASSUME NEW r, NEW avail \in Nat, Requested(r) \in Int
    PROVE  LET g == schedule_resources(r, avail)
           IN  /\ g \in Int /\ g <= avail
               /\ Requested(r) > 0 => g >= 0
               /\ Requested(r) <= 0 => g = Requested(r)
               /\ Assignment # "max_prop" => g <= Requested(r)
<1> DEFINE n == Requested(r)
           g == schedule_resources(r, avail)
<1>1. g = IF n > 0 /\ (n > avail \/ Assignment = "max_prop") THEN avail ELSE n
  BY DEF schedule_resources
<1> HIDE DEF n, g
<1>2. n \in Int
  BY DEF n
<1> QED
  BY <1>1, <1>2 DEF n, g

\* What an update asks for, of a container that can be given cores.
LEMMA RequestedWhat ==
    ASSUME NEW r, r.kind # "Restart", Requested(r) # 0
    PROVE  IF r.kind = "Start" THEN Requested(r) = r.inter + r.intra
           ELSE Listed(r.id) /\ Requested(r) = Wanted(r)
BY DEF Requested, Wanted

LEMMA KeptTakeRequest ==
    ASSUME Stepping, TakeRequest
    PROVE  /\ Kept /\ att.pc = "take" /\ att'.pc # "dead" /\ Allotted' = Allotted
           /\ cores_used' \in 0 .. Cores
           /\ \E i \in Containers : cores_used' >= cores_used - Allotted[i]
<1>0. /\ att \in AttentionLocals /\ Exact /\ Granting /\ cores_used \in Int /\ Cores \in Nat
      /\ cores_used <= Cores /\ Total(Allotted) \in Nat /\ TypeOK /\ RequestsPlain
      /\ queue_array \in [QueueIds -> Seq(Request)]
      /\ queue_pending_array \in [QueueIds -> Seq(Request)]
  BY Seen, Given DEF LedgerBounds, TypeOK
<1>1. att.pc = "take" /\ UNCHANGED <<execInfo_list, info, q_finish_container>>
  BY DEF TakeRequest, lists
<1>2. PICK p \in QueueIds : \E q, r, granted : Taken(q, p, r, granted)
  BY TakenWhat
<1>3. PICK q, r, g : Taken(q, p, r, g)
  BY <1>2
<1>4. r \in Request /\ Plain(r)
  <2>1. q \in [QueueIds -> Seq(Request)] /\ q[p] # <<>> /\ r = Head(q[p])
    BY <1>0, <1>3 DEF Taken
  <2>2. r \in Elements(q)
    BY <2>1, ElementsMove
  <2>3. r \in Requests
    BY <1>3, <2>2 DEF Requests, Taken
  <2>4. r \in Request
    BY <2>1
  <2> QED
    BY <1>0, <2>3, <2>4 DEF RequestsPlain
<1>5. /\ g = schedule_resources(r, att.avail) /\ att.avail = Cores - cores_used
      /\ cores_used' = IF g > 0 THEN apply_resources(cores_used, g) ELSE free_resources(cores_used, -g)
      /\ att' = [att EXCEPT !.pc = IF g # 0 THEN "schedule" ELSE "post",
                            !.request = r, !.granted = g, !.ok = FALSE]
  BY <1>0, <1>1, <1>3 DEF Taken, Granting, check_resources
<1>6. att.avail \in Nat
  BY <1>0, <1>5
<1>7. /\ r.inter \in Nat /\ r.intra \in Nat /\ r.id \in Containers /\ r.inter = 1
      /\ r.kind \in {"Start", "Update"}
  BY <1>4, RequestFields DEF Plain
<1>8. Requested(r) \in Int
  <2>1. info[r.id] \in ExecutionInfo
    BY <1>0, <1>7 DEF TypeOK
  <2> QED
    BY <1>7, <2>1 DEF Requested, Parallelism, ExecutionInfo
<1>9. /\ g \in Int /\ g <= att.avail
      /\ Requested(r) > 0 => g >= 0
      /\ Requested(r) <= 0 => g = Requested(r)
      /\ Assignment # "max_prop" => g <= Requested(r)
  BY <1>5, <1>6, <1>8, ScheduleResources
<1>10. cores_used' = cores_used + g
  BY <1>0, <1>5, <1>9 DEF apply_resources, free_resources, check_resources
<1>11. /\ att'.pc = (IF g # 0 THEN "schedule" ELSE "post") /\ att'.request = r
       /\ att'.granted = g /\ att'.ok = FALSE
  BY <1>0, <1>5 DEF AttentionLocals
<1>12. Reserved = 0 /\ Reserved' = g
  BY <1>1, <1>9, <1>11 DEF Reserved
<1>13. Exact'
  BY <1>0, <1>1, <1>9, <1>10, <1>11, <1>12, SameAllotted DEF Exact
<1>14. ASSUME g = 0 PROVE Kept
  BY <1>11, <1>13, <1>14, Vacuous DEF Kept
<1>15. ASSUME g # 0 PROVE Kept
  <2>1. Requested(r) # 0
    BY <1>9, <1>15
  <2>2. ASSUME r.kind = "Start"
        PROVE  g > 0 /\ (Assignment # "max_prop" => g <= r.inter + r.intra)
    <3>1. Requested(r) = r.inter + r.intra /\ Requested(r) > 0
      BY <1>7, <2>1, <2>2, RequestedWhat
    <3> QED
      BY <1>9, <1>15, <3>1
  <2>3. ASSUME r.kind = "Update" PROVE Offered(g, Wanted(r)) /\ Wanted(r)' = Wanted(r)
    <3>1. Requested(r) = Wanted(r)
      BY <1>7, <2>1, <2>3, RequestedWhat
    <3> DEFINE w == Wanted(r)
    <3>2. w \in Int /\ (w > 0 => g >= 0) /\ (w <= 0 => g = w) /\ (Assignment # "max_prop" => g <= w)
      BY <1>8, <1>9, <3>1
    <3>3. Wanted(r)' = Wanted(r)
      BY <1>1 DEF Wanted
    <3> HIDE DEF w
    <3>4. Offered(g, w)
      BY <1>9, <1>15, <3>2 DEF Offered
    <3> QED
      BY <3>3, <3>4 DEF w
  <2>4. Sharing'
    BY <1>11, <1>15 DEF Sharing
  <2>5. Granting'
    <3>1. att'.pc = "schedule" /\ ~ att'.ok
      BY <1>11, <1>15
    <3>2. att'.request.kind = "Update" => Offered(att'.granted, Wanted(r)')
      BY <1>11, <2>3
    <3>3. att'.request.kind = "Update" => Offered(att.granted, Wanted(att.request))'
      BY <1>11, <3>2 DEF Offered, Wanted
    <3> QED
      BY <1>11, <2>2, <3>1, <3>3 DEF Granting
  <2> QED
    BY <1>13, <2>4, <2>5 DEF Kept
<1>16. Kept
  BY <1>14, <1>15
<1>17. \E i \in Containers : cores_used' >= cores_used - Allotted[i] /\ cores_used' \in 0 .. Cores
  <2> DEFINE t == Total(Allotted)
  <2>1. t \in Nat /\ cores_used = t /\ cores_used + g <= Cores
    BY <1>0, <1>1, <1>5, <1>9, <1>12, Seen DEF Exact
  <2> HIDE DEF t
  <2>2. CASE g >= 0
    <3>1. Allotted[r.id] \in Nat
      BY <1>7, Seen
    <3> QED
      BY <1>7, <1>9, <1>10, <2>1, <2>2, <3>1
  <2>3. CASE g < 0
    <3>1. g = Requested(r) /\ Requested(r) # 0 /\ r.kind = "Update"
      <4>1. g = Requested(r) /\ Requested(r) < 0
        BY <1>8, <1>9, <2>3
      <4>2. r.kind = "Start" => Requested(r) = r.inter + r.intra
        BY DEF Requested
      <4> QED
        BY <1>7, <4>1, <4>2
    <3>2. Listed(r.id) /\ g = r.inter + r.intra - Parallelism(info[r.id])
      BY <1>7, <3>1, RequestedWhat DEF Wanted
    <3>3. /\ Allotted[r.id] = Parallelism(info[r.id]) /\ Allotted[r.id] \in Nat
          /\ Allotted[r.id] <= t
      BY <1>7, <3>2, ListedAllotted DEF t
    <3> QED
      BY <1>7, <1>9, <1>10, <2>1, <3>2, <3>3
  <2> QED
    BY <1>9, <2>2, <2>3
<1>18. att.pc = "take" /\ att'.pc # "dead" /\ Allotted' = Allotted
  BY <1>1, <1>11, SameAllotted
<1> QED
  BY <1>16, <1>17, <1>18

-----------------------------------------------------------------------------
(* Launches and updates.                                                   *)

LEMMA KeptScheduleLaunch ==
    ASSUME Stepping, ScheduleLaunch
    PROVE  /\ Kept /\ Allotted' = Allotted
           /\ \/ /\ att'.pc \in {"post", "dead"} /\ UNCHANGED cpus
                 /\ docker' = docker \/ docker' = StopContainer(att.request.id)
              \/ /\ att'.pc = "accept" /\ att'.request = att.request
                 /\ cpus' = [cpus EXCEPT ![att.request.id] = att'.give.cost]
                 /\ docker' = [docker EXCEPT ![att.request.id] = "boot"]
<1> DEFINE r == att.request
           p == schedule_parallelism(att.granted, r.inter, r.intra, att.factor)
<1>0. /\ att \in AttentionLocals /\ Exact /\ Granting /\ RequestsPlain
      /\ r \in Request /\ att.granted \in Int /\ att.factor \in (Nat \ {0}) \X Nat
      /\ MaxPerCont \in Nat /\ Total(Allotted) \in Nat /\ cores_used \in Int
  BY Seen, Given, Known
<1>1. /\ UNCHANGED <<cores_used, execInfo_list, info, q_finish_container>>
      /\ att.pc = "schedule" /\ r.kind = "Start" /\ ~ att.ok /\ att.granted > 0
      /\ Assignment # "max_prop" => att.granted <= r.inter + r.intra
  <2>1. /\ UNCHANGED <<cores_used, execInfo_list, info, q_finish_container>>
        /\ att.pc = "schedule" /\ IsLaunch(r)
    BY DEF ScheduleLaunch, lists
  <2>2. r.kind = "Start"
    BY <2>1, Given DEF IsLaunch
  <2> QED
    BY <1>0, <2>1, <2>2 DEF Granting
<1>2. Allotted' = Allotted
  BY <1>1, SameAllotted
<1>3. r.inter = 1 /\ r.intra \in Nat /\ (Assignment # "max_prop" => r.intra <= MaxPerCont + 1)
  <2>1. Plain(r)
    BY <1>0, <1>1 DEF RequestsPlain, Requests, Handling
  <2> QED
    BY <1>0, <2>1, RequestFields DEF Plain
<1>4. \/ /\ att' = [att EXCEPT !.pc = "post"] /\ UNCHANGED <<docker, cpus>>
      \/ /\ p # <<>>
         /\ docker' = [docker EXCEPT ![r.id] = "boot"]
         /\ cpus' = [cpus EXCEPT ![r.id] = p[1] + p[2]]
         /\ att' = [att EXCEPT !.pc = "accept", !.attemps = 0,
                               !.give = Give(p[1], p[2], p[1] + p[2])]
      \/ /\ docker' = StopContainer(r.id) /\ UNCHANGED cpus
         /\ att' = [att EXCEPT !.pc = "dead"]
  BY DEF ScheduleLaunch
<1>5. Reserved = att.granted
  BY <1>1 DEF Reserved
<1>6. CASE att' = [att EXCEPT !.pc = "post"] /\ UNCHANGED <<docker, cpus>>
  <2>1. att'.pc = "post" /\ att'.ok = att.ok /\ att'.granted = att.granted
    BY <1>0, <1>6 DEF AttentionLocals
  <2>2. Reserved' = att.granted
    BY <1>1, <2>1 DEF Reserved
  <2>3. Exact'
    BY <1>0, <1>1, <1>2, <1>5, <2>1, <2>2 DEF Exact
  <2> QED
    BY <1>2, <1>6, <2>1, <2>3, Vacuous DEF Kept
<1>7. CASE docker' = StopContainer(r.id) /\ UNCHANGED cpus /\ att' = [att EXCEPT !.pc = "dead"]
  <2>1. att'.pc = "dead"
    BY <1>0, <1>7 DEF AttentionLocals
  <2> QED
    BY <1>2, <1>7, <2>1, Vacuous DEF Kept, QuietPcs, Exact
<1>8. CASE /\ p # <<>>
           /\ docker' = [docker EXCEPT ![r.id] = "boot"]
           /\ cpus' = [cpus EXCEPT ![r.id] = p[1] + p[2]]
           /\ att' = [att EXCEPT !.pc = "accept", !.attemps = 0,
                                 !.give = Give(p[1], p[2], p[1] + p[2])]
  <2> DEFINE x == p[1]
             y == p[2]
  <2>1. /\ x \in Nat /\ x >= 1 /\ y \in Nat /\ x + y <= att.granted
        /\ Assignment # "max_prop" => r.intra - y <= MaxPerCont
    <3> DEFINE n == att.granted
               t == r.intra
               f == att.factor
    <3>1. /\ n \in Nat \ {0} /\ t \in Nat /\ f \in (Nat \ {0}) \X Nat
          /\ Assignment # "max_prop" => n <= 1 + t /\ t <= MaxPerCont + 1
          /\ p = schedule_parallelism(n, 1, t, f)
      BY <1>0, <1>1, <1>3
    <3> HIDE DEF n, t, f, p
    <3> QED
      BY <1>8, <3>1, LaunchGrant DEF n, t
  <2>2. /\ docker' = [docker EXCEPT ![r.id] = "boot"]
        /\ cpus' = [cpus EXCEPT ![r.id] = x + y]
        /\ att' = [att EXCEPT !.pc = "accept", !.attemps = 0, !.give = Give(x, y, x + y)]
    BY <1>8
  <2> HIDE DEF x, y
  <2>3. /\ att'.pc = "accept" /\ att'.request = r /\ att'.granted = att.granted /\ att'.ok = att.ok
        /\ att'.give = Give(x, y, x + y)
    BY <1>0, <2>2 DEF AttentionLocals
  <2>4. att'.give.inter = x /\ att'.give.intra = y /\ att'.give.cost = x + y
    BY <2>3 DEF Give
  <2>5. Sharing' /\ Reserved' = att.granted
    BY <2>3 DEF Sharing, Reserved
  <2>6. Granting'
    BY <1>0, <1>1, <2>1, <2>3, <2>4 DEF Granting
  <2>7. Exact'
    BY <1>0, <1>1, <1>2, <1>5, <2>3, <2>5 DEF Exact
  <2>8. cpus' = [cpus EXCEPT ![r.id] = att'.give.cost]
    BY <2>2, <2>4
  <2> QED
    BY <1>2, <2>2, <2>3, <2>5, <2>6, <2>7, <2>8 DEF Kept
<1> QED
  BY <1>4, <1>6, <1>7, <1>8

LEMMA KeptAccept ==
    ASSUME Stepping, Accept
    PROVE  /\ Kept /\ Allotted' = Allotted /\ UNCHANGED <<cpus, docker>> /\ att.pc = "accept"
           /\ att' = [att EXCEPT !.pc = "register"]
<1>0. /\ att \in AttentionLocals /\ Exact /\ Granting /\ Total(Allotted) \in Nat
  BY Seen
<1>1. /\ UNCHANGED <<cores_used, execInfo_list, info, q_finish_container, cpus, docker>>
      /\ att.pc = "accept" /\ att' = [att EXCEPT !.pc = "register"]
  BY DEF Accept, lists
<1>2. /\ att'.pc = "register" /\ att'.request = att.request /\ att'.granted = att.granted
      /\ att'.ok = att.ok /\ att'.give = att.give
  BY <1>0, <1>1 DEF AttentionLocals
<1>3. Allotted' = Allotted
  BY <1>1, SameAllotted
<1>4. Reserved = att.granted /\ Reserved' = att.granted
  BY <1>1, <1>2 DEF Reserved
<1>5. Exact'
  BY <1>0, <1>1, <1>2, <1>3, <1>4 DEF Exact
<1>6. Sharing' /\ Granting'
  BY <1>0, <1>1, <1>2 DEF Sharing, Granting
<1> QED
  BY <1>1, <1>3, <1>5, <1>6 DEF Kept

LEMMA KeptRegisterStart ==
    ASSUME Stepping, RegisterStart
    PROVE  /\ Kept /\ UNCHANGED <<cpus, docker>> /\ att'.pc = "registerName"
           /\ Allots(att.request.id, Allotted[att.request.id] + att.give.cost)
<1> DEFINE i == att.request.id
<1>0. /\ att \in AttentionLocals /\ Exact /\ Granting /\ Total(Allotted) \in Nat
      /\ att.give.cost \in Int /\ att.granted \in Int /\ cores_used \in Int
  BY Seen
<1>1. /\ UNCHANGED <<cores_used, cpus, docker>>
      /\ att.pc = "register" /\ att' = [att EXCEPT !.pc = "registerName"]
  BY DEF RegisterStart, world
<1>2. /\ att'.pc = "registerName" /\ att'.request = att.request /\ att'.granted = att.granted
      /\ att'.ok = att.ok /\ att'.give = att.give
  BY <1>0, <1>1 DEF AttentionLocals
<1>3. Allots(i, Allotted[i] + att.give.cost)
  <2>1. Allots(i, att.give.cost) /\ Allotted[i] = 0
    BY AllottedRegisters
  <2>2. Allotted[i] + att.give.cost = att.give.cost
    BY <1>0, <2>1
  <2> QED
    BY <2>1, <2>2
<1> HIDE DEF i
<1>4. Total(Allotted') = Total(Allotted) + att.give.cost
  BY <1>0, <1>3, GivenOne
<1>5. Reserved = att.granted /\ Reserved' = att.granted - att.give.cost
  BY <1>1, <1>2 DEF Reserved
<1>6. Exact'
  BY <1>0, <1>1, <1>2, <1>4, <1>5 DEF Exact
<1>7. Sharing' /\ Granting'
  BY <1>0, <1>1, <1>2 DEF Sharing, Granting
<1> QED
  BY <1>1, <1>2, <1>3, <1>6, <1>7 DEF Kept, i

\* Once it is registered, a request has all that was reserved for it, or the excess
\* is given back.
LEMMA KeptRegisterName ==
    ASSUME Stepping, RegisterName
    PROVE  Kept /\ Allotted' = Allotted /\ UNCHANGED <<cpus, docker>> /\ att'.pc \in {"excess", "post"}
<1>0. /\ att \in AttentionLocals /\ Exact /\ Granting /\ Total(Allotted) \in Nat
      /\ att.give.cost \in Int /\ att.granted \in Int /\ cores_used \in Int
      /\ att.give.inter \in Int /\ att.give.intra \in Int
  BY Seen
<1>1. /\ UNCHANGED <<cores_used, execInfo_list, info, q_finish_container, cpus, docker>>
      /\ att.pc = "registerName"
      /\ att' = [att EXCEPT !.ok = TRUE, !.pc = AfterSchedule(att.give)]
  BY DEF RegisterName, world
<1>2. /\ att'.pc = AfterSchedule(att.give) /\ att'.granted = att.granted
      /\ att'.ok = TRUE /\ att'.give = att.give
  BY <1>0, <1>1 DEF AttentionLocals
<1>3. att.give.cost >= 1 /\ att.give.cost <= att.granted
  BY <1>0, <1>1 DEF Granting
<1>4. att'.pc = IF att.give.cost < att.granted THEN "excess" ELSE "post"
  BY <1>0, <1>2, <1>3 DEF AfterSchedule
<1>5. Reserved = att.granted - att.give.cost /\ Reserved' = att.granted - att.give.cost
  BY <1>0, <1>1, <1>2, <1>3, <1>4 DEF Reserved
<1>6. Allotted' = Allotted
  BY <1>1, SameAllotted
<1>7. Exact'
  BY <1>0, <1>1, <1>4, <1>5, <1>6 DEF Exact
<1>8. Sharing' /\ Granting'
  BY <1>2, <1>4 DEF Sharing, Granting
<1> QED
  BY <1>1, <1>4, <1>6, <1>7, <1>8 DEF Kept

LEMMA KeptScheduleUpdate ==
    ASSUME Stepping, ScheduleUpdate
    PROVE  /\ Kept /\ Allotted' = Allotted /\ UNCHANGED docker /\ att'.request = att.request
           /\ \/ att'.pc = "post" /\ UNCHANGED cpus
              \/ /\ att'.pc = "updating" /\ Listed(att.request.id)
                 /\ DockerUpdate(att.request.id,
                                 new_parallelism(info[att.request.id], att'.give.inter,
                                                 att'.give.intra))
<1> DEFINE r == att.request
           c == info[r.id]
           g == UpdateGive(r, c)
<1>0. /\ att \in AttentionLocals /\ Exact /\ Granting /\ RequestsPlain /\ SystemInfoLock
      /\ r \in Request /\ r.id \in Containers /\ att.granted \in Int
      /\ att.factor \in (Nat \ {0}) \X Nat /\ Records
      /\ info \in [Containers -> ExecutionInfo] /\ Total(Allotted) \in Nat
  BY Seen, Given, Known
<1>1. /\ UNCHANGED <<cores_used, execInfo_list, info, q_finish_container, docker>>
      /\ att.pc = "schedule" /\ r.kind = "Update" /\ ~ att.ok /\ att.granted # 0
  <2>1. /\ UNCHANGED <<cores_used, execInfo_list, info, q_finish_container, docker>>
        /\ att.pc = "schedule" /\ r.kind = "Update"
    BY DEF ScheduleUpdate, lists
  <2> QED
    BY <1>0, <2>1 DEF Granting, SystemInfoLock, Scheduling
<1>2. Allotted' = Allotted /\ \A i : Listed(i)' <=> Listed(i)
  BY <1>1, SameAllotted
<1>3. \/ att' = [att EXCEPT !.pc = "post"] /\ UNCHANGED cpus
      \/ /\ Listed(r.id) /\ g # <<>> /\ held' = held \cup {"execInfo"}
         /\ att' = [att EXCEPT !.pc = "updating", !.give = g[1]]
         /\ DockerUpdate(r.id, new_parallelism(c, g[1].inter, g[1].intra))
  BY DEF ScheduleUpdate
<1>4. Reserved = att.granted
  BY <1>1 DEF Reserved
<1>5. CASE att' = [att EXCEPT !.pc = "post"] /\ UNCHANGED cpus
  <2>1. /\ att'.pc = "post" /\ att'.ok = att.ok /\ att'.granted = att.granted
        /\ att'.request = att.request
    BY <1>0, <1>5 DEF AttentionLocals
  <2>2. Reserved' = att.granted
    BY <1>1, <2>1 DEF Reserved
  <2>3. Exact'
    BY <1>0, <1>1, <1>2, <1>4, <2>1, <2>2 DEF Exact
  <2> QED
    BY <1>1, <1>2, <1>5, <2>1, <2>3, Vacuous DEF Kept
<1>6. CASE /\ Listed(r.id) /\ g # <<>> /\ held' = held \cup {"execInfo"}
           /\ att' = [att EXCEPT !.pc = "updating", !.give = g[1]]
           /\ DockerUpdate(r.id, new_parallelism(c, g[1].inter, g[1].intra))
  <2> DEFINE d == g[1]
  <2>1. c \in ExecutionInfo /\ Sound(c)
    BY <1>0, <1>6 DEF Records
  <2>2. r.inter = 1 /\ r.intra >= 1
    <3>1. Plain(r)
      BY <1>0, <1>1 DEF RequestsPlain, Requests, Handling
    <3> QED
      BY <1>1, <3>1 DEF Plain
  <2>3. Offered(att.granted, r.inter + r.intra - Parallelism(c))
    BY <1>0, <1>1, <1>6 DEF Granting, Wanted
  <2>4. att.granted \in Int \ {0}
    BY <1>0, <1>1
  <2>5. /\ d \in [inter : Int, intra : Int, cost : Int]
        /\ d.cost # 0 /\ d.cost = Gained(c, d)
        /\ \/ 0 < d.cost /\ d.cost <= att.granted
           \/ d.cost < 0 /\ d.cost = att.granted
    <3> HIDE DEF r, c
    <3> QED
      BY <1>0, <1>6, <2>1, <2>2, <2>3, <2>4, UpdatePaid
  <2>6. /\ att' = [att EXCEPT !.pc = "updating", !.give = d]
        /\ DockerUpdate(r.id, new_parallelism(c, d.inter, d.intra))
    BY <1>6
  <2> HIDE DEF d, g
  <2>7. /\ att'.pc = "updating" /\ att'.give = d /\ att'.request = r
        /\ att'.granted = att.granted /\ att'.ok = att.ok
    BY <1>0, <2>6 DEF AttentionLocals
  <2>8. Sharing' /\ Reserved' = att.granted
    BY <1>6, <2>7 DEF Sharing, Reserved
  <2>9. Granting'
    <3>1. info' = info /\ Listed(r.id)'
      BY <1>1, <1>2, <1>6
    <3> QED
      BY <1>1, <2>5, <2>7, <3>1 DEF Granting
  <2>10. Exact'
    BY <1>0, <1>1, <1>2, <1>4, <2>7, <2>8 DEF Exact
  <2> QED
    BY <1>1, <1>2, <1>6, <2>6, <2>7, <2>8, <2>9, <2>10 DEF Kept
<1> QED
  BY <1>3, <1>5, <1>6

LEMMA KeptUpdateWrite ==
    ASSUME Stepping, UpdateWrite
    PROVE  /\ Kept /\ UNCHANGED <<cpus, docker>> /\ att'.pc \in {"excess", "post"}
           /\ Allots(att.request.id, Allotted[att.request.id] + att.give.cost)
<1> DEFINE i == att.request.id
           cost == att.give.cost
<1>0. /\ att \in AttentionLocals /\ Exact /\ Granting /\ Total(Allotted) \in Nat
      /\ cost \in Int /\ att.granted \in Int /\ cores_used \in Int
      /\ att.give.inter \in Int /\ att.give.intra \in Int /\ i \in Containers
      /\ info \in [Containers -> ExecutionInfo]
  BY Seen
<1>1. /\ UNCHANGED <<cores_used, execInfo_list, q_finish_container, cpus, docker>>
      /\ att.pc = "updating"
      /\ att' = [att EXCEPT !.ok = TRUE, !.pc = AfterSchedule(att.give)]
  BY DEF UpdateWrite, world
<1>2. /\ att'.pc = AfterSchedule(att.give) /\ att'.granted = att.granted
      /\ att'.ok = TRUE /\ att'.give = att.give
  BY <1>0, <1>1 DEF AttentionLocals
<1>3. /\ Listed(i) /\ cost # 0 /\ cost = Gained(info[i], att.give)
      /\ \/ 0 < cost /\ cost <= att.granted
         \/ cost < 0 /\ cost = att.granted
  BY <1>0, <1>1 DEF Granting
<1>4. att'.pc = IF cost < att.granted THEN "excess" ELSE "post"
  BY <1>0, <1>2, <1>3 DEF AfterSchedule
<1>5. Allots(i, Allotted[i] + cost)
  <2> DEFINE c == info[i]
             u == update_parallelism(c, att.give.inter, att.give.intra)
  <2>1. info' = [info EXCEPT ![i] = u]
    BY DEF UpdateWrite
  <2>2. c \in ExecutionInfo
    BY <1>0
  <2> HIDE DEF c
  <2>3. Parallelism(u) = Parallelism(c) + cost
    BY <1>0, <1>3, <2>2, WriteGains DEF c
  <2> HIDE DEF u
  <2>4. /\ Parallelism(info'[i]) = Parallelism(info[i]) + cost
        /\ \A j \in Containers : j # i => info'[j] = info[j]
    BY <1>0, <2>1, <2>3 DEF c
  <2> HIDE DEF i, cost
  <2> QED
    BY <1>0, <1>1, <1>3, <2>4, AllottedGains
<1> HIDE DEF i
<1>6. Total(Allotted') = Total(Allotted) + cost
  BY <1>0, <1>5, GivenOne
<1>7. Reserved = att.granted /\ Reserved' = att.granted - cost
  BY <1>0, <1>1, <1>2, <1>3, <1>4 DEF Reserved
<1>8. Exact'
  BY <1>0, <1>1, <1>4, <1>6, <1>7 DEF Exact
<1>9. Sharing' /\ Granting'
  BY <1>2, <1>4 DEF Sharing, Granting
<1> QED
  BY <1>1, <1>4, <1>5, <1>8, <1>9 DEF Kept, i

LEMMA KeptExcess ==
    ASSUME Stepping, ExcessRead \/ ExcessWrite
    PROVE  Kept
<1>0. /\ att \in AttentionLocals /\ Exact /\ Granting /\ Total(Allotted) \in Nat
      /\ att.give.cost \in Int /\ att.granted \in Int /\ cores_used \in Int
  BY Seen
<1>1. UNCHANGED <<execInfo_list, info, q_finish_container>>
  BY DEF ExcessRead, ExcessWrite, lists
<1>2. Allotted' = Allotted
  BY <1>1, SameAllotted
<1>3. CASE ExcessRead
  <2>1. /\ att.pc = "excess" /\ att' = [att EXCEPT !.pc = "excessWrite", !.tmp = cores_used]
        /\ cores_used' = cores_used
    BY <1>3 DEF ExcessRead
  <2>2. /\ att'.pc = "excessWrite" /\ att'.tmp = cores_used /\ att'.ok = att.ok
        /\ att'.granted = att.granted /\ att'.give = att.give
    BY <1>0, <2>1 DEF AttentionLocals
  <2>3. Sharing' /\ Granting'
    BY <1>0, <2>1, <2>2 DEF Sharing, Granting
  <2>4. Reserved = att.granted - att.give.cost /\ Reserved' = att.granted - att.give.cost
    BY <2>1, <2>2 DEF Reserved
  <2>5. Exact'
    BY <1>0, <1>2, <2>1, <2>4 DEF Exact
  <2> QED
    BY <2>3, <2>5 DEF Kept
<1>4. CASE ExcessWrite
  <2>1. /\ att.pc = "excessWrite" /\ att' = [att EXCEPT !.pc = "post", !.tmp = 0]
        /\ cores_used' = att.tmp - (att.granted - att.give.cost)
    BY <1>4 DEF ExcessWrite, free_resources
  <2>2. att'.pc = "post" /\ att'.ok = att.ok
    BY <1>0, <2>1 DEF AttentionLocals
  <2>3. att.ok /\ att.tmp = cores_used
    BY <1>0, <2>1 DEF Granting
  <2>4. Reserved = att.granted - att.give.cost /\ Reserved' = 0
    BY <2>1, <2>2, <2>3 DEF Reserved
  <2>5. Exact'
    BY <1>0, <1>2, <2>1, <2>3, <2>4 DEF Exact
  <2> QED
    BY <2>2, <2>5, Vacuous DEF Kept
<1> QED
  BY <1>3, <1>4

LEMMA KeptPostPending ==
    ASSUME Stepping, PostPending
    PROVE  Kept
<1> DEFINE n == check_resources(cores_used')
           q == IF att.ok THEN att.q_aux
                ELSE add_request(att.q_aux, att.request.priority, att.request)
<1>0. /\ att \in AttentionLocals /\ Exact /\ Total(Allotted) \in Nat
      /\ att.granted \in Int /\ cores_used \in Int /\ att.ok \in BOOLEAN
  BY Seen DEF AttentionLocals
<1>1. /\ UNCHANGED <<execInfo_list, info, q_finish_container>> /\ att.pc = "post"
      /\ cores_used' = (IF att.ok THEN cores_used ELSE cores_used - att.granted)
      /\ att' = [att EXCEPT !.pc = "take", !.avail = n, !.request = NoRequest, !.granted = 0,
                            !.give = Nothing, !.ok = FALSE, !.q_aux = q]
  BY DEF PostPending, lists, free_resources
<1>2. Allotted' = Allotted
  BY <1>1, SameAllotted
<1>3. att'.pc = "take" /\ att'.avail = check_resources(cores_used')
  <2> HIDE DEF n, q
  <2>1. att'.pc = "take" /\ att'.avail = n
    BY <1>0, <1>1 DEF AttentionLocals
  <2> QED
    BY <2>1 DEF n
<1>4. Sharing' /\ Granting'
  BY <1>3 DEF Sharing, Granting
<1>5. Reserved = (IF att.ok THEN 0 ELSE att.granted) /\ Reserved' = 0
  BY <1>0, <1>1, <1>3 DEF Reserved
<1>6. Exact'
  BY <1>0, <1>1, <1>2, <1>5 DEF Exact
<1> QED
  BY <1>4, <1>6 DEF Kept

LEMMA KeptPostNew ==
    ASSUME Stepping, PostNew \/ PostWrite
    PROVE  Kept
<1>0. /\ att \in AttentionLocals /\ Exact /\ Granting /\ Total(Allotted) \in Nat
      /\ att.granted \in Int /\ cores_used \in Int /\ att.ok \in BOOLEAN
  BY Seen DEF AttentionLocals
<1>1. UNCHANGED <<execInfo_list, info, q_finish_container>>
  BY DEF PostNew, PostWrite, lists
<1>2. Allotted' = Allotted
  BY <1>1, SameAllotted
<1>3. CASE PostNew /\ att.ok
  <2>1. att.pc = "post" /\ att' = [att EXCEPT !.pc = "relock"] /\ cores_used' = cores_used
    BY <1>3 DEF PostNew
  <2>2. att'.pc = "relock"
    BY <1>0, <2>1 DEF AttentionLocals
  <2>3. Reserved = 0 /\ Reserved' = 0
    BY <1>3, <2>1, <2>2 DEF Reserved
  <2>4. Exact'
    BY <1>0, <1>2, <2>1, <2>3 DEF Exact
  <2> QED
    BY <2>2, <2>4, Vacuous DEF Kept, QuietPcs
<1>4. CASE PostNew /\ ~ att.ok
  <2>1. /\ att.pc = "post" /\ att' = [att EXCEPT !.pc = "postWrite", !.tmp = cores_used]
        /\ cores_used' = cores_used
    BY <1>4 DEF PostNew
  <2>2. att'.pc = "postWrite" /\ att'.tmp = cores_used /\ att'.granted = att.granted
    BY <1>0, <2>1 DEF AttentionLocals
  <2>3. Reserved = att.granted /\ Reserved' = att.granted
    BY <1>4, <2>1, <2>2 DEF Reserved
  <2>4. Exact'
    BY <1>0, <1>2, <2>1, <2>3 DEF Exact
  <2>5. Sharing' /\ Granting'
    BY <2>1, <2>2 DEF Sharing, Granting
  <2> QED
    BY <2>4, <2>5 DEF Kept
<1>5. CASE PostWrite
  <2>1. /\ att.pc = "postWrite" /\ att' = [att EXCEPT !.pc = "relock", !.tmp = 0]
        /\ cores_used' = att.tmp - att.granted
    BY <1>5 DEF PostWrite, free_resources
  <2>2. att'.pc = "relock" /\ att.tmp = cores_used
    BY <1>0, <2>1 DEF AttentionLocals, Granting
  <2>3. Reserved = att.granted /\ Reserved' = 0
    BY <2>1, <2>2 DEF Reserved
  <2>4. Exact'
    BY <1>0, <1>2, <2>1, <2>2, <2>3 DEF Exact
  <2> QED
    BY <2>2, <2>4, Vacuous DEF Kept, QuietPcs
<1> QED
  BY <1>3, <1>4, <1>5

\* Every step keeps what is set aside in the books.
LEMMA KeptStep ==
    ASSUME Stepping
    PROVE  Kept
BY Inside, KeptOutside, KeptWaiting, KeptFinishRequest, KeptReassign, KeptLockList, KeptGiveNext,
   KeptGiveWrite, KeptGiveEnd, KeptGiveBack, KeptScheduleLaunch, KeptAccept, KeptRegisterStart,
   KeptRegisterName, KeptScheduleUpdate, KeptUpdateWrite, KeptPending, KeptTakeRequest, KeptExcess,
   KeptPostPending, KeptPostNew

-----------------------------------------------------------------------------
(* The containers that run fit in the machine.                             *)

\* Containers that run on what they are allotted, one of them on n cores more, fit if the
\* sum does.
LEMMA FitTogether ==
    ASSUME NEW a \in [Containers -> Nat], NEW c \in [Containers -> Int],
           NEW R \in SUBSET Containers, NEW j \in Containers, NEW n \in Nat,
           \A i \in R : c[i] <= a[i] + (IF i = j THEN n ELSE 0),
           Total(a) + n <= Cores
    PROVE  Total([i \in R |-> c[i]]) <= Cores
<1> DEFINE f == [i \in Containers |-> a[i] + (IF i = j THEN n ELSE 0)]
           g == [i \in R |-> c[i]]
<1>0. IsFiniteSet(Containers) /\ Cores \in Nat
  BY SchedulerAssumption, CoresAssumption
<1>1. /\ f \in [Containers -> Nat] /\ f[j] = a[j] + n
      /\ \A i \in Containers : i # j => f[i] = a[i]
      /\ \A i \in R : c[i] <= f[i]
  OBVIOUS
<1>2. f \in [Containers -> Int] /\ g \in [R -> Int] /\ \A i \in R : g[i] = c[i]
  OBVIOUS
<1> HIDE DEF f, g
<1>3. Total(f) = Total(a) + n
  <2>1. Total(a) \in Nat /\ Total(f) = Total(a) - a[j] + f[j]
    BY <1>1, OneChanges
  <2> QED
    BY <1>1, <2>1
<1>4. Total(g) \in Nat /\ Total(f) \in Nat /\ Total(g) <= Total(f)
  <2>1. \A i \in R : g[i] <= f[i]
    BY <1>1, <1>2
  <2> QED
    BY <1>0, <1>2, <2>1, TotalMonotone
<1> QED
  BY <1>0, <1>3, <1>4 DEF g

\* What is known of the state after a step.
LEMMA SeenNext ==
    ASSUME Stepping
    PROVE  /\ att' \in AttentionLocals /\ att'.granted \in Int /\ att'.avail \in Int
           /\ att'.give.cost \in Int /\ att'.give.inter \in Int /\ att'.give.intra \in Int
           /\ att'.tmp \in Int /\ att'.idx \in Nat
           /\ att'.request.id \in Containers /\ att'.joining \in Containers
           /\ cores_used' \in Int /\ Cores \in Nat \ {0}
           /\ Total(Allotted') \in Nat /\ cpus' \in [Containers -> Int]
           /\ execInfo_list' \in Seq(Containers)
           /\ LedgerBounds' /\ Sharing' /\ Granting' /\ Exact'
<1>1. IInv' /\ Kept
  BY After, KeptStep
<1>2. /\ att' \in AttentionLocals /\ cores_used' \in Int /\ cpus' \in [Containers -> Int]
      /\ execInfo_list' \in Seq(Containers) /\ LedgerBounds' /\ Sharing' /\ Granting' /\ Exact'
  BY <1>1 DEF IInv, TypeOK, Kept
<1>3. att'.request \in Request
  BY <1>2 DEF AttentionLocals
<1>4. /\ att'.granted \in Int /\ att'.avail \in Int
      /\ att'.give.cost \in Int /\ att'.give.inter \in Int /\ att'.give.intra \in Int
      /\ att'.tmp \in Int /\ att'.idx \in Nat /\ att'.joining \in Containers
  BY <1>2 DEF AttentionLocals
<1> QED
  BY <1>2, <1>3, <1>4, RequestFields, Seen

\* There is room for what is allotted and for what one container has beyond it.
LEMMA RoomForAll ==
    ASSUME Stepping, att'.pc # "dead"
    PROVE  \E j \in Containers : \E n \in Nat :
              /\ Total(Allotted') + n <= Cores
              /\ \A i \in Containers : Beyond(i)' <= (IF i = j THEN n ELSE 0)
<1> DEFINE t == Total(Allotted')
           u == cores_used'
           cost == att'.give.cost
           granted == att'.granted
           Room(j, n) == /\ j \in Containers /\ n \in Nat /\ t + n <= Cores
                         /\ \A i \in Containers : Beyond(i)' <= (IF i = j THEN n ELSE 0)
<1>0. /\ t \in Nat /\ u \in Int /\ cost \in Int /\ granted \in Int /\ Cores \in Nat
      /\ att'.avail \in Int /\ att'.give.inter \in Int /\ att'.give.intra \in Int
      /\ att'.request.id \in Containers /\ att'.joining \in Containers
      /\ Sharing' /\ Granting' /\ LedgerBounds' /\ u <= Cores /\ u = t + Reserved'
  BY SeenNext DEF Exact, LedgerBounds
<1> HIDE DEF t, u, cost, granted
<1>1. CASE att'.pc \in {"accept", "register", "updating"}
  <2> DEFINE j == att'.request.id
  <2>1. Reserved' = granted
    BY <1>1 DEF Reserved, granted
  <2>2. \A i \in Containers : Beyond(i)' = IF i = j THEN cost ELSE 0
    BY <1>1 DEF Beyond, cost
  <2>3. CASE 0 < cost /\ cost <= granted
    <3>1. Room(j, cost)
      BY <1>0, <2>1, <2>2, <2>3
    <3> QED
      BY <3>1 DEF t
  <2>4. CASE cost < 0 /\ cost = granted /\ att'.pc = "updating"
    <3>1. u - granted <= Cores
      <4>1. Refund' = granted /\ InFlight'
        BY <1>0, <2>4 DEF Refund, InFlight, Scheduling, granted
      <4>2. u - Refund' <= Cores
        BY <1>0, <4>1 DEF LedgerBounds, u
      <4> QED
        BY <4>1, <4>2
    <3>2. Room(j, 0)
      BY <1>0, <2>1, <2>2, <2>4, <3>1
    <3> QED
      BY <3>2 DEF t
  <2>5. \/ 0 < cost /\ cost <= granted
        \/ cost < 0 /\ cost = granted /\ att'.pc = "updating"
    <3>1. CASE att'.pc = "updating"
      BY <1>0, <3>1 DEF Granting, cost, granted
    <3>2. CASE att'.pc \in {"accept", "register"}
      <4>1. /\ att'.give.inter >= 1 /\ att'.give.intra >= 0
            /\ cost = att'.give.inter + att'.give.intra /\ cost <= granted
        BY <1>0, <3>2 DEF Granting, cost, granted
      <4> QED
        BY <1>0, <4>1
    <3> QED
      BY <1>1, <3>1, <3>2
  <2> QED
    BY <2>3, <2>4, <2>5
<1>2. CASE att'.pc = "given"
  <2> DEFINE j == Chosen'
  <2>1. Reserved' = att'.avail
    BY <1>2 DEF Reserved
  <2>2. \A i \in Containers : Beyond(i)' = IF j = i THEN cost ELSE 0
    BY <1>2 DEF Beyond, cost
  <2>3. /\ att'.idx \in DOMAIN execInfo_list' /\ 0 <= cost /\ cost <= att'.avail
    BY <1>0, <1>2 DEF Sharing, cost
  <2>4. j \in Containers
    <3> DEFINE l == execInfo_list'
    <3>1. l \in Seq(Containers)
      BY SeenNext
    <3> HIDE DEF l
    <3>2. \A k \in DOMAIN l : l[k] \in Containers
      BY <3>1, SequenceOf
    <3> QED
      BY <2>3, <3>2 DEF l, Chosen
  <2> HIDE DEF j
  <2>5. Room(j, cost)
    BY <1>0, <2>1, <2>2, <2>3, <2>4
  <2> QED
    BY <2>5 DEF t
<1>3. CASE att'.pc = "join"
  <2> DEFINE j == att'.joining
             n == Cores - t
  <2>1. Reserved' = 0
    BY <1>3 DEF Reserved
  <2>2. n \in Nat
    BY <1>0, <2>1
  <2>3. \A i \in Containers : Beyond(i)' = IF j = i THEN n ELSE 0
    BY <1>3 DEF Beyond, t
  <2> HIDE DEF j
  <2>4. Room(j, n)
    <3>1. j \in Containers /\ t + n <= Cores
      BY <1>0 DEF j
    <3> HIDE DEF n
    <3> QED
      BY <2>2, <2>3, <3>1
  <2> QED
    BY <2>2, <2>4 DEF t
<1>4. CASE att'.pc \notin {"accept", "register", "updating", "given", "join"}
  <2> DEFINE j == att'.request.id
  <2>1. \A i \in Containers : Beyond(i)' = 0
    BY <1>4 DEF Beyond
  <2>2. t <= Cores
    <3>1. CASE att'.pc \in {"lockList", "give", "giveback"}
      <4>1. Reserved' = att'.avail /\ att'.avail >= 0
        BY <1>0, <3>1 DEF Reserved, Sharing
      <4> QED
        BY <1>0, <4>1
    <3>2. CASE att'.pc = "schedule" \/ (att'.pc = "post" /\ ~ att'.ok)
      <4>1. Reserved' = granted /\ InFlight'
        BY <3>2 DEF Reserved, InFlight, Scheduling, granted
      <4>2. u - Refund' <= Cores /\ Refund' = IF granted < 0 THEN granted ELSE 0
        BY <1>0, <4>1 DEF LedgerBounds, Refund, u, granted
      <4> QED
        BY <1>0, <4>1, <4>2
    <3>3. CASE att'.pc = "postWrite"
      <4>1. Reserved' = granted
        BY <3>3 DEF Reserved, granted
      <4>2. u - Refund' <= Cores /\ Refund' = IF granted < 0 THEN granted ELSE 0
        BY <1>0, <3>3 DEF LedgerBounds, Refund, Granting, u, granted
      <4> QED
        BY <1>0, <4>1, <4>2
    <3>4. CASE att'.pc \in {"registerName", "excess", "excessWrite"}
      <4>1. Reserved' = granted - cost
        BY <3>4 DEF Reserved, granted, cost
      <4>2. cost <= granted
        BY <1>0, <3>4 DEF LedgerBounds, Granting, granted, cost
      <4> QED
        BY <1>0, <4>1, <4>2
    <3>5. CASE /\ att'.pc \notin {"lockList", "give", "giveback", "schedule", "postWrite",
                                  "registerName", "excess", "excessWrite"}
               /\ ~ (att'.pc = "post" /\ ~ att'.ok)
      <4>1. Reserved' = 0
        BY <1>4, <3>5 DEF Reserved
      <4> QED
        BY <1>0, <4>1
    <3> QED
      BY <3>1, <3>2, <3>3, <3>4, <3>5
  <2> HIDE DEF j
  <2>3. Room(j, 0)
    <3>1. j \in Containers
      BY <1>0 DEF j
    <3> QED
      BY <1>0, <2>1, <2>2, <3>1
  <2> QED
    BY <2>3 DEF t
<1> QED
  BY <1>1, <1>2, <1>3, <1>4

\* While the attention thread goes on, a container runs on what it is allotted, or on what
\* is on its way.
Served ==
    att.pc # "dead" => \A i \in Containers : Running(i) => cpus[i] <= Allotted[i] + Beyond(i)

\* Where nothing is on its way.
Elsewhere(pc) == pc \notin {"accept", "register", "updating", "given", "join", "dead"}

LEMMA NothingBeyond ==
    /\ Elsewhere(att.pc) => \A i : Beyond(i) = 0
    /\ Elsewhere(att'.pc) => \A i : Beyond(i)' = 0
BY DEF Elsewhere, Beyond

LEMMA ServedBefore ==
    ASSUME Stepping
    PROVE  /\ cpus \in [Containers -> Int] /\ Allotted \in [Containers -> Nat]
           /\ Allotted' \in [Containers -> Nat]
           /\ att.pc # "dead" =>
                 \A i \in Containers : Running(i) => cpus[i] <= Allotted[i] + Beyond(i)
           /\ Elsewhere(att.pc) => \A i \in Containers : Running(i) => cpus[i] <= Allotted[i]
<1>1. /\ cpus \in [Containers -> Int] /\ Allotted \in [Containers -> Nat]
      /\ Allotted' \in [Containers -> Nat]
      /\ att.pc # "dead" =>
            \A i \in Containers : Running(i) => cpus[i] <= Allotted[i] + Beyond(i)
  BY Seen DEF Within
<1>2. ASSUME Elsewhere(att.pc), NEW i \in Containers, Running(i) PROVE cpus[i] <= Allotted[i]
  <2>1. Beyond(i) = 0 /\ att.pc # "dead"
    BY <1>2, NothingBeyond DEF Elsewhere
  <2>2. cpus[i] <= Allotted[i] + 0 /\ Allotted[i] \in Nat
    BY <1>1, <1>2, <2>1
  <2> QED
    BY <2>2
<1> QED
  BY <1>1, <1>2

\* Which steps start a container or speak to docker of its cores.
LEMMA Silent ==
    ASSUME Stepping
    PROVE  \/ UNCHANGED cpus /\ \A i \in Containers : Running(i)' => Running(i)
           \/ ScheduleLaunch /\ att'.pc = "accept"
           \/ GiveNext /\ att'.pc = "given"
           \/ ScheduleUpdate /\ att'.pc = "updating"
<1> USE DEF world
<1>1. CASE Outside
  BY <1>1, OutsideSame
<1>2. CASE GiveNext \/ ScheduleUpdate
  <2>1. CASE GiveNext
    BY <2>1, KeptGiveNext DEF Running
  <2>2. CASE ScheduleUpdate
    BY <2>2, KeptScheduleUpdate DEF Running
  <2> QED
    BY <1>2, <2>1, <2>2
<1>3. CASE ScheduleLaunch
  <2>1. CASE att'.pc # "accept"
    <3>1. UNCHANGED cpus /\ (docker' = docker \/ docker' = StopContainer(att.request.id))
      BY <1>3, <2>1, KeptScheduleLaunch
    <3>2. docker \in [Containers -> DockerStates]
      BY Given
    <3>3. \A i \in Containers : docker'[i] \in {"none", docker[i]}
      BY <3>1, <3>2 DEF StopContainer, Pruned
    <3> QED
      BY <3>1, <3>3 DEF Running
  <2> QED
    BY <1>3, <2>1
<1>4. CASE \/ IsFinishQueues \/ IsFinishRest \/ Wait \/ Wake \/ FinishRequest \/ Join
           \/ Reassign \/ LockList \/ GiveWrite \/ GiveEnd \/ GiveBack
  <2>1. UNCHANGED <<cpus, docker>>
    BY <1>4 DEF IsFinishQueues, IsFinishRest, Wait, Wake, FinishRequest, Join, Reassign, LockList,
                GiveWrite, GiveEnd, GiveBack
  <2> QED
    BY <2>1 DEF Running
<1>5. CASE \/ Accept \/ RegisterStart \/ RegisterName \/ UpdateWrite \/ SendFails
  <2>1. UNCHANGED <<cpus, docker>>
    BY <1>5 DEF Accept, RegisterStart, RegisterName, UpdateWrite, SendFails
  <2> QED
    BY <2>1 DEF Running
<1>6. CASE \/ Pending \/ New \/ TakeRequest \/ PendingEnd \/ NewEnd \/ ExcessRead \/ ExcessWrite
           \/ PostPending \/ PostNew \/ PostWrite \/ Relock \/ Occupation
  <2>1. UNCHANGED <<cpus, docker>>
    <3>1. CASE \/ Pending \/ New \/ PendingEnd \/ NewEnd \/ ExcessRead \/ ExcessWrite
               \/ PostPending \/ PostNew \/ PostWrite \/ Relock \/ Occupation
      BY <3>1 DEF Pending, New, PendingEnd, NewEnd, ExcessRead, ExcessWrite,
                  PostPending, PostNew, PostWrite, Relock, Occupation
    <3>2. CASE TakeRequest
      BY <3>2 DEF TakeRequest
    <3> QED
      BY <1>6, <3>1, <3>2
  <2> QED
    BY <2>1 DEF Running
<1> QED
  BY <1>1, <1>2, <1>3, <1>4, <1>5, <1>6, Inside

\* Nothing is on its way before or after.
LEMMA ServedElsewhere ==
    ASSUME Stepping, Elsewhere(att.pc), Elsewhere(att'.pc),
           UNCHANGED cpus, \A i \in Containers : Running(i)' => Running(i), Allotted' = Allotted
    PROVE  Served'
<1>1. ASSUME NEW i \in Containers, Running(i)' PROVE cpus'[i] <= Allotted'[i] + Beyond(i)'
  <2>1. cpus'[i] <= Allotted'[i] /\ Allotted'[i] \in Nat /\ cpus'[i] \in Int
    BY <1>1, ServedBefore
  <2>2. Beyond(i)' = 0
    BY NothingBeyond
  <2> QED
    BY <2>1, <2>2
<1> QED
  BY <1>1 DEF Served

\* What is on its way arrives.
LEMMA ServedArrives ==
    ASSUME Stepping, NEW j, NEW n \in Int, Allots(j, Allotted[j] + n), UNCHANGED <<cpus, docker>>,
           att.pc # "dead", Elsewhere(att'.pc),
           \A i \in Containers : Beyond(i) = IF i = j THEN n ELSE 0
    PROVE  Served'
<1>1. ASSUME NEW i \in Containers, Running(i)' PROVE cpus'[i] <= Allotted'[i] + Beyond(i)'
  <2>1. Running(i)
    BY <1>1 DEF Running
  <2>2. /\ cpus[i] <= Allotted[i] + (IF i = j THEN n ELSE 0) /\ cpus[i] \in Int
        /\ Allotted[i] \in Nat
    BY <2>1, ServedBefore
  <2>3. Allotted'[i] = Allotted[i] + (IF i = j THEN n ELSE 0)
    BY <2>2, GivenOne
  <2>4. Beyond(i)' = 0
    BY NothingBeyond
  <2> QED
    BY <2>2, <2>3, <2>4
<1> QED
  BY <1>1 DEF Served

\* Docker is told of cores that are on their way.
LEMMA ServedTold ==
    ASSUME Stepping, Elsewhere(att.pc), NEW j \in Containers, NEW n \in Int, NEW m \in Int,
           Allotted' = Allotted, UNCHANGED docker,
           DockerUpdate(j, n), n <= Allotted[j] + m,
           \A i \in Containers : Beyond(i)' = IF i = j THEN m ELSE 0
    PROVE  Served'
<1>1. ASSUME NEW i \in Containers, Running(i)' PROVE cpus'[i] <= Allotted'[i] + Beyond(i)'
  <2>1. Running(i) /\ docker[i] # "none"
    BY <1>1 DEF Running
  <2>2. cpus[i] <= Allotted[i] /\ cpus[i] \in Int /\ Allotted[i] \in Nat
    BY <2>1, ServedBefore
  <2>3. cpus'[i] = IF i = j THEN n ELSE cpus[i]
    BY <2>1, ServedBefore DEF DockerUpdate
  <2> QED
    BY <2>2, <2>3
<1> QED
  BY <1>1 DEF Served

\* Steps with nothing on its way before or after, and nothing allotted.
QuietSteps ==
    \/ IsFinishQueues \/ IsFinishRest \/ Wait \/ Wake \/ Reassign \/ LockList \/ GiveEnd \/ GiveBack
    \/ RegisterName \/ Pending \/ New \/ TakeRequest \/ PendingEnd \/ NewEnd
    \/ ExcessRead \/ ExcessWrite \/ PostPending \/ PostNew \/ PostWrite \/ Relock \/ Occupation

LEMMA QuietFrom ==
    ASSUME QuietSteps
    PROVE  Elsewhere(att.pc)
<1>0. ASSUME TakeRequest PROVE att.pc = "take"
  BY <1>0, Zenon DEF TakeRequest
<1>1. CASE \/ IsFinishQueues \/ IsFinishRest \/ Wait \/ Wake \/ Reassign \/ LockList \/ GiveEnd
           \/ GiveBack \/ RegisterName
  BY <1>1 DEF IsFinishQueues, IsFinishRest, Wait, Wake, Reassign, LockList, GiveEnd, GiveBack,
              RegisterName, Elsewhere
<1>2. CASE \/ Pending \/ New \/ TakeRequest \/ PendingEnd \/ NewEnd \/ ExcessRead \/ ExcessWrite
           \/ PostPending \/ PostNew \/ PostWrite \/ Relock \/ Occupation
  BY <1>0, <1>2 DEF Pending, New, PendingEnd, NewEnd, ExcessRead, ExcessWrite,
                    PostPending, PostNew, PostWrite, Relock, Occupation, Elsewhere
<1> QED
  BY <1>1, <1>2 DEF QuietSteps

LEMMA QuietTo ==
    ASSUME Stepping, QuietSteps, att'.pc # "dead"
    PROVE  Elsewhere(att'.pc)
<1>0. att \in AttentionLocals /\ att.after \in {"pend", "occ"}
  BY Seen DEF AttentionLocals
<1>1. CASE IsFinishQueues \/ IsFinishRest \/ Wait \/ Wake
  BY <1>0, <1>1 DEF IsFinishQueues, IsFinishRest, Wait, Wake, AttentionLocals, Elsewhere
<1>2. CASE Reassign \/ LockList \/ GiveEnd \/ GiveBack
  <2>1. att'.pc \in {"lockList", "give", "giveback", "pend", "occ", "dead"}
    BY <1>0, <1>2 DEF Reassign, LockList, GiveEnd, GiveBack, AttentionLocals
  <2> QED
    BY <2>1 DEF Elsewhere
<1>3. CASE RegisterName
  BY <1>3, KeptRegisterName DEF Elsewhere
<1>4. CASE Pending \/ New \/ Relock
  <2>1. att'.pc \in {"take", "new", "reassign", "dead"}
    BY <1>0, <1>4 DEF Pending, New, Relock, AttentionLocals
  <2> QED
    BY <2>1 DEF Elsewhere
<1>5. CASE TakeRequest
  <2>1. PICK p \in QueueIds : \E q, r, granted : Taken(q, p, r, granted)
    BY <1>5, TakenWhat
  <2>2. PICK q, r, granted : Taken(q, p, r, granted)
    BY <2>1
  <2>3. att'.pc \in {"schedule", "post"}
    BY <1>0, <2>2 DEF Taken, AttentionLocals
  <2> QED
    BY <2>3 DEF Elsewhere
<1>6. CASE PendingEnd \/ NewEnd \/ ExcessRead \/ ExcessWrite \/ PostPending \/ PostNew \/ PostWrite
  <2>1. att'.pc \in {"new", "reassign", "excessWrite", "post", "take", "relock", "postWrite"}
    BY <1>0, <1>6 DEF PendingEnd, NewEnd, ExcessRead, ExcessWrite, PostPending, PostNew,
                      PostWrite, AttentionLocals
  <2> QED
    BY <2>1 DEF Elsewhere
<1>7. CASE Occupation
  BY <1>0, <1>7 DEF Occupation, AttentionAt, AttentionLocals, Elsewhere
<1> QED
  BY <1>1, <1>2, <1>3, <1>4, <1>5, <1>6, <1>7 DEF QuietSteps

\* Only four steps allot.
LEMMA AllottedSame ==
    ASSUME Stepping, ~ RegisterStart, ~ GiveWrite, ~ UpdateWrite, ~ FinishRequest
    PROVE  Allotted' = Allotted
BY AllottingSteps, AllottedLeaves, SameAllotted

LEMMA ServedQuiet ==
    ASSUME Stepping, QuietSteps, att'.pc # "dead"
    PROVE  Served'
<1>1. Elsewhere(att.pc) /\ Elsewhere(att'.pc)
  BY QuietFrom, QuietTo
<1>2. /\ ~ RegisterStart /\ ~ GiveWrite /\ ~ UpdateWrite
      /\ ~ (GiveNext /\ att'.pc = "given") /\ ~ (ScheduleUpdate /\ att'.pc = "updating")
      /\ ~ (ScheduleLaunch /\ att'.pc = "accept")
  BY <1>1 DEF RegisterStart, GiveWrite, UpdateWrite, Elsewhere
<1>3. ~ FinishRequest
  BY <1>1, KeptFinishRequest DEF Elsewhere
<1>4. Allotted' = Allotted
  BY <1>2, <1>3, AllottedSame
<1>5. UNCHANGED cpus /\ \A i \in Containers : Running(i)' => Running(i)
  BY <1>2, Silent
<1> QED
  BY <1>1, <1>4, <1>5, ServedElsewhere

\* The other threads and the containers.
LEMMA ServedOutside ==
    ASSUME Stepping, Outside
    PROVE  Served'
<1>1. /\ UNCHANGED <<att, cpus>> /\ Allotted' = Allotted
      /\ \A i \in Containers : Running(i)' => Running(i)
      /\ "execInfo" \in held => UNCHANGED execInfo_list
  BY OutsideSame
<1>2. att.pc = "given" => Chosen' = Chosen
  BY <1>1, Seen DEF Sharing, Chosen
<1>3. \A i : Beyond(i)' = Beyond(i)
  BY <1>1, <1>2 DEF Beyond
<1> QED
  BY <1>1, <1>3, ServedBefore DEF Served

\* The allotment of the container that ended is freed while it may still be there.
LEMMA ServedFinish ==
    ASSUME Stepping, FinishRequest
    PROVE  Served'
<1> DEFINE h == Head(q_finish_container)
           t == Total(Allotted)
           u == Total(Allotted')
<1>1. /\ att'.pc = "join" /\ att'.joining = h.id /\ h.id \in Containers
      /\ Allotted' = [Allotted EXCEPT ![h.id] = 0]
      /\ u = t - Allotted[h.id] /\ t <= Cores /\ t \in Nat /\ u \in Nat /\ Cores \in Nat
  BY KeptFinishRequest, Seen
<1>2. UNCHANGED <<cpus, docker>> /\ Elsewhere(att.pc)
  BY DEF FinishRequest, world, Elsewhere
<1>3. \A i : Beyond(i)' = IF h.id = i THEN Cores - u ELSE 0
  BY <1>1 DEF Beyond
<1> HIDE DEF h, t, u
<1>4. ASSUME NEW i \in Containers, Running(i)' PROVE cpus'[i] <= Allotted'[i] + Beyond(i)'
  <2>1. /\ cpus'[i] <= Allotted[i] /\ cpus'[i] \in Int /\ Allotted[i] \in Nat
        /\ Allotted[h.id] \in Nat /\ Allotted'[i] = IF i = h.id THEN 0 ELSE Allotted[i]
    BY <1>1, <1>2, <1>4, ServedBefore DEF Running
  <2>2. CASE i = h.id
    <3>1. Allotted'[i] = 0 /\ Beyond(i)' = Cores - u /\ Allotted[i] = Allotted[h.id]
      BY <1>3, <2>1, <2>2
    <3> QED
      BY <1>1, <2>1, <3>1
  <2>3. CASE i # h.id
    BY <1>3, <2>1, <2>3
  <2> QED
    BY <2>2, <2>3
<1> QED
  BY <1>4 DEF Served

\* A thread that ended has stopped its container.
LEMMA ServedJoin ==
    ASSUME Stepping, Join
    PROVE  Served'
<1>1. /\ att.pc = "join" /\ UNCHANGED <<cpus, docker>> /\ Elsewhere(att'.pc) /\ Allotted' = Allotted
  <2>1. att.pc = "join" /\ UNCHANGED <<cpus, docker, execInfo_list, info, q_finish_container>>
    BY DEF Join, world, lists
  <2>2. Elsewhere(att'.pc)
    BY Seen DEF Join, AttentionLocals, Elsewhere
  <2> QED
    BY <2>1, <2>2, SameAllotted
<1>2. ~ Running(att.joining)
  <2>1. PICK t \in Threads : t[1] = att.joining /\ cl[t].pc \in {"done", "died"}
    BY DEF Join
  <2>2. cl[t].pc = "done"
    BY <2>1, Given DEF ThreadEnds
  <2> QED
    BY <2>1, <2>2, Given DEF ThreadEnds
<1>3. ASSUME NEW i \in Containers, Running(i)' PROVE cpus'[i] <= Allotted'[i] + Beyond(i)'
  <2>1. Running(i) /\ i # att.joining
    BY <1>1, <1>2, <1>3 DEF Running
  <2>2. Beyond(i) = 0
    BY <1>1, <2>1 DEF Beyond
  <2>3. cpus'[i] <= Allotted'[i] + 0 /\ Beyond(i)' = 0
    BY <1>1, <2>1, <2>2, NothingBeyond, ServedBefore
  <2> QED
    BY <2>3
<1> QED
  BY <1>3 DEF Served

\* What was on its way is written.
LEMMA ServedWritten ==
    ASSUME Stepping, RegisterStart \/ UpdateWrite \/ GiveWrite
    PROVE  Served'
<1> DEFINE n == att.give.cost
<1>0. n \in Int
  BY Seen
<1> HIDE DEF n
<1>1. CASE RegisterStart \/ UpdateWrite
  <2>1. /\ att.pc \in {"register", "updating"} /\ UNCHANGED <<cpus, docker>>
        /\ Elsewhere(att'.pc) /\ Allots(att.request.id, Allotted[att.request.id] + n)
    BY <1>1, KeptRegisterStart, KeptUpdateWrite DEF RegisterStart, UpdateWrite, Elsewhere, n
  <2>2. \A i \in Containers : Beyond(i) = IF i = att.request.id THEN n ELSE 0
    BY <2>1 DEF Beyond, n
  <2> QED
    BY <1>0, <2>1, <2>2, ServedArrives
<1>2. CASE GiveWrite
  <2>1. /\ att.pc = "given" /\ UNCHANGED <<cpus, docker>>
        /\ Elsewhere(att'.pc) /\ Allots(Chosen, Allotted[Chosen] + n)
    BY <1>2, KeptGiveWrite DEF GiveWrite, Elsewhere, n
  <2>2. \A i \in Containers : Beyond(i) = IF i = Chosen THEN n ELSE 0
    BY <2>1 DEF Beyond, n
  <2> QED
    BY <1>0, <2>1, <2>2, ServedArrives
<1> QED
  BY <1>1, <1>2

\* docker run is told of what is set aside for the launch, accept waits for it.
LEMMA ServedLaunched ==
    ASSUME Stepping, ScheduleLaunch, att'.pc # "dead"
    PROVE  Served'
<1>1. att.pc = "schedule" /\ Elsewhere(att.pc)
  BY DEF ScheduleLaunch, Elsewhere
<1>2. CASE att'.pc # "accept"
  <2>1. att'.pc = "post" /\ UNCHANGED cpus /\ Allotted' = Allotted
    BY <1>2, KeptScheduleLaunch
  <2>2. \A i \in Containers : Running(i)' => Running(i)
    BY <2>1, Silent
  <2>3. Elsewhere(att'.pc)
    BY <2>1 DEF Elsewhere
  <2> QED
    BY <1>1, <2>1, <2>2, <2>3, ServedElsewhere
<1>3. CASE att'.pc = "accept"
  <2> DEFINE r == att.request.id
             n == att'.give.cost
  <2>1. /\ Allotted' = Allotted /\ att'.request = att.request
        /\ cpus' = [cpus EXCEPT ![r] = n]
        /\ docker' = [docker EXCEPT ![r] = "boot"]
    BY <1>3, KeptScheduleLaunch
  <2>2. \A i : Beyond(i)' = IF r = i THEN n ELSE 0
    BY <1>3, <2>1 DEF Beyond
  <2>3. n \in Int /\ r \in Containers /\ docker \in [Containers -> DockerStates]
    BY Seen, SeenNext, Given
  <2> HIDE DEF r, n
  <2>4. ASSUME NEW i \in Containers, Running(i)' PROVE cpus'[i] <= Allotted'[i] + Beyond(i)'
    <3>1. cpus \in [Containers -> Int] /\ Allotted[i] \in Nat
      BY ServedBefore
    <3>2. CASE i = r
      BY <2>1, <2>2, <2>3, <3>1, <3>2
    <3>3. CASE i # r
      <4>1. Running(i) /\ cpus'[i] = cpus[i] /\ Beyond(i)' = 0
        BY <2>1, <2>2, <2>3, <2>4, <3>1, <3>3 DEF Running
      <4>2. cpus[i] <= Allotted[i]
        BY <1>1, <4>1, ServedBefore
      <4> QED
        BY <2>1, <3>1, <4>1, <4>2
    <3> QED
      BY <3>2, <3>3
  <2> QED
    BY <2>4 DEF Served
<1> QED
  BY <1>2, <1>3

LEMMA ServedAccepted ==
    ASSUME Stepping, Accept
    PROVE  Served'
<1>1. /\ Allotted' = Allotted /\ UNCHANGED <<cpus, docker>> /\ att.pc = "accept"
      /\ att' = [att EXCEPT !.pc = "register"] /\ att \in AttentionLocals
  BY KeptAccept, Seen
<1>2. att'.pc = "register" /\ att'.request = att.request /\ att'.give = att.give
  BY <1>1 DEF AttentionLocals
<1>3. \A i : Beyond(i)' = Beyond(i)
  BY <1>1, <1>2 DEF Beyond
<1> QED
  BY <1>1, <1>3, ServedBefore DEF Served, Running

\* docker update is told of no more than the record is going to say.
LEMMA ServedUpdated ==
    ASSUME Stepping, ScheduleUpdate, att'.pc # "dead"
    PROVE  Served'
<1> DEFINE r == att.request.id
           d == att'.give
           c == info[r]
           n == new_parallelism(c, d.inter, d.intra)
           m == d.cost
<1>1. Elsewhere(att.pc) /\ att.pc = "schedule" /\ UNCHANGED info
  BY DEF ScheduleUpdate, Elsewhere, lists
<1>2. Allotted' = Allotted /\ UNCHANGED docker /\ att'.request = att.request
  BY KeptScheduleUpdate
<1>3. CASE att'.pc = "post"
  <2>1. UNCHANGED cpus /\ Elsewhere(att'.pc) /\ \A i \in Containers : Running(i)' => Running(i)
    BY <1>2, <1>3, KeptScheduleUpdate DEF Elsewhere, Running
  <2> QED
    BY <1>1, <1>2, <2>1, ServedElsewhere
<1>4. CASE att'.pc = "updating"
  <2>1. Listed(r) /\ DockerUpdate(r, n) /\ r \in Containers
    BY <1>4, KeptScheduleUpdate, Seen
  <2>2. m = Gained(c, d) /\ m \in Int /\ d.inter \in Int /\ d.intra \in Int /\ c \in ExecutionInfo
    BY <1>1, <1>2, <1>4, <2>1, Seen, SeenNext DEF Granting
  <2>3. Allotted[r] = Parallelism(c)
    BY <2>1, ListedAllotted
  <2>4. \A i : Beyond(i)' = IF r = i THEN m ELSE 0
    BY <1>2, <1>4 DEF Beyond
  <2> HIDE DEF r, c, d
  <2>5. n <= Parallelism(c) + m /\ n \in Int
    <3>1. n <= Parallelism(c) + m
      BY <2>2, WriteGains
    <3>2. n \in Int
      BY <2>2 DEF new_parallelism, ExecutionInfo
    <3> QED
      BY <3>1, <3>2
  <2> HIDE DEF n, m
  <2>6. n <= Allotted[r] + m /\ m \in Int
    BY <2>2, <2>3, <2>5 DEF m
  <2> QED
    BY <1>1, <1>2, <2>1, <2>4, <2>5, <2>6, ServedTold
<1> QED
  BY <1>3, <1>4, KeptScheduleUpdate

LEMMA ServedGiven ==
    ASSUME Stepping, GiveNext
    PROVE  Served'
<1> DEFINE r == Chosen
           d == att'.give
           c == info[r]
           n == new_parallelism(c, d.inter, d.intra)
           m == d.cost
<1>1. Elsewhere(att.pc) /\ UNCHANGED <<info, execInfo_list>> /\ att.idx \in DOMAIN execInfo_list
  BY DEF GiveNext, Elsewhere, lists
<1>2. Allotted' = Allotted /\ UNCHANGED docker
  BY KeptGiveNext
<1>3. CASE att'.pc = "give"
  <2>1. UNCHANGED cpus /\ Elsewhere(att'.pc) /\ \A i \in Containers : Running(i)' => Running(i)
    BY <1>2, <1>3, KeptGiveNext DEF Elsewhere, Running
  <2> QED
    BY <1>1, <1>2, <2>1, ServedElsewhere
<1>4. CASE att'.pc = "given"
  <2>1. att'.idx = att.idx /\ DockerUpdate(r, n)
    BY <1>4, KeptGiveNext
  <2>2. Listed(r) /\ r \in Containers /\ Chosen' = r
    BY <1>1, <2>1, AtChosen DEF Chosen
  <2>3. m = Gained(c, d) /\ m \in Int /\ d.inter \in Int /\ d.intra \in Int /\ c \in ExecutionInfo
    BY <1>1, <1>4, <2>2, Seen, SeenNext DEF Sharing
  <2>4. Allotted[r] = Parallelism(c)
    BY <2>2, ListedAllotted
  <2>5. \A i : Beyond(i)' = IF r = i THEN m ELSE 0
    BY <1>4, <2>2 DEF Beyond
  <2> HIDE DEF r, c, d
  <2>6. n <= Parallelism(c) + m /\ n \in Int
    <3>1. n <= Parallelism(c) + m
      BY <2>3, WriteGains
    <3>2. n \in Int
      BY <2>3 DEF new_parallelism, ExecutionInfo
    <3> QED
      BY <3>1, <3>2
  <2> HIDE DEF n, m
  <2>7. n <= Allotted[r] + m /\ m \in Int
    BY <2>3, <2>4, <2>6 DEF m
  <2> QED
    BY <1>1, <1>2, <2>1, <2>2, <2>5, <2>6, <2>7, ServedTold
<1> QED
  BY <1>3, <1>4, KeptGiveNext

LEMMA ServedStep ==
    ASSUME Stepping
    PROVE  Served'
<1>1. CASE att'.pc = "dead"
  BY <1>1 DEF Served
<1>2. CASE att'.pc # "dead"
  <2>1. ~ SendFails
    BY <1>2, Seen DEF SendFails, AttentionLocals
  <2> QED
    BY <1>2, <2>1, Inside, ServedOutside, ServedQuiet, ServedFinish, ServedJoin, ServedWritten,
       ServedLaunched, ServedAccepted, ServedUpdated, ServedGiven DEF QuietSteps
<1> QED
  BY <1>1, <1>2

LEMMA FitsStep ==
    ASSUME Stepping
    PROVE  NoOversubscription'
<1> DEFINE R == {i \in Containers : Running(i)}
           S == {i \in Containers : Running(i)'}
<1>1. CASE att'.pc # "dead"
  <2>1. PICK j \in Containers, n \in Nat :
           /\ Total(Allotted') + n <= Cores
           /\ \A i \in Containers : Beyond(i)' <= (IF i = j THEN n ELSE 0)
    BY <1>1, RoomForAll
  <2> DEFINE a == Allotted'
             c == cpus'
  <2>2. a \in [Containers -> Nat] /\ c \in [Containers -> Int] /\ S \in SUBSET Containers
    BY ServedBefore, SeenNext
  <2>3. ASSUME NEW i \in S PROVE c[i] <= a[i] + (IF i = j THEN n ELSE 0)
    <3>1. c[i] <= a[i] + Beyond(i)' /\ Beyond(i)' <= (IF i = j THEN n ELSE 0)
      BY <1>1, <2>1, <2>3, ServedStep DEF Served
    <3>2. Beyond(i)' \in Int
      BY SeenNext DEF Beyond
    <3>3. c[i] \in Int /\ a[i] \in Int
      BY <2>2
    <3> DEFINE b == Beyond(i)'
    <3> HIDE DEF a, c, b
    <3> QED
      BY <3>1, <3>2, <3>3 DEF b
  <2>4. Total(a) + n <= Cores
    BY <2>1
  <2> HIDE DEF a, c, S
  <2>5. Total([i \in S |-> c[i]]) <= Cores
    BY <2>2, <2>3, <2>4, FitTogether
  <2> QED
    BY <2>5 DEF NoOversubscription, c, S
<1>2. CASE att'.pc = "dead"
  <2>1. UNCHANGED cpus /\ S \in SUBSET R
    BY <1>2, Silent
  <2> DEFINE f == [i \in R |-> cpus[i]]
             g == [i \in S |-> cpus[i]]
  <2>2. IsFiniteSet(R) /\ f \in [R -> Int] /\ g \in [S -> Int] /\ \A i \in S : g[i] = f[i]
    <3>1. R \in SUBSET Containers /\ cpus \in [Containers -> Int]
      BY Seen
    <3>2. IsFiniteSet(R)
      BY <3>1, SchedulerAssumption, FS_Subset
    <3> QED
      BY <2>1, <3>1, <3>2
  <2>3. Total(f) <= Cores
    BY Seen DEF Within, NoOversubscription
  <2> HIDE DEF f, g, R, S
  <2>4. Total(g) <= Cores
    <3>1. \A i \in S : f[i] \in Int
      BY <2>1, <2>2
    <3>2. \A i \in S : g[i] <= f[i]
      BY <2>2, <3>1
    <3>3. Total(g) \in Nat /\ Total(f) \in Nat /\ Total(g) <= Total(f)
      BY <2>1, <2>2, <3>2, TotalMonotone
    <3> QED
      BY <2>3, <3>3, CoresAssumption
  <2> QED
    BY <2>1, <2>4 DEF NoOversubscription, S, g
<1> QED
  BY <1>1, <1>2

-----------------------------------------------------------------------------
(* The invariant holds.                                                    *)

LEMMA SettledStep ==
    ASSUME Stepping
    PROVE  Settled'
<1>1. RequestsPlain' /\ ThreadEnds' /\ Records' /\ Kept
  BY RequestsStep, ThreadEndsStep, RecordsStep, KeptStep
<1>2. Within'
  BY ServedStep, FitsStep DEF Served, Within
<1> QED
  BY <1>1, <1>2 DEF Settled, Kept

LEMMA NoneAllotted ==
    ASSUME Init
    PROVE  /\ \A i : ~ Listed(i)
           /\ Allotted = [i \in Containers |-> 0] /\ Total(Allotted) = 0
<1> DEFINE a == Allotted
<1>1. execInfo_list = <<>> /\ q_finish_container = <<>> /\ info \in [Containers -> ExecutionInfo]
  BY TypeInit DEF Init, TypeOK
<1>2. Orderly(execInfo_list, info, q_finish_container)
  BY <1>1 DEF Orderly, IsListed
<1>3. /\ a \in [Containers -> Nat] /\ \A i : ~ Listed(i)
      /\ \A i \in Containers : a[i] = 0
  BY <1>1, <1>2, AllottedNow, AllottedIs DEF IsListed
<1> HIDE DEF a
<1>4. a = [i \in Containers |-> 0] /\ a \in [Containers -> Int]
  BY <1>3
<1>5. Total(a) = 0
  BY <1>3, <1>4, TotalZero
<1> QED
  BY <1>3, <1>4, <1>5 DEF a

LEMMA SettledInit ==
    ASSUME Init, Faultless
    PROVE  Settled
<1>1. /\ rows = Workload /\ att.pc = "check" /\ cores_used = 0 /\ q_finish_container = <<>>
      /\ Elements(queue_array) = {} /\ Elements(queue_pending_array) = {}
      /\ Elements(att.q_aux) = {}
      /\ \A t \in Threads : cl[t].pc = "none"
      /\ \A i \in Containers : ~ Running(i)
  BY NoOrder DEF Init, AttentionAt, Running
<1>2. RequestsPlain
  <2>1. Requests = {}
    BY <1>1 DEF Requests, Handling
  <2>2. \A k \in 1 .. Len(rows) : PlainRow(rows[k])
    <3>1. DOMAIN Workload = 1 .. Len(Workload)
      BY SchedulerAssumption
    <3> QED
      BY <1>1, <3>1 DEF PlainRow, Faultless, Uncapped
  <2> QED
    BY <2>1, <2>2 DEF RequestsPlain
<1>3. ThreadEnds
  BY <1>1 DEF ThreadEnds
<1>4. Records
  BY NoneAllotted DEF Records
<1>5. Sharing /\ Granting
  BY <1>1 DEF Sharing, Granting
<1>6. Exact
  BY <1>1, NoneAllotted DEF Exact, Reserved
<1>7. Within
  <2> DEFINE g == [i \in {i \in Containers : Running(i)} |-> cpus[i]]
  <2>1. g \in [{} -> Int]
    BY <1>1
  <2> HIDE DEF g
  <2>2. Total(g) = 0
    BY <2>1, TotalZero
  <2> QED
    BY <1>1, <2>2, CoresAssumption DEF Within, NoOversubscription, g
<1> QED
  BY <1>2, <1>3, <1>4, <1>5, <1>6, <1>7 DEF Settled

\* While no container fails, the inductive invariant holds: what is allotted and what is
\* set aside for the request at hand add up to the cores in use.
THEOREM SettledAlways ==
    ASSUME Faultless
    PROVE  Spec => []Settled
<1>1. Init => Settled
  BY SettledInit
<1>2. IInv /\ Orders /\ Life /\ Settled /\ [Next]_vars => Settled'
  BY SettledStep DEF Stepping
<1>3. Timely
  BY DEF Faultless
<1>4. Spec => []Life
  BY <1>3, OrderlyLife
<1> QED
  BY <1>1, <1>2, <1>4, BoundsHold, OneOrder, PTL DEF Spec

\* Between two rounds the cores in use are exactly those of the containers: while no
\* container fails, none is lost and none is given twice, however many containers there
\* are and whatever the policy.
THEOREM LedgerIsExact ==
    ASSUME Faultless
    PROVE  Spec => []LedgerExact
<1>1. Settled => LedgerExact
  <2>1. SUFFICES ASSUME Settled, att.pc \in {"check", "check2", "towait", "wait"}
                 PROVE  cores_used = Total(Allotted) + Total(Failing)
    BY DEF LedgerExact
  <2>2. Reserved = 0 /\ cores_used = Total(Allotted) + Reserved
    BY <2>1 DEF Settled, Exact, Reserved
  <2>3. Failing \in [{} -> Int]
    BY <2>1 DEF Settled, ThreadEnds, Failing
  <2>4. Total(Failing) = 0
    BY <2>3, TotalZero
  <2> QED
    BY <2>2, <2>4
<1> QED
  BY <1>1, SettledAlways, PTL

\* The --cpus of the containers that run never exceed the machine while no container fails,
\* in the middle of a launch, an update or a reassignment as well.
THEOREM NeverOversubscribed ==
    ASSUME Faultless
    PROVE  Spec => []NoOversubscription
<1>1. Settled => NoOversubscription
  BY DEF Settled, Within
<1> QED
  BY <1>1, SettledAlways, PTL

-----------------------------------------------------------------------------
(* Every step is a step of CoreLedger, or one that it does not see.        *)

LEMMA SameTotal == \A f : Abstract!Total(f) = Total(f)
<1>1. ASSUME NEW f PROVE Abstract!Units(f) = Units(f)
  BY DEF Abstract!Units, Units
<1> QED
  BY <1>1, Zenon DEF Abstract!Total, Total, Abstract!Cardinality, Cardinality

\* What CoreLedger has set aside is what is reserved here.
LEMMA SameReserved ==
    ASSUME Stepping
    PROVE  /\ Reserved \in Int /\ Reserved' \in Int
           /\ att.pc # "dead" => cores_used - Total(Allotted) = Reserved
           /\ att'.pc # "dead" => cores_used' - Total(Allotted') = Reserved'
<1>1. Reserved \in Int
  <2> DEFINE g == att.granted
             a == att.avail
             n == att.give.cost
  <2>1. g \in Int /\ a \in Int /\ n \in Int
    BY Seen
  <2>2. Reserved \in {a, g, g - n, 0}
    BY DEF Reserved
  <2> HIDE DEF g, a, n
  <2> QED
    BY <2>1, <2>2
<1>2. Reserved' \in Int
  BY SeenNext DEF Reserved
<1>3. ASSUME NEW u \in Int, NEW t \in Int, NEW r \in Int, u = t + r PROVE u - t = r
  BY <1>3
<1>4. att.pc # "dead" => cores_used - Total(Allotted) = Reserved
  BY <1>1, <1>3, Seen DEF Exact
<1>5. att'.pc # "dead" => cores_used' - Total(Allotted') = Reserved'
  BY <1>2, <1>3, SeenNext DEF Exact
<1> QED
  BY <1>1, <1>2, <1>4, <1>5

LEMMA IsBetween == \A n \in Int : 0 \in Abstract!Between(0, n) /\ n \in Abstract!Between(0, n)
BY DEF Abstract!Between

\* Nothing is left of what was set aside.
LEMMA GivesBack ==
    ASSUME Stepping, Allotted' = Allotted, Reserved' = 0, att.pc # "dead", att'.pc # "dead"
    PROVE  Abstract!GiveBack
<1> DEFINE t == Total(Allotted)
           r == Reserved
<1>1. /\ r \in Int /\ t \in Int /\ cores_used \in Int /\ cores_used' \in Int
      /\ cores_used - t = r /\ cores_used' - t = 0
  BY SameReserved, Seen, SeenNext
<1>2. Abstract!Reserved = r
  BY SameReserved, SameTotal DEF Abstract!Reserved
<1> HIDE DEF t, r
<1>3. cores_used' = cores_used - r
  <2> DEFINE u == cores_used
             v == cores_used'
  <2>1. u \in Int /\ v \in Int /\ t \in Int /\ r \in Int /\ u - t = r /\ v - t = 0
    BY <1>1
  <2> HIDE DEF u, v
  <2>2. v = u - r
    BY ONLY <2>1
  <2> QED
    BY <2>2 DEF u, v
<1>4. r \in Abstract!Between(0, r)
  BY <1>1, IsBetween
<1> QED
  BY <1>2, <1>3, <1>4 DEF Abstract!GiveBack

\* A container gets of what is set aside, or pays what it owes.
LEMMA AllotsOf ==
    ASSUME Stepping, NEW i, NEW n \in Int, Allots(i, Allotted[i] + n), att.pc # "dead",
           UNCHANGED cores_used, (0 <= n /\ n <= Reserved) \/ (n <= 0 /\ Reserved <= n)
    PROVE  Abstract!Allot
<1>1. /\ i \in Containers /\ Allotted[i] \in Nat /\ Allotted[i] + n \in Nat
      /\ Allotted' = [Allotted EXCEPT ![i] = Allotted[i] + n]
  BY DEF Allots
<1>2. Reserved \in Int /\ Abstract!Reserved = Reserved
  BY SameReserved, SameTotal DEF Abstract!Reserved
<1>3. n \in Abstract!Between(0, Reserved)
  BY <1>2 DEF Abstract!Between
<1>4. Allotted[i] + n >= 0
  BY <1>1
<1>5. Allotted' = [Allotted EXCEPT ![i] = @ + n]
  BY <1>1
<1> QED
  BY <1>1, <1>2, <1>3, <1>4, <1>5 DEF Abstract!Allot

\* Steps that leave the ledger alone.
LedgerRests == UNCHANGED <<cores_used, Allotted>>

LEMMA RestsAlone ==
    ASSUME Stepping, UNCHANGED cores_used,
           ~ RegisterStart, ~ GiveWrite, ~ UpdateWrite, ~ FinishRequest
    PROVE  LedgerRests
BY AllottedSame DEF LedgerRests

LEMMA RestsWaiting ==
    ASSUME Stepping,
           \/ Outside \/ IsFinishQueues \/ IsFinishRest \/ Wait \/ Wake \/ Join
           \/ LockList \/ GiveNext \/ GiveEnd
           \/ ScheduleLaunch \/ Accept \/ RegisterName \/ ScheduleUpdate \/ SendFails
           \/ Pending \/ New \/ PendingEnd \/ NewEnd \/ ExcessRead \/ PostNew \/ Relock
           \/ Occupation
    PROVE  LedgerRests
<1>1. CASE Outside
  BY <1>1, OutsideSame DEF LedgerRests
<1>2. CASE ~ Outside
  <2>1. UNCHANGED cores_used
    <3>1. CASE \/ IsFinishQueues \/ IsFinishRest \/ Wait \/ Wake \/ Join \/ LockList \/ GiveNext
               \/ GiveEnd
      BY <3>1 DEF IsFinishQueues, IsFinishRest, Wait, Wake, Join, LockList, GiveNext, GiveEnd
    <3>3. CASE ScheduleLaunch \/ Accept \/ RegisterName
      BY <3>3, KeptAccept, Zenon DEF ScheduleLaunch, Accept, RegisterName
    <3>2. CASE \/ ScheduleUpdate \/ SendFails \/ Pending \/ New \/ PendingEnd \/ NewEnd
               \/ ExcessRead \/ PostNew \/ Relock \/ Occupation
      BY <3>2 DEF ScheduleUpdate, SendFails, Pending, New, PendingEnd, NewEnd, ExcessRead, PostNew,
                  Relock, Occupation
    <3> QED
      BY <1>2, <3>1, <3>2, <3>3
  <2>2. CASE SendFails
    <3>1. UNCHANGED <<execInfo_list, info, q_finish_container>>
      BY <2>2 DEF SendFails, lists
    <3> QED
      BY <2>1, <3>1, SameAllotted DEF LedgerRests
  <2>3. CASE ~ SendFails
    <3>1. att.pc \notin {"register", "updating", "given", "finish"} \/ GiveNext
      <4>1. CASE IsFinishQueues \/ IsFinishRest \/ Wait \/ Wake \/ Join \/ LockList \/ GiveEnd
        BY <4>1 DEF IsFinishQueues, IsFinishRest, Wait, Wake, Join, LockList, GiveEnd
      <4>2. CASE ScheduleLaunch \/ Accept \/ RegisterName \/ ScheduleUpdate
        <5>1. att.pc \in {"schedule", "accept", "registerName"}
          BY <4>2, Zenon DEF ScheduleLaunch, Accept, RegisterName, ScheduleUpdate
        <5> QED
          BY <5>1
      <4>3. CASE \/ Pending \/ New \/ PendingEnd \/ NewEnd \/ ExcessRead \/ PostNew \/ Relock
                 \/ Occupation
        BY <4>3 DEF Pending, New, PendingEnd, NewEnd, ExcessRead, PostNew, Relock, Occupation
      <4> QED
        BY <1>2, <2>3, <4>1, <4>2, <4>3
    <3>2. ~ GiveNext => ~ RegisterStart /\ ~ GiveWrite /\ ~ UpdateWrite /\ ~ FinishRequest
      BY <3>1 DEF RegisterStart, GiveWrite, UpdateWrite, FinishRequest
    <3>3. GiveNext => Allotted' = Allotted
      BY KeptGiveNext
    <3> QED
      BY <2>1, <3>2, <3>3, RestsAlone DEF LedgerRests
  <2> QED
    BY <2>2, <2>3
<1> QED
  BY <1>1, <1>2

LEMMA Reserves ==
    ASSUME Stepping, Reassign \/ TakeRequest
    PROVE  LedgerRests \/ Abstract!Reserve
<1>1. CASE TakeRequest
  <2>1. /\ att.pc = "take" /\ Allotted' = Allotted /\ cores_used' \in 0 .. Cores
        /\ \E i \in Containers : cores_used' >= cores_used - Allotted[i]
    BY <1>1, KeptTakeRequest
  <2>2. Reserved = 0
    BY <2>1, QuietReserved
  <2>3. Abstract!Reserved = 0
    BY <2>1, <2>2, SameReserved, SameTotal DEF Abstract!Reserved
  <2> QED
    BY <2>1, <2>3 DEF Abstract!Reserve
<1>2. CASE Reassign
  <2> DEFINE avail == check_resources(cores_used)
  <2>1. /\ att.pc = "reassign" /\ UNCHANGED <<execInfo_list, info, q_finish_container>>
        /\ \/ avail > 0 /\ cores_used' = apply_resources(cores_used, avail)
           \/ UNCHANGED cores_used
    BY <1>2 DEF Reassign, lists
  <2>2. Allotted' = Allotted
    BY <2>1, SameAllotted
  <2>3. CASE UNCHANGED cores_used
    BY <2>2, <2>3 DEF LedgerRests
  <2>4. CASE avail > 0 /\ cores_used' = apply_resources(cores_used, avail)
    <3>1. Reserved = 0
      BY <2>1, QuietReserved DEF QuietPcs
    <3>2. Abstract!Reserved = 0
      BY <2>1, <3>1, SameReserved, SameTotal DEF Abstract!Reserved
    <3>3. /\ att.request.id \in Containers /\ Allotted[att.request.id] \in Nat
          /\ cores_used \in Int /\ Cores \in Nat /\ cores_used <= Cores
      BY Seen DEF LedgerBounds
    <3>4. cores_used' = Cores
      BY <2>4, <3>3 DEF check_resources, apply_resources
    <3>5. cores_used' \in 0 .. Cores /\ cores_used' >= cores_used - Allotted[att.request.id]
      BY <3>3, <3>4
    <3> QED
      BY <2>2, <3>2, <3>3, <3>5 DEF Abstract!Reserve
  <2> QED
    BY <2>1, <2>3, <2>4
<1> QED
  BY <1>1, <1>2

LEMMA AllotsSteps ==
    ASSUME Stepping, RegisterStart \/ UpdateWrite \/ GiveWrite
    PROVE  Abstract!Allot
<1> DEFINE n == att.give.cost
           g == att.granted
<1>0. n \in Int /\ g \in Int /\ att.avail \in Int /\ Granting /\ Sharing
      /\ att.give.inter \in Int /\ att.give.intra \in Int
  BY Seen
<1>1. UNCHANGED cores_used
  BY DEF RegisterStart, UpdateWrite, GiveWrite
<1> HIDE DEF n, g
<1>2. CASE RegisterStart
  <2>1. att.pc = "register"
    BY <1>2 DEF RegisterStart
  <2>2. Reserved = g /\ 0 <= n /\ n <= g
    <3>1. /\ att.give.inter >= 1 /\ att.give.intra >= 0
          /\ n = att.give.inter + att.give.intra /\ n <= g
      BY <1>0, <2>1 DEF Granting, n, g
    <3> QED
      BY <1>0, <2>1, <3>1 DEF Reserved, g
  <2>3. Allots(att.request.id, Allotted[att.request.id] + n)
    BY <1>2, KeptRegisterStart DEF n
  <2> QED
    BY <1>0, <1>1, <2>1, <2>2, <2>3, AllotsOf
<1>3. CASE UpdateWrite
  <2>1. att.pc = "updating"
    BY <1>3 DEF UpdateWrite
  <2>2. Reserved = g /\ ((0 <= n /\ n <= g) \/ (n <= 0 /\ g <= n))
    BY <1>0, <2>1 DEF Granting, Reserved, n, g
  <2>3. Allots(att.request.id, Allotted[att.request.id] + n)
    BY <1>3, KeptUpdateWrite DEF n
  <2> QED
    BY <1>0, <1>1, <2>1, <2>2, <2>3, AllotsOf
<1>4. CASE GiveWrite
  <2>1. att.pc = "given"
    BY <1>4 DEF GiveWrite
  <2>2. Reserved = att.avail /\ 0 <= n /\ n <= att.avail
    BY <1>0, <2>1 DEF Sharing, Reserved, n
  <2>3. Allots(Chosen, Allotted[Chosen] + n)
    BY <1>4, KeptGiveWrite DEF n
  <2> QED
    BY <1>0, <1>1, <2>1, <2>2, <2>3, AllotsOf
<1> QED
  BY <1>2, <1>3, <1>4

LEMMA GivesBackSteps ==
    ASSUME Stepping, GiveBack \/ ExcessWrite \/ PostPending \/ PostWrite
    PROVE  Abstract!GiveBack
<1>0. att \in AttentionLocals /\ Granting /\ att.after \in {"pend", "occ"}
  BY Seen DEF AttentionLocals
<1>1. /\ UNCHANGED <<execInfo_list, info, q_finish_container>>
      /\ att.pc \in {"giveback", "excessWrite", "post", "postWrite"}
  BY DEF GiveBack, ExcessWrite, PostPending, PostWrite, lists
<1>2. Allotted' = Allotted
  BY <1>1, SameAllotted
<1>3. att'.pc # "dead" /\ Reserved' = 0
  <2>1. CASE GiveBack
    <3>1. att'.pc \in {"pend", "occ"}
      BY <1>0, <2>1 DEF GiveBack, AttentionLocals
    <3> QED
      BY <3>1 DEF Reserved
  <2>2. CASE ExcessWrite
    <3>1. att.pc = "excessWrite" /\ att.ok
      BY <1>0, <2>2 DEF ExcessWrite, Granting
    <3>2. att'.pc = "post" /\ att'.ok
      BY <1>0, <2>2, <3>1 DEF ExcessWrite, AttentionLocals
    <3> QED
      BY <3>2 DEF Reserved
  <2>3. CASE PostPending
    <3>1. att'.pc = "take"
      BY <1>0, <2>3 DEF PostPending, AttentionLocals
    <3> QED
      BY <3>1 DEF Reserved
  <2>4. CASE PostWrite
    <3>1. att'.pc = "relock"
      BY <1>0, <2>4 DEF PostWrite, AttentionLocals
    <3> QED
      BY <3>1 DEF Reserved
  <2> QED
    BY <2>1, <2>2, <2>3, <2>4
<1> QED
  BY <1>1, <1>2, <1>3, GivesBack

LEMMA ReturnsSteps ==
    ASSUME Stepping, FinishRequest
    PROVE  Abstract!Return
<1> DEFINE h == Head(q_finish_container)
<1>1. Allots(h.id, 0) /\ Allotted[h.id] = h.cores
  BY AllottedReturns
<1>2. att.pc = "finish" /\ cores_used' = free_resources(cores_used, h.cores)
  BY DEF FinishRequest
<1>3. Reserved = 0
  BY <1>2, QuietReserved DEF QuietPcs
<1>4. Abstract!Reserved = 0
  BY <1>2, <1>3, SameReserved, SameTotal DEF Abstract!Reserved
<1> HIDE DEF h
<1>5. cores_used' = cores_used - Allotted[h.id]
  BY <1>1, <1>2 DEF free_resources
<1> QED
  BY <1>1, <1>4, <1>5 DEF Allots, Abstract!Return

LEMMA LedgerSteps ==
    ASSUME Stepping
    PROVE  Abstract!Next \/ LedgerRests
BY Inside, RestsWaiting, Reserves, AllotsSteps, GivesBackSteps, ReturnsSteps DEF Abstract!Next

\* While no container fails, the scheduler implements the ledger: cores are set aside for
\* one decision at a time, containers get no more than was set aside for them, what they do
\* not get is given back, and a container that ends returns all it has.
THEOREM LedgerImplemented ==
    ASSUME Faultless
    PROVE  Spec => ImplementsLedger
<1>1. Init => Abstract!Init
  BY NoneAllotted DEF Init, Abstract!Init
<1>2. IInv /\ Orders /\ Life /\ Settled /\ [Next]_vars => [Abstract!Next]_<<cores_used, Allotted>>
  BY LedgerSteps DEF Stepping, LedgerRests
<1>3. IInv /\ Orders /\ Life /\ Settled /\ [Next]_vars => [Abstract!Next]_(Abstract!vars)
  BY <1>2 DEF Abstract!vars
<1>4. Spec => []Life
  BY OrderlyLife DEF Faultless
<1> QED
  BY <1>1, <1>3, <1>4, SettledAlways, BoundsHold, OneOrder, PTL
     DEF Spec, ImplementsLedger, Abstract!Spec
=============================================================================
