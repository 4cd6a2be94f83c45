-------------------------- MODULE SchedulerProofs ---------------------------
(***************************************************************************)
(* Theorems about module Scheduler, for every value of its constants.      *)
(***************************************************************************)
EXTENDS SchedulerProperties, PolicyTheorems

-----------------------------------------------------------------------------
(* Types.                                                                  *)

\* There is a first queue, every priority has its queue, and the request of a
\* thread that serves none is a request.
LEMMA QueueTypes ==
    /\ 0 \in QueueIds
    /\ \A p \in QueueIds : QueueOf(p) \in QueueIds
    /\ NoRequest \in Request
BY PolicyAssumption, SchedulerAssumption DEF QueueIds, QueueOf, NoRequest, Request

\* add_queue_request and add_pending_queue_request keep the queue array typed.
LEMMA AddRequestType ==
    ASSUME NEW q \in [QueueIds -> Seq(Request)], NEW r \in Request, NEW p \in QueueIds
    PROVE  add_request(q, p, r) \in [QueueIds -> Seq(Request)]
<1>1. QueueOf(p) \in QueueIds
  BY QueueTypes
<1>2. Append(q[QueueOf(p)], r) \in Seq(Request)
  BY <1>1
<1> QED BY <1>1, <1>2 DEF add_request

\* The locals of the attention thread are well typed between two rounds.
LEMMA AttentionAtType ==
    ASSUME NEW pc \in AttentionPcs, NEW factor \in (Nat \ {0}) \X Nat
    PROVE  AttentionAt(pc, factor) \in AttentionLocals
<1>1. NoRequest \in Request /\ NoRequest.id \in Containers
  BY QueueTypes DEF Request
<1> HIDE DEF NoRequest
<1>2. [p \in QueueIds |-> <<>>] \in [QueueIds -> Seq(Request)]
  OBVIOUS
<1> QED BY <1>1, <1>2 DEF AttentionAt, AttentionLocals, Nothing, Give

\* The scheduler starts well typed.
LEMMA TypeInit == Init => TypeOK
<1> SUFFICES ASSUME Init PROVE TypeOK
  OBVIOUS
<1>1. att \in AttentionLocals
  BY AttentionAtType DEF Init, AttentionPcs
<1>2. info \in [Containers -> ExecutionInfo]
  BY QueueTypes DEF Init, ExecutionInfo, States
<1>3. cl \in [Threads -> ClientLocals]
  BY DEF Init, Threads, ClientLocals, ClientPcs
<1>4. dict_client_threads \in [Containers -> -1 .. MaxFaults]
  BY SchedulerAssumption DEF Init
<1>5. rows \in Seq(Row)
  BY SchedulerAssumption DEF Init
<1>6. queue_array \in [QueueIds -> Seq(Request)] /\ queue_pending_array \in [QueueIds -> Seq(Request)]
  BY DEF Init
<1>7. cpus \in [Containers -> Int] /\ cores_used \in Int
  BY DEF Init
<1>8. q_finish_container \in Seq([cores : Nat, id : Containers])
  BY DEF Init
<1>9. /\ execInfo_list \in Seq(Containers) /\ backlog \in Seq(Containers)
      /\ containerName_list \subseteq Containers /\ held \subseteq Locks
  BY DEF Init
<1>10. docker \in [Containers -> {"none", "boot", "up", "finished", "leaving", "exited"}]
  BY DEF Init
<1>11. /\ notified \in BOOLEAN /\ creation_requests_terminate \in BOOLEAN
       /\ gen \in {"read", "notify", "done", "dead"}
  BY DEF Init
<1> QED BY <1>1, <1>2, <1>3, <1>4, <1>5, <1>6, <1>7, <1>8, <1>9, <1>10, <1>11, Zenon DEF TypeOK

\* The request thread keeps the types: every row becomes a request with a
\* natural number of intra threads.
LEMMA TypeGenerator ==
    TypeOK /\ Generator => TypeOK'
<1> SUFFICES ASSUME TypeOK, Generator PROVE TypeOK'
  OBVIOUS
<1> USE DEF lists, queues, world, clients, generator
<1>1. CASE ReadRow
  <2>1. Head(rows) \in Row /\ Tail(rows) \in Seq(Row)
    BY <1>1 DEF TypeOK, ReadRow
  <2>2. RequestOf(Head(rows)) \in Request /\ Head(rows).priority \in QueueIds
    BY <2>1 DEF RequestOf, Request, Row
  <2>3. queue_array' \in [QueueIds -> Seq(Request)]
    BY <1>1, <2>2, AddRequestType DEF TypeOK, ReadRow
  <2> QED BY <1>1, <2>1, <2>3 DEF TypeOK, ReadRow
<1>2. CASE ReadShortRow
  BY <1>2 DEF TypeOK, ReadShortRow
<1>3. CASE NotifyRow
  BY <1>3 DEF TypeOK, NotifyRow, Notify
<1>4. CASE EndRequests
  BY <1>4 DEF TypeOK, EndRequests
<1> QED BY <1>1, <1>2, <1>3, <1>4 DEF Generator

\* The program counters of the attention thread, for the steps that assign one.
LEMMA Pcs ==
    /\ {"check", "check2", "towait", "wait", "finish", "join", "reassign", "lockList", "give",
        "given", "giveback", "pend", "new", "take"} \subseteq AttentionPcs
    /\ {"schedule", "accept", "register", "registerName", "updating", "excess", "excessWrite",
        "post", "postWrite", "relock", "occ", "done", "dead"} \subseteq AttentionPcs
BY DEF AttentionPcs

\* Actions of the attention thread that change nothing but its locals, locks,
\* flags and the ledger.
LEMMA TypeWaiting ==
    ASSUME TypeOK, IsFinishQueues \/ IsFinishRest \/ Wait \/ Wake \/ Finishing
    PROVE  TypeOK'
<1> USE DEF lists, queues, world, clients, generator
<1>0. att \in AttentionLocals /\ held \subseteq Locks /\ cores_used \in Int
  BY DEF TypeOK
<1>1. CASE IsFinishQueues
  <2>1. att' \in AttentionLocals
    <3>1. \A x \in AttentionPcs : [att EXCEPT !.pc = x] \in AttentionLocals
      BY <1>0 DEF AttentionLocals
    <3> QED BY <1>1, <3>1, Pcs DEF IsFinishQueues
  <2>2. held' \subseteq Locks
    BY <1>0, <1>1 DEF IsFinishQueues, Locks
  <2> QED BY <1>1, <2>1, <2>2 DEF TypeOK, IsFinishQueues
<1>2. CASE IsFinishRest
  <2>1. att' \in AttentionLocals
    BY <1>0, <1>2, Pcs DEF IsFinishRest, AttentionLocals
  <2> QED BY <1>2, <2>1 DEF TypeOK, IsFinishRest
<1>3. CASE Wait
  <2>1. att' \in AttentionLocals
    BY <1>0, <1>3, Pcs DEF Wait, AttentionLocals
  <2> QED BY <1>3, <2>1 DEF TypeOK, Wait
<1>4. CASE Wake
  <2>1. att' \in AttentionLocals
    BY <1>0, <1>4, Pcs DEF Wake, AttentionLocals
  <2> QED BY <1>4, <2>1 DEF TypeOK, Wake
<1>5. CASE FinishRequest
  <2> DEFINE T == [cores : Nat, id : Containers]
  <2>1. q_finish_container \in Seq(T) /\ q_finish_container # <<>>
    BY <1>5 DEF TypeOK, FinishRequest
  <2>2. Head(q_finish_container) \in T /\ Tail(q_finish_container) \in Seq(T)
    <3> HIDE DEF T
    <3> QED BY <2>1
  <2>3. att' \in AttentionLocals
    BY <1>0, <1>5, <2>2, Pcs DEF FinishRequest, AttentionLocals
  <2>4. cores_used' \in Int
    BY <1>0, <1>5, <2>2 DEF FinishRequest, free_resources
  <2> QED BY <1>5, <2>2, <2>3, <2>4 DEF TypeOK, FinishRequest
<1>6. CASE Join
  <2>1. att' \in AttentionLocals
    BY <1>0, <1>6, Pcs DEF Join, AttentionLocals
  <2> QED BY <1>6, <2>1 DEF TypeOK, Join
<1> QED BY <1>1, <1>2, <1>3, <1>4, <1>5, <1>6 DEF Finishing

\* A decision of a reassignment is made of integers, and update_parallelism
\* keeps every part of a record natural, whatever integers it is given.
LEMMA ReassignType ==
    ASSUME NEW c \in ExecutionInfo, NEW avail \in Int, NEW share \in Int
    PROVE  /\ Decision(c, avail, share) \in [inter : Int, intra : Int, cost : Int]
           /\ \A x, y \in Int : /\ update_parallelism(c, x, y) \in ExecutionInfo
                               /\ new_parallelism(c, x, y) \in Int
<1>0. c.inter \in Nat /\ c.intra \in Nat /\ c.inter_user \in Nat /\ c.intra_user \in Nat
  BY DEF ExecutionInfo
<1>1. Decision(c, avail, share) \in [inter : Int, intra : Int, cost : Int]
  BY <1>0, PolicyAssumption
     DEF Decision, MaxPropDecision, StrictDecision, Required, Give, Nothing
<1>3. ASSUME NEW x \in Int, NEW y \in Int PROVE update_parallelism(c, x, y) \in ExecutionInfo
  <2> DEFINE u == IF x > 0 THEN x ELSE c.inter_user
             v == IF y > 0 THEN y ELSE c.intra_user
             e == IF x > 0 THEN x ELSE c.inter
             f == IF y > 0 THEN y ELSE c.intra
  <2>1. u \in Nat /\ v \in Nat /\ e \in Nat /\ f \in Nat
    BY <1>0
  <2>2. update_parallelism(c, x, y) =
          [c EXCEPT !.inter_user = u, !.inter = e, !.intra_user = v, !.intra = f]
    BY DEF update_parallelism
  <2> HIDE DEF u, v, e, f
  <2> QED BY <2>1, <2>2 DEF ExecutionInfo
<1>4. \A x, y \in Int : new_parallelism(c, x, y) \in Int
  BY <1>0 DEF new_parallelism
<1> QED BY <1>1, <1>3, <1>4

\* The steps of strict_reassigment and maxprop_reassigment keep the types.
LEMMA TypeReassigning ==
    ASSUME TypeOK, Reassigning
    PROVE  TypeOK'
<1> USE DEF lists, queues, world, clients, generator
<1>0. /\ att \in AttentionLocals /\ held \subseteq Locks /\ cores_used \in Int
      /\ execInfo_list \in Seq(Containers) /\ info \in [Containers -> ExecutionInfo]
      /\ cpus \in [Containers -> Int]
  BY DEF TypeOK
<1>z. att \in AttentionLocals
  BY DEF TypeOK
<1>a. /\ att.avail \in Int /\ att.share \in Int /\ att.idx \in Nat /\ att.after \in {"pend", "occ"}
      /\ att.give.inter \in Int /\ att.give.intra \in Int /\ att.give.cost \in Int
  BY <1>z DEF AttentionLocals
<1>b. /\ \A x \in AttentionPcs : [att EXCEPT !.pc = x] \in AttentionLocals
      /\ \A x \in AttentionPcs, y \in Int : [att EXCEPT !.avail = y, !.pc = x] \in AttentionLocals
  BY <1>z DEF AttentionLocals
<1>c. att.after \in AttentionPcs
  BY <1>a, Pcs
<1>1. CASE Reassign
  <2>1. cores_used' \in Int
    BY <1>0, <1>1, CoresAssumption DEF Reassign, check_resources, apply_resources
  <2>2. check_resources(cores_used) \in Int
    BY <1>0, CoresAssumption DEF check_resources
  <2>3. att' \in AttentionLocals
    <3> DEFINE avail == check_resources(cores_used)
               x == IF Assignment = "max_prop" /\ execInfo_list = <<>> THEN "giveback" ELSE "lockList"
    <3>1. x \in AttentionPcs
      BY Pcs
    <3>2. att' \in {[att EXCEPT !.avail = avail, !.pc = x], [att EXCEPT !.pc = att.after]}
      BY <1>1 DEF Reassign
    <3> HIDE DEF avail, x
    <3> QED BY <1>b, <1>c, <2>2, <3>1, <3>2 DEF avail
  <2> QED BY <1>1, <2>1, <2>3 DEF TypeOK, Reassign
<1>2. CASE LockList
  <2>1. Len(execInfo_list) \in Nat /\ (execInfo_list # <<>> => Len(execInfo_list) # 0)
    BY <1>0
  <2>2. ASSUME NEW n \in Nat \ {0} PROVE maxprop_factor(att.avail, n) \in Int
    BY <1>a DEF maxprop_factor
  <2>3. \A x \in AttentionPcs, y \in Nat, z \in Int :
           [att EXCEPT !.pc = x, !.idx = y, !.share = z] \in AttentionLocals
    BY <1>z DEF AttentionLocals
  <2>4. att' \in AttentionLocals
    <3>1. CASE Assignment = "max_prop" /\ execInfo_list = <<>>
      BY <1>2, <3>1, <1>b, Pcs DEF LockList
    <3>2. CASE ~ (Assignment = "max_prop" /\ execInfo_list = <<>>)
      <4> DEFINE x == IF SkipsEverybody THEN Len(execInfo_list) + 1 ELSE 1
                 y == IF Assignment = "max_prop"
                      THEN maxprop_factor(att.avail, Len(execInfo_list)) ELSE 0
      <4>1. x \in Nat
        BY <2>1
      <4>2. y \in Int
        BY <3>2, <2>1, <2>2
      <4>3. att' = [att EXCEPT !.pc = "give", !.idx = x, !.share = y]
        BY <1>2, <3>2 DEF LockList
      <4> QED BY <4>1, <4>2, <4>3, <2>3, Pcs
    <3> QED BY <3>1, <3>2
  <2>5. held' \subseteq Locks
    BY <1>0, <1>2 DEF LockList, Locks
  <2> QED BY <1>2, <2>4, <2>5 DEF TypeOK, LockList
<1>3. CASE GiveNext
  <2> DEFINE i == execInfo_list[att.idx]
             d == Decision(info[i], att.avail, att.share)
             n == new_parallelism(info[i], d.inter, d.intra)
  <2>1. i \in Containers /\ info[i] \in ExecutionInfo
    BY <1>0, <1>3 DEF GiveNext
  <2>2. d \in [inter : Int, intra : Int, cost : Int]
    BY <1>a, <2>1, ReassignType
  <2>3. n \in Int
    BY <1>a, <2>1, <2>2, ReassignType
  <2>4. /\ [att EXCEPT !.idx = @ + 1] \in AttentionLocals
        /\ [att EXCEPT !.pc = "given", !.give = d] \in AttentionLocals
    <3> HIDE DEF d
    <3>1. [att EXCEPT !.idx = @ + 1] \in AttentionLocals
      <4> DEFINE k == att.idx + 1
      <4>1. k \in Nat
        BY <1>a
      <4> HIDE DEF k
      <4>2. [att EXCEPT !.idx = k] \in AttentionLocals
        BY <1>z, <4>1 DEF AttentionLocals
      <4> QED BY <4>2 DEF k
    <3>2. "given" \in AttentionPcs
      BY Pcs
    <3>3. [att EXCEPT !.pc = "given", !.give = d] \in AttentionLocals
      BY <1>z, <2>2, <3>2 DEF AttentionLocals
    <3> QED BY <3>1, <3>3
  <2>5. att' \in {[att EXCEPT !.idx = @ + 1], [att EXCEPT !.pc = "given", !.give = d]}
    BY <1>3 DEF GiveNext
  <2>6. cpus' \in [Containers -> Int]
    <3>1. cpus' = cpus \/ cpus' = [cpus EXCEPT ![i] = IF docker[i] = "none" THEN @ ELSE n]
      BY <1>3 DEF GiveNext, DockerUpdate
    <3> HIDE DEF n, i
    <3> QED BY <3>1, <1>0, <2>1, <2>3
  <2>7. att' \in AttentionLocals
    BY <2>4, <2>5
  <2> QED BY <1>3, <2>6, <2>7 DEF TypeOK, GiveNext
<1>4. CASE GiveWrite
  <2> DEFINE i == execInfo_list[att.idx]
             u == update_parallelism(info[i], att.give.inter, att.give.intra)
  <2>1. i \in Containers /\ info[i] \in ExecutionInfo
    BY <1>0, <1>4 DEF GiveWrite
  <2>2. u \in ExecutionInfo
    BY <1>a, <2>1, ReassignType
  <2>3. info' \in [Containers -> ExecutionInfo]
    <3>1. info' = [info EXCEPT ![i] = IF Assignment = "max_prop"
                                      THEN [u EXCEPT !.state = "update"] ELSE u]
      BY <1>4 DEF GiveWrite
    <3> HIDE DEF u, i
    <3>2. [u EXCEPT !.state = "update"] \in ExecutionInfo
      BY <2>2 DEF ExecutionInfo, States
    <3> QED BY <1>0, <2>1, <2>2, <3>1, <3>2
  <2>4. att' \in AttentionLocals
    <3> DEFINE k == att.idx + 1
               y == att.avail - att.give.cost
    <3>1. "give" \in AttentionPcs /\ k \in Nat /\ y \in Int
      BY <1>a, Pcs
    <3>2. att' = [att EXCEPT !.pc = "give", !.idx = k, !.avail = y]
      BY <1>4 DEF GiveWrite
    <3> HIDE DEF k, y
    <3> QED BY <1>z, <3>1, <3>2 DEF AttentionLocals
  <2> QED BY <1>4, <2>3, <2>4 DEF TypeOK, GiveWrite
<1>5. CASE GiveEnd
  <2>1. att' \in AttentionLocals
    BY <1>5, <1>b, <1>c, Pcs DEF GiveEnd
  <2> QED BY <1>5, <2>1 DEF TypeOK, GiveEnd
<1>6. CASE GiveBack
  <2>1. att' \in AttentionLocals
    <3> DEFINE y == 0
    <3>1. y \in Int /\ att' = [att EXCEPT !.pc = att.after, !.avail = y]
      BY <1>6 DEF GiveBack
    <3> HIDE DEF y
    <3> QED BY <1>z, <1>c, <3>1 DEF AttentionLocals
  <2>2. cores_used' \in Int
    BY <1>6, <1>0, <1>a DEF GiveBack, free_resources
  <2> QED BY <1>6, <2>1, <2>2 DEF TypeOK, GiveBack
<1> QED BY <1>1, <1>2, <1>3, <1>4, <1>5, <1>6 DEF Reassigning

\* What the attention thread may know about the state it reads.
LEMMA Known ==
    ASSUME TypeOK
    PROVE  /\ att \in AttentionLocals /\ att.request \in Request /\ att.give.inter \in Int
           /\ att.give.intra \in Int /\ att.give.cost \in Int /\ att.granted \in Int
           /\ att.avail \in Int /\ att.tmp \in Int /\ att.attemps \in Nat
           /\ att.factor \in (Nat \ {0}) \X Nat /\ att.q_aux \in [QueueIds -> Seq(Request)]
           /\ att.phase \in {"pending", "new"} /\ held \subseteq Locks /\ cores_used \in Int
           /\ check_resources(cores_used) \in Int
<1>1. att \in AttentionLocals /\ held \subseteq Locks /\ cores_used \in Int
  BY DEF TypeOK
<1>2. check_resources(cores_used) \in Int
  BY <1>1, CoresAssumption DEF check_resources
<1> QED BY <1>1, <1>2 DEF AttentionLocals

\* The fields of a request.
LEMMA RequestFields ==
    ASSUME NEW r \in Request
    PROVE  /\ r.kind \in {"Start", "Update", "Restart"} /\ r.id \in Containers
           /\ r.inter \in Nat /\ r.intra \in Nat /\ r.priority \in QueueIds
BY DEF Request

\* schedule_resources reserves or frees an integer number of cores.
LEMMA RequestedType ==
    ASSUME TypeOK, NEW r \in Request, NEW avail \in Int
    PROVE  schedule_resources(r, avail) \in Int
<1>1. r.id \in Containers /\ r.inter \in Nat /\ r.intra \in Nat
  BY RequestFields
<1>2. info[r.id] \in ExecutionInfo
  BY <1>1 DEF TypeOK
<1>3. Parallelism(info[r.id]) \in Nat
  BY <1>2 DEF Parallelism, ExecutionInfo
<1>4. Requested(r) \in Int
  BY <1>1, <1>3 DEF Requested
<1> QED BY <1>4 DEF schedule_resources

\* The loops over pending and new requests keep the types.
LEMMA TypeTaking ==
    ASSUME TypeOK, Pending \/ New \/ TakeRequest \/ PendingEnd \/ NewEnd
    PROVE  TypeOK'
<1> USE DEF lists, queues, world, clients, generator
<1>1. CASE Pending
  <2>1. held' \subseteq Locks
    <3>1. held' \subseteq held \cup {"requests", "systemInfo", "execInfo"}
      BY <1>1 DEF Pending
    <3> QED BY <3>1, Known DEF Locks
  <2> DEFINE avail == check_resources(cores_used)
             f == IF Assignment = "max_prop" THEN calculate_factor_prop(avail) ELSE att.factor
  <2>2. avail > 0 => f \in (Nat \ {0}) \X Nat
    BY Known DEF calculate_factor_prop
  <2>3. avail \in Int
    BY Known
  <2>4. \/ att' \in {[att EXCEPT !.pc = "dead"], [att EXCEPT !.pc = "new"]}
        \/ /\ avail > 0
           /\ att' = [att EXCEPT !.pc = "take", !.phase = "pending", !.avail = avail, !.factor = f]
    BY <1>1 DEF Pending
  <2> HIDE DEF avail, f
  <2>5. att' \in AttentionLocals
    <3>1. att \in AttentionLocals
      BY Known
    <3>2. CASE att' \in {[att EXCEPT !.pc = "dead"], [att EXCEPT !.pc = "new"]}
      BY <3>1, <3>2, Pcs DEF AttentionLocals
    <3>3. CASE /\ avail > 0
               /\ att' = [att EXCEPT !.pc = "take", !.phase = "pending", !.avail = avail, !.factor = f]
      <4>1. "take" \in AttentionPcs
        BY Pcs
      <4> QED BY <3>1, <3>3, <4>1, <2>2, <2>3 DEF AttentionLocals
    <3> QED BY <2>4, <3>2, <3>3
  <2> QED BY <1>1, <2>1, <2>5 DEF TypeOK, Pending
<1>2. CASE New
  <2>1. held' \subseteq Locks
    BY <1>2, Known DEF New, Locks
  <2> DEFINE avail == check_resources(cores_used)
  <2>2. avail \in Int
    BY Known
  <2>3. att' \in {[att EXCEPT !.pc = "take", !.phase = "new", !.avail = avail],
                  [att EXCEPT !.pc = "reassign", !.after = "occ"]}
    BY <1>2 DEF New
  <2> HIDE DEF avail
  <2>4. att' \in AttentionLocals
    <3>1. att \in AttentionLocals /\ "take" \in AttentionPcs /\ "reassign" \in AttentionPcs
      BY Known, Pcs
    <3>2. [att EXCEPT !.pc = "take", !.phase = "new", !.avail = avail] \in AttentionLocals
      BY <2>2, <3>1 DEF AttentionLocals
    <3>3. [att EXCEPT !.pc = "reassign", !.after = "occ"] \in AttentionLocals
      BY <3>1 DEF AttentionLocals
    <3> QED BY <2>3, <3>2, <3>3
  <2> QED BY <1>2, <2>1, <2>4 DEF TypeOK, New
<1>3. CASE TakeRequest
  <2> DEFINE q == IF att.phase = "pending" THEN queue_pending_array ELSE queue_array
  <2>1. PICK p \in QueueIds :
          LET r == Head(q[p])
              granted == schedule_resources(r, att.avail)
          IN  /\ IsFirstNonEmpty(q, p)
              /\ IF att.phase = "pending"
                 THEN /\ queue_pending_array' = [q EXCEPT ![p] = Tail(@)]
                      /\ UNCHANGED queue_array
                 ELSE /\ queue_array' = [q EXCEPT ![p] = Tail(@)]
                      /\ UNCHANGED queue_pending_array
              /\ cores_used' = IF granted > 0 THEN apply_resources(cores_used, granted)
                               ELSE free_resources(cores_used, -granted)
              /\ held' = IF att.phase = "new" \/ granted # 0 THEN held \ {"systemInfo"} ELSE held
              /\ att' = [att EXCEPT !.pc = IF granted # 0 THEN "schedule" ELSE "post",
                                    !.request = r, !.granted = granted, !.ok = FALSE]
    BY <1>3 DEF TakeRequest
  <2> DEFINE r == Head(q[p])
             granted == schedule_resources(r, att.avail)
             pc == IF granted # 0 THEN "schedule" ELSE "post"
  <2>2. q \in [QueueIds -> Seq(Request)]
    BY DEF TypeOK
  <2>3. q[p] # <<>>
    BY <2>1 DEF IsFirstNonEmpty
  <2>4. r \in Request /\ [q EXCEPT ![p] = Tail(@)] \in [QueueIds -> Seq(Request)]
    <3> HIDE DEF q
    <3>1. q[p] \in Seq(Request)
      BY <2>2
    <3>2. Head(q[p]) \in Request /\ Tail(q[p]) \in Seq(Request)
      BY <2>3, <3>1
    <3> QED BY <2>2, <3>2
  <2>5. granted \in Int
    BY <2>4, Known, RequestedType
  <2>6. pc \in AttentionPcs
    BY Pcs
  <2>7. /\ queue_array' \in [QueueIds -> Seq(Request)]
        /\ queue_pending_array' \in [QueueIds -> Seq(Request)]
    <3>1. queue_array \in [QueueIds -> Seq(Request)] /\ queue_pending_array \in [QueueIds -> Seq(Request)]
      BY DEF TypeOK
    <3>2. CASE att.phase = "pending"
      BY <2>1, <2>4, <3>1, <3>2
    <3>3. CASE att.phase # "pending"
      BY <2>1, <2>4, <3>1, <3>3
    <3> QED BY <3>2, <3>3
  <2>8. cores_used' = (IF granted > 0 THEN apply_resources(cores_used, granted)
                       ELSE free_resources(cores_used, -granted))
    BY <2>1
  <2>9. att' = [att EXCEPT !.pc = pc, !.request = r, !.granted = granted, !.ok = FALSE]
    BY <2>1
  <2>10. held' \subseteq Locks
    BY <2>1, Known
  <2> HIDE DEF granted, r, pc
  <2>11. cores_used' \in Int
    <3>1. cores_used \in Int
      BY Known
    <3> QED BY <2>5, <2>8, <3>1, CoresAssumption DEF apply_resources, free_resources, check_resources
  <2>12. att' \in AttentionLocals
    <3>1. att \in AttentionLocals
      BY Known
    <3> QED BY <3>1, <2>4, <2>5, <2>6, <2>9 DEF AttentionLocals
  <2> QED BY <1>3, <2>7, <2>10, <2>11, <2>12 DEF TypeOK, TakeRequest
<1>4. CASE PendingEnd
  <2> DEFINE q == [p \in QueueIds |-> <<>>]
  <2>1. /\ q \in [QueueIds -> Seq(Request)] /\ att.q_aux \in [QueueIds -> Seq(Request)]
        /\ att \in AttentionLocals /\ "new" \in AttentionPcs
    BY Known, Pcs
  <2>2. att' = [att EXCEPT !.pc = "new", !.q_aux = q]
    BY <1>4 DEF PendingEnd
  <2> HIDE DEF q
  <2>3. att' \in AttentionLocals
    BY <2>1, <2>2 DEF AttentionLocals
  <2> QED BY <1>4, <2>1, <2>3 DEF TypeOK, PendingEnd
<1>5. CASE NewEnd
  <2>1. att \in AttentionLocals /\ "reassign" \in AttentionPcs
    BY Known, Pcs
  <2>2. att' \in AttentionLocals
    BY <1>5, <2>1 DEF NewEnd, AttentionLocals
  <2> QED BY <1>5, <2>2 DEF TypeOK, NewEnd
<1> QED BY <1>1, <1>2, <1>3, <1>4, <1>5

\* What follows schedule_request keeps the types.
LEMMA TypePost ==
    ASSUME TypeOK, \/ ExcessRead \/ ExcessWrite \/ PostPending \/ PostNew \/ PostWrite
                   \/ Relock \/ Occupation
    PROVE  TypeOK'
<1> USE DEF lists, queues, world, clients, generator
<1>0. att \in AttentionLocals
  BY Known
<1> DEFINE zero == 0
           none == Nothing
           idle == NoRequest
<1>a. zero \in Int /\ none \in [inter : Int, intra : Int, cost : Int] /\ idle \in Request
  BY QueueTypes DEF Nothing, Give
<1>b. \A x \in AttentionPcs, y \in Int :
         [att EXCEPT !.pc = x, !.tmp = y] \in AttentionLocals
  BY <1>0 DEF AttentionLocals
<1>1. CASE ExcessRead
  <2>1. att' \in AttentionLocals
    BY <1>1, <1>b, Known, Pcs DEF ExcessRead
  <2> QED BY <1>1, <2>1 DEF TypeOK, ExcessRead
<1>2. CASE ExcessWrite
  <2>1. att' = [att EXCEPT !.pc = "post", !.tmp = zero]
    BY <1>2 DEF ExcessWrite
  <2>2. att' \in AttentionLocals
    <3> HIDE DEF zero
    <3> QED BY <1>a, <1>b, <2>1, Pcs
  <2>3. cores_used' \in Int
    BY <1>2, Known DEF ExcessWrite, free_resources
  <2> QED BY <1>2, <2>2, <2>3 DEF TypeOK, ExcessWrite
<1>3. CASE PostPending
  <2> DEFINE q == IF att.ok THEN att.q_aux ELSE add_request(att.q_aux, att.request.priority, att.request)
             avail == check_resources(cores_used')
  <2>1. q \in [QueueIds -> Seq(Request)]
    BY Known, AddRequestType, RequestFields
  <2>2. cores_used' \in Int
    BY <1>3, Known DEF PostPending, free_resources
  <2>3. avail \in Int
    BY <2>2, CoresAssumption DEF check_resources
  <2>4. att' = [att EXCEPT !.pc = "take", !.avail = avail, !.request = idle, !.granted = zero,
                           !.give = none, !.ok = FALSE, !.q_aux = q]
    BY <1>3 DEF PostPending
  <2>5. att' \in AttentionLocals
    <3>1. "take" \in AttentionPcs
      BY Pcs
    <3> HIDE DEF zero, none, idle, q, avail
    <3> QED BY <1>0, <1>a, <2>1, <2>3, <2>4, <3>1 DEF AttentionLocals
  <2>6. held' \subseteq Locks
    BY <1>3, Known DEF PostPending, Locks
  <2> QED BY <1>3, <2>2, <2>5, <2>6 DEF TypeOK, PostPending
<1>4. CASE PostNew
  <2>1. queue_pending_array' \in [QueueIds -> Seq(Request)]
    <3>1. queue_pending_array \in [QueueIds -> Seq(Request)]
      BY DEF TypeOK
    <3>2. add_request(queue_pending_array, att.request.priority, att.request) \in [QueueIds -> Seq(Request)]
      BY <3>1, Known, AddRequestType, RequestFields
    <3> QED BY <1>4, <3>1, <3>2 DEF PostNew
  <2>2. att' \in {[att EXCEPT !.pc = "relock"], [att EXCEPT !.pc = "postWrite", !.tmp = cores_used]}
    BY <1>4 DEF PostNew
  <2>3. [att EXCEPT !.pc = "relock"] \in AttentionLocals
    BY <1>0, Pcs DEF AttentionLocals
  <2>4. att' \in AttentionLocals
    <3>1. [att EXCEPT !.pc = "postWrite", !.tmp = cores_used] \in AttentionLocals
      BY <1>b, Known, Pcs
    <3> QED BY <2>2, <2>3, <3>1
  <2> QED BY <1>4, <2>1, <2>4 DEF TypeOK, PostNew
<1>5. CASE PostWrite
  <2>1. att' = [att EXCEPT !.pc = "relock", !.tmp = zero]
    BY <1>5 DEF PostWrite
  <2>2. att' \in AttentionLocals
    <3> HIDE DEF zero
    <3> QED BY <1>a, <1>b, <2>1, Pcs
  <2>3. cores_used' \in Int
    BY <1>5, Known DEF PostWrite, free_resources
  <2> QED BY <1>5, <2>2, <2>3 DEF TypeOK, PostWrite
<1>6. CASE Relock
  <2> DEFINE avail == check_resources(cores_used)
  <2>1. avail \in Int /\ "take" \in AttentionPcs
    BY Known, Pcs
  <2>2. att' = [att EXCEPT !.pc = "take", !.avail = avail, !.request = idle, !.granted = zero,
                           !.give = none, !.ok = FALSE]
    BY <1>6 DEF Relock
  <2>3. att' \in AttentionLocals
    <3> HIDE DEF zero, none, idle, avail
    <3> QED BY <1>0, <1>a, <2>1, <2>2 DEF AttentionLocals
  <2>4. held' \subseteq Locks
    BY <1>6, Known DEF Relock, Locks
  <2> QED BY <1>6, <2>3, <2>4 DEF TypeOK, Relock
<1>7. CASE Occupation
  <2>1. att' \in {[att EXCEPT !.pc = "dead"], AttentionAt("check", att.factor)}
    BY <1>7 DEF Occupation
  <2>2. [att EXCEPT !.pc = "dead"] \in AttentionLocals
    BY <1>0, Pcs DEF AttentionLocals
  <2>3. AttentionAt("check", att.factor) \in AttentionLocals
    BY Known, Pcs, AttentionAtType
  <2>4. held' \subseteq Locks
    BY <1>7, Known DEF Occupation, Locks
  <2> QED BY <1>7, <2>1, <2>2, <2>3, <2>4 DEF TypeOK, Occupation
<1> QED BY <1>1, <1>2, <1>3, <1>4, <1>5, <1>6, <1>7

\* Launching a container and registering it keeps the types.
LEMMA TypeLaunching ==
    ASSUME TypeOK, LaunchGive, Launching \/ AcceptTimeout
    PROVE  TypeOK' /\ LaunchGive'
<1> USE DEF lists, queues, world, clients, generator
<1>0. att \in AttentionLocals
  BY Known
<1>a. \A x \in AttentionPcs : /\ [att EXCEPT !.pc = x] \in AttentionLocals
                             /\ [att EXCEPT !.ok = TRUE, !.pc = x] \in AttentionLocals
  BY <1>0 DEF AttentionLocals
<1>b. AfterSchedule(att.give) \in AttentionPcs
  BY Pcs DEF AfterSchedule
<1>c. AfterSchedule(att.give) \notin {"accept", "register"}
  BY DEF AfterSchedule
<1>d. att.request.id \in Containers /\ att.request.priority \in QueueIds
      /\ att.request.inter \in Nat /\ att.request.intra \in Nat
  BY Known, RequestFields
<1>1. CASE ScheduleLaunch
  <2> DEFINE r == att.request
             p == schedule_parallelism(att.granted, r.inter, r.intra, att.factor)
             g == Give(p[1], p[2], p[1] + p[2])
             none == 0
  <2>1. p # <<>> => p \in Nat \X Nat
    BY Known, <1>d, GrantNat
  <2>2. p # <<>> => /\ g \in [inter : Int, intra : Int, cost : Int]
                    /\ g.inter \in Nat /\ g.intra \in Nat
    <3> HIDE DEF p
    <3> QED BY <2>1 DEF Give
  <2>3. docker \in [Containers -> {"none", "boot", "up", "finished", "leaving", "exited"}]
        /\ cpus \in [Containers -> Int]
    BY DEF TypeOK
  <2>4. CASE p # <<>> /\ docker' = [docker EXCEPT ![r.id] = "boot"]
             /\ cpus' = [cpus EXCEPT ![r.id] = p[1] + p[2]]
             /\ att' = [att EXCEPT !.pc = "accept", !.attemps = none, !.give = g]
    <3>1. p[1] + p[2] \in Int
      <4> HIDE DEF p
      <4> QED BY <2>1, <2>4
    <3>2. none \in Nat /\ "accept" \in AttentionPcs
      BY Pcs
    <3>3. cpus' \in [Containers -> Int]
      <4> HIDE DEF p
      <4> QED BY <2>3, <2>4, <3>1
    <3> HIDE DEF none, p, g
    <3>4. att' \in AttentionLocals /\ att'.give = g
      BY <1>0, <2>2, <2>4, <3>2 DEF AttentionLocals
    <3>5. docker' \in [Containers -> {"none", "boot", "up", "finished", "leaving", "exited"}]
      BY <2>3, <2>4
    <3>6. LaunchGive'
      BY <2>2, <2>4, <3>4 DEF LaunchGive
    <3> QED BY <1>1, <3>3, <3>4, <3>5, <3>6 DEF TypeOK, ScheduleLaunch
  <2>5. CASE /\ att' \in {[att EXCEPT !.pc = "post"], [att EXCEPT !.pc = "dead"]}
             /\ docker' \in {docker, StopContainer(r.id)}
             /\ cpus' = cpus
    <3>1. StopContainer(r.id)
            \in [Containers -> {"none", "boot", "up", "finished", "leaving", "exited"}]
      BY <2>3 DEF StopContainer, Pruned
    <3>2. att' \in AttentionLocals /\ att'.pc \in {"post", "dead"}
      <4>1. CASE att' = [att EXCEPT !.pc = "post"]
        BY <1>0, <4>1, Pcs DEF AttentionLocals
      <4>2. CASE att' = [att EXCEPT !.pc = "dead"]
        BY <1>0, <4>2, Pcs DEF AttentionLocals
      <4> QED BY <2>5, <4>1, <4>2
    <3>3. LaunchGive'
      BY <3>2 DEF LaunchGive
    <3> QED BY <1>1, <2>3, <2>5, <3>1, <3>2, <3>3 DEF TypeOK, ScheduleLaunch
  <2> QED BY <1>1, <2>4, <2>5 DEF ScheduleLaunch
<1>2. CASE Accept
  <2>1. PICK n \in 0 .. MaxFaults :
          /\ dict_client_threads' = [dict_client_threads EXCEPT ![att.request.id] = n]
          /\ cl' = [cl EXCEPT ![<<att.request.id, n>>].pc = "init",
                              ![<<att.request.id, n>>].peer = Head(backlog)]
    BY <1>2 DEF Accept
  <2>2. Head(backlog) \in Containers /\ Tail(backlog) \in Seq(Containers)
    <3>1. backlog \in Seq(Containers) /\ backlog # <<>>
      BY <1>2 DEF Accept, TypeOK
    <3> QED BY <3>1
  <2>3. dict_client_threads' \in [Containers -> -1 .. MaxFaults]
    <3>1. dict_client_threads \in [Containers -> -1 .. MaxFaults] /\ n \in -1 .. MaxFaults
      BY SchedulerAssumption DEF TypeOK
    <3> QED BY <2>1, <3>1
  <2>4. cl' \in [Threads -> ClientLocals]
    <3>1. cl \in [Threads -> ClientLocals] /\ <<att.request.id, n>> \in Threads
      BY <1>d DEF TypeOK, Threads
    <3>2. \A l \in ClientLocals, x \in Containers :
             [l EXCEPT !.pc = "init", !.peer = x] \in ClientLocals
      BY DEF ClientLocals, ClientPcs
    <3>3. cl' = [cl EXCEPT ![<<att.request.id, n>>] =
                    [@ EXCEPT !.pc = "init", !.peer = Head(backlog)]]
      BY <2>1, <3>1
    <3> QED BY <2>2, <3>1, <3>2, <3>3
  <2>5. att' \in AttentionLocals /\ att'.give = att.give
    BY <1>0, <1>2, Pcs DEF Accept, AttentionLocals
  <2>6. backlog' = Tail(backlog)
    BY <1>2 DEF Accept
  <2>7. LaunchGive'
    BY <1>2, <2>5 DEF LaunchGive, Accept
  <2> QED BY <1>2, <2>2, <2>3, <2>4, <2>5, <2>6, <2>7 DEF TypeOK, Accept
<1>3. CASE AcceptTimeout
  <2> DEFINE n == att.attemps + 1
             x == IF att.attemps + 1 = MaxAttempts THEN AfterSchedule(att.give) ELSE "accept"
  <2>1. n \in Nat /\ x \in AttentionPcs
    BY <1>b, Known, Pcs
  <2>2. att' = [att EXCEPT !.attemps = n, !.pc = x] /\ att.pc = "accept"
    BY <1>3 DEF AcceptTimeout
  <2> HIDE DEF n, x
  <2>3. att' \in AttentionLocals /\ att'.give = att.give
    BY <1>0, <2>1, <2>2 DEF AttentionLocals
  <2>4. LaunchGive'
    BY <2>2, <2>3 DEF LaunchGive
  <2> QED BY <1>3, <2>3, <2>4 DEF TypeOK, AcceptTimeout
<1>4. CASE RegisterRestart
  <2> DEFINE i == att.request.id
             e == [info[i] EXCEPT !.inter = att.give.inter, !.intra = att.give.intra, !.state = "start"]
  <2>1. info \in [Containers -> ExecutionInfo] /\ i \in Containers
    BY <1>d DEF TypeOK
  <2>2. att.give.inter \in Nat /\ att.give.intra \in Nat
    BY <1>4 DEF RegisterRestart, LaunchGive
  <2>3. e \in ExecutionInfo
    <3>1. info[i] \in ExecutionInfo
      BY <2>1
    <3> QED BY <2>2, <3>1 DEF ExecutionInfo, States
  <2>4. info' = [info EXCEPT ![i] = IF Listed(i) THEN e ELSE @]
    BY <1>4, <2>1 DEF RegisterRestart
  <2> HIDE DEF e, i
  <2>5. info' \in [Containers -> ExecutionInfo]
    BY <2>1, <2>3, <2>4
  <2>6. att' = [att EXCEPT !.ok = TRUE, !.pc = AfterSchedule(att.give)]
    BY <1>4 DEF RegisterRestart
  <2>7. att' \in AttentionLocals /\ att'.pc = AfterSchedule(att.give)
    BY <1>0, <1>a, <1>b, <2>6 DEF AttentionLocals
  <2>8. LaunchGive'
    BY <1>c, <2>7 DEF LaunchGive
  <2> QED BY <1>4, <2>5, <2>7, <2>8 DEF TypeOK, RegisterRestart
<1>5. CASE RegisterStart
  <2> DEFINE r == att.request
             e == [inter_user |-> r.inter, intra_user |-> r.intra, inter |-> att.give.inter,
                   intra |-> att.give.intra, state |-> "start", priority |-> r.priority]
  <2>1. att.give.inter \in Nat /\ att.give.intra \in Nat
    BY <1>5 DEF RegisterStart, LaunchGive
  <2>2. e \in ExecutionInfo
    BY <1>d, <2>1 DEF ExecutionInfo, States
  <2>3. info' = [info EXCEPT ![r.id] = e] /\ execInfo_list' = Append(execInfo_list, r.id)
    BY <1>5 DEF RegisterStart
  <2>4. info \in [Containers -> ExecutionInfo] /\ execInfo_list \in Seq(Containers)
    BY DEF TypeOK
  <2> HIDE DEF e
  <2>5. info' \in [Containers -> ExecutionInfo]
    BY <1>d, <2>2, <2>3, <2>4
  <2>6. execInfo_list' \in Seq(Containers)
    BY <1>d, <2>3, <2>4
  <2>7. att' \in AttentionLocals /\ att'.pc = "registerName"
    BY <1>0, <1>5, Pcs DEF RegisterStart, AttentionLocals
  <2>8. LaunchGive'
    BY <2>7 DEF LaunchGive
  <2> QED BY <1>5, <2>5, <2>6, <2>7, <2>8 DEF TypeOK, RegisterStart
<1>6. CASE RegisterName
  <2>1. att' = [att EXCEPT !.ok = TRUE, !.pc = AfterSchedule(att.give)]
    BY <1>6 DEF RegisterName
  <2>2. att' \in AttentionLocals /\ att'.pc = AfterSchedule(att.give)
    BY <1>0, <1>a, <1>b, <2>1 DEF AttentionLocals
  <2>3. containerName_list' \subseteq Containers
    BY <1>6, <1>d DEF TypeOK, RegisterName
  <2>4. LaunchGive'
    BY <1>c, <2>2 DEF LaunchGive
  <2> QED BY <1>6, <2>2, <2>3, <2>4 DEF TypeOK, RegisterName
<1> QED BY <1>1, <1>2, <1>3, <1>4, <1>5, <1>6 DEF Launching

\* updateExecutionInstance keeps the types: no update makes the parallelism of
\* a container negative.
LEMMA TypeUpdating ==
    ASSUME TypeOK, Updating \/ SendFails
    PROVE  TypeOK'
<1> USE DEF lists, queues, world, clients, generator
<1>0. att \in AttentionLocals
  BY Known
<1>a. att.request.id \in Containers /\ att.request.inter \in Nat /\ att.request.intra \in Nat
  BY Known, RequestFields
<1>b. info \in [Containers -> ExecutionInfo] /\ cpus \in [Containers -> Int]
  BY DEF TypeOK
<1>c. info[att.request.id] \in ExecutionInfo
  BY <1>a, <1>b
<1>1. CASE ScheduleUpdate
  <2> DEFINE r == att.request
             c == info[r.id]
             p == schedule_parallelism(att.granted, r.inter - c.inter, r.intra - c.intra, att.factor)
             g == UpdateGive(r, c)
             n == new_parallelism(c, g[1].inter, g[1].intra)
  <2>1. c.inter \in Nat /\ c.intra \in Nat
    BY <1>c DEF ExecutionInfo
  <2>2. r.inter - c.inter \in Int /\ r.intra - c.intra \in Int
    BY <1>a, <2>1
  <2>3. p # <<>> => p \in Int \X Int
    BY <2>2, Known, GrantInt
  <2>4. g # <<>> => g[1] \in [inter : Int, intra : Int, cost : Int]
    <3>1. g = IF att.granted < 0
              THEN <<Give(r.inter, r.intra, r.inter + r.intra - Parallelism(c))>>
              ELSE IF p = <<>> THEN <<>>
              ELSE <<Give(IF p[1] # 0 THEN c.inter + p[1] ELSE 0,
                          IF p[1] # 0 /\ p[2] = 0 THEN 0 ELSE c.intra + p[2],
                          p[1] + p[2])>>
      BY DEF UpdateGive
    <3> HIDE DEF p, g
    <3>2. CASE att.granted < 0
      <4>1. r.inter + r.intra - Parallelism(c) \in Int
        BY <1>a, <2>1 DEF Parallelism
      <4> QED BY <1>a, <3>1, <3>2, <4>1 DEF Give
    <3>3. CASE ~ (att.granted < 0) /\ p # <<>>
      <4>1. p[1] \in Int /\ p[2] \in Int
        BY <2>3, <3>3
      <4>2. /\ (IF p[1] # 0 THEN c.inter + p[1] ELSE 0) \in Int
            /\ (IF p[1] # 0 /\ p[2] = 0 THEN 0 ELSE c.intra + p[2]) \in Int
            /\ p[1] + p[2] \in Int
        BY <2>1, <4>1
      <4> QED BY <3>1, <3>3, <4>2 DEF Give
    <3> QED BY <3>1, <3>2, <3>3
  <2>5. g # <<>> => n \in Int
    <3> HIDE DEF g
    <3> SUFFICES ASSUME g # <<>> PROVE new_parallelism(c, g[1].inter, g[1].intra) \in Int
      OBVIOUS
    <3>1. g[1].inter \in Int /\ g[1].intra \in Int
      BY <2>4
    <3> QED BY <2>1, <3>1 DEF new_parallelism
  <2>6. \/ att' = [att EXCEPT !.pc = "post"] /\ UNCHANGED <<held, cpus>>
        \/ /\ g # <<>> /\ att' = [att EXCEPT !.pc = "updating", !.give = g[1]]
           /\ held' = held \cup {"execInfo"}
           /\ cpus' = [cpus EXCEPT ![r.id] = IF docker[r.id] = "none" THEN @ ELSE n]
    BY <1>1 DEF ScheduleUpdate, DockerUpdate
  <2>7. held' \subseteq Locks
    BY <2>6, Known DEF Locks
  <2> HIDE DEF g, n
  <2>8. cpus' \in [Containers -> Int]
    BY <1>a, <1>b, <2>5, <2>6
  <2>9. att' \in AttentionLocals
    <3>1. "post" \in AttentionPcs /\ "updating" \in AttentionPcs
      BY Pcs
    <3>2. CASE att' = [att EXCEPT !.pc = "post"]
      BY <1>0, <3>1, <3>2 DEF AttentionLocals
    <3>3. CASE g # <<>> /\ att' = [att EXCEPT !.pc = "updating", !.give = g[1]]
      BY <1>0, <2>4, <3>1, <3>3 DEF AttentionLocals
    <3> QED BY <2>6, <3>2, <3>3
  <2> QED BY <1>1, <2>7, <2>8, <2>9 DEF TypeOK, ScheduleUpdate
<1>2. CASE UpdateWrite
  <2> DEFINE u == update_parallelism(info[att.request.id], att.give.inter, att.give.intra)
  <2>1. u \in ExecutionInfo
    BY <1>c, Known, ReassignType
  <2>2. info' = [info EXCEPT ![att.request.id] = u]
    BY <1>2 DEF UpdateWrite
  <2> HIDE DEF u
  <2>3. info' \in [Containers -> ExecutionInfo]
    BY <1>a, <1>b, <2>1, <2>2
  <2>4. AfterSchedule(att.give) \in AttentionPcs
    BY Pcs DEF AfterSchedule
  <2>5. [att EXCEPT !.ok = TRUE, !.pc = AfterSchedule(att.give)] \in AttentionLocals
    BY <1>0, <2>4 DEF AttentionLocals
  <2> QED BY <1>2, <2>3, <2>5 DEF TypeOK, UpdateWrite
<1>3. CASE SendFails
  <2>1. att' \in AttentionLocals
    BY <1>0, <1>3, Pcs DEF SendFails, AttentionLocals
  <2> QED BY <1>3, <2>1 DEF TypeOK, SendFails
<1> QED BY <1>1, <1>2, <1>3 DEF Updating

\* A client thread moves on and leaves the rest of its locals alone, or copies
\* the parallelism or the ledger.
LEMMA ClientMoves ==
    ASSUME TypeOK, NEW t \in Threads, NEW x \in ClientPcs
    PROVE  /\ [cl EXCEPT ![t].pc = x] \in [Threads -> ClientLocals]
           /\ \A y \in Int : [cl EXCEPT ![t].pc = x, ![t].tmp = y] \in [Threads -> ClientLocals]
           /\ \A z \in BOOLEAN : [cl EXCEPT ![t].pc = x, ![t].zombie = z] \in [Threads -> ClientLocals]
           /\ \A m, n \in Nat : [cl EXCEPT ![t].pc = x, ![t].inter = m, ![t].intra = n]
                                \in [Threads -> ClientLocals]
<1>1. cl \in [Threads -> ClientLocals]
  BY DEF TypeOK
<1>2. cl[t] \in ClientLocals
  BY <1>1
<1>3. [cl EXCEPT ![t].pc = x] \in [Threads -> ClientLocals]
  BY <1>1, <1>2 DEF ClientLocals
<1>4. ASSUME NEW y \in Int
      PROVE  [cl EXCEPT ![t].pc = x, ![t].tmp = y] \in [Threads -> ClientLocals]
  <2>1. [cl[t] EXCEPT !.pc = x, !.tmp = y] \in ClientLocals
    BY <1>2 DEF ClientLocals
  <2>2. [cl EXCEPT ![t].pc = x, ![t].tmp = y] = [cl EXCEPT ![t] = [cl[t] EXCEPT !.pc = x, !.tmp = y]]
    BY <1>1
  <2> QED BY <1>1, <2>1, <2>2
<1>5. ASSUME NEW z \in BOOLEAN
      PROVE  [cl EXCEPT ![t].pc = x, ![t].zombie = z] \in [Threads -> ClientLocals]
  <2>1. [cl[t] EXCEPT !.pc = x, !.zombie = z] \in ClientLocals
    BY <1>2 DEF ClientLocals
  <2>2. [cl EXCEPT ![t].pc = x, ![t].zombie = z] = [cl EXCEPT ![t] = [cl[t] EXCEPT !.pc = x, !.zombie = z]]
    BY <1>1
  <2> QED BY <1>1, <2>1, <2>2
<1>6. ASSUME NEW m \in Nat, NEW n \in Nat
      PROVE  [cl EXCEPT ![t].pc = x, ![t].inter = m, ![t].intra = n] \in [Threads -> ClientLocals]
  <2>1. [cl[t] EXCEPT !.pc = x, !.inter = m, !.intra = n] \in ClientLocals
    BY <1>2 DEF ClientLocals
  <2>2. [cl EXCEPT ![t].pc = x, ![t].inter = m, ![t].intra = n]
           = [cl EXCEPT ![t] = [cl[t] EXCEPT !.pc = x, !.inter = m, !.intra = n]]
    BY <1>1
  <2> QED BY <1>1, <2>1, <2>2
<1> QED BY <1>3, <1>4, <1>5, <1>6

\* The client threads keep the types.
LEMMA TypeClient ==
    ASSUME TypeOK, NEW t \in Threads, Client(t) \/ ClientFail(t)
    PROVE  TypeOK'
<1> USE DEF lists, queues, world, clients, generator
<1>a. {"init", "loop", "removeName", "removeLost", "end", "done", "failRead", "failLost", "failMark",
       "failLock", "failFree", "failQueue", "failNotify", "spin", "died"} \subseteq ClientPcs
  BY DEF ClientPcs
<1>b. /\ cl \in [Threads -> ClientLocals] /\ info \in [Containers -> ExecutionInfo]
      /\ docker \in [Containers -> {"none", "boot", "up", "finished", "leaving", "exited"}]
      /\ held \subseteq Locks /\ notified \in BOOLEAN /\ cores_used \in Int
  BY DEF TypeOK
<1>c. t[1] \in Containers
  BY DEF Threads
<1>d. /\ cl[t].peer \in Containers /\ cl[t].inter \in Nat /\ cl[t].intra \in Nat
      /\ cl[t].tmp \in Int /\ cl[t].zombie \in BOOLEAN
  <2>1. cl[t] \in ClientLocals
    BY <1>b
  <2> QED BY <2>1 DEF ClientLocals
<1>e. info[t[1]].inter \in Nat /\ info[t[1]].intra \in Nat /\ info[t[1]].priority \in QueueIds
  <2>1. info[t[1]] \in ExecutionInfo
    BY <1>b, <1>c
  <2> QED BY <2>1 DEF ExecutionInfo
<1>f. /\ Pruned(docker) \in [Containers -> {"none", "boot", "up", "finished", "leaving", "exited"}]
      /\ StopContainer(t[1])
           \in [Containers -> {"none", "boot", "up", "finished", "leaving", "exited"}]
  BY <1>b, <1>c DEF StopContainer, Pruned
<1>g. Notify => notified' \in BOOLEAN
  BY <1>b DEF Notify
<1>1. CASE ClientInit(t)
  <2>1. cl' \in [Threads -> ClientLocals]
    BY <1>1, <1>a, ClientMoves DEF ClientInit
  <2> QED BY <1>1, <2>1 DEF TypeOK, ClientInit
<1>2. CASE ClientExit(t)
  <2> DEFINE x == IF Listed(t[1]) THEN "removeName" ELSE "removeLost"
  <2>0. x \in ClientPcs /\ cl' = [cl EXCEPT ![t].pc = x]
    BY <1>2, <1>a DEF ClientExit
  <2> HIDE DEF x
  <2>1. cl' \in [Threads -> ClientLocals]
    BY <2>0, ClientMoves
  <2>2. docker' \in [Containers -> {"none", "boot", "up", "finished", "leaving", "exited"}]
    BY <1>2, <1>b, <1>d DEF ClientExit
  <2>3. execInfo_list' \in Seq(Containers)
    <3>1. execInfo_list \in Seq(Containers)
      BY DEF TypeOK
    <3>2. \A k \in DOMAIN execInfo_list : RemoveAt(execInfo_list, k) \in Seq(Containers)
      BY <3>1 DEF RemoveAt
    <3> QED BY <1>2, <3>1, <3>2 DEF ClientExit
  <2>4. q_finish_container' \in Seq([cores : Nat, id : Containers])
    <3> DEFINE f == [cores |-> Parallelism(info[t[1]]), id |-> t[1]]
               S == [cores : Nat, id : Containers]
    <3>1. f \in S
      BY <1>c, <1>e DEF Parallelism
    <3>a. q_finish_container \in Seq(S)
      BY DEF TypeOK
    <3>2. q_finish_container' = q_finish_container \/ q_finish_container' = Append(q_finish_container, f)
      BY <1>2 DEF ClientExit
    <3> HIDE DEF f, S
    <3>3. q_finish_container' \in Seq(S)
      BY <3>1, <3>a, <3>2
    <3> QED BY <3>3 DEF S
  <2>5. notified' \in BOOLEAN
    BY <1>2, <1>b, <1>g DEF ClientExit
  <2> QED BY <1>2, <2>1, <2>2, <2>3, <2>4, <2>5 DEF TypeOK, ClientExit
<1>3. CASE ClientRemoveName(t)
  <2>1. cl' \in [Threads -> ClientLocals]
    BY <1>3, <1>a, ClientMoves DEF ClientRemoveName
  <2>2. docker' \in [Containers -> {"none", "boot", "up", "finished", "leaving", "exited"}]
    BY <1>3, <1>b, <1>d DEF ClientRemoveName
  <2>3. containerName_list' \subseteq Containers
    BY <1>3 DEF ClientRemoveName, TypeOK
  <2> QED BY <1>3, <2>1, <2>2, <2>3 DEF TypeOK, ClientRemoveName
<1>12. CASE ClientRemoveRaises(t)
  <2>1. cl' \in [Threads -> ClientLocals]
    BY <1>12, <1>a, ClientMoves DEF ClientRemoveRaises
  <2>2. held' \subseteq Locks
    BY <1>12, <1>b DEF ClientRemoveRaises, Locks
  <2>3. containerName_list' \subseteq Containers
    BY <1>12 DEF ClientRemoveRaises, TypeOK
  <2> QED BY <1>12, <2>1, <2>2, <2>3 DEF TypeOK, ClientRemoveRaises
<1>4. CASE FailRead(t)
  <2> DEFINE x == IF Listed(t[1]) THEN "failMark" ELSE "failLost"
  <2>1. x \in ClientPcs /\ cl' = [cl EXCEPT ![t].pc = x, ![t].inter = info[t[1]].inter,
                                            ![t].intra = info[t[1]].intra]
    BY <1>4, <1>a DEF FailRead
  <2> HIDE DEF x
  <2>2. cl' \in [Threads -> ClientLocals]
    BY <1>e, <2>1, ClientMoves
  <2> QED BY <1>4, <2>2 DEF TypeOK, FailRead
<1>13. CASE FailRaises(t)
  <2>1. cl' \in [Threads -> ClientLocals]
    BY <1>13, <1>a, ClientMoves DEF FailRaises
  <2>2. held' \subseteq Locks
    BY <1>13, <1>b DEF FailRaises, Locks
  <2> QED BY <1>13, <2>1, <2>2 DEF TypeOK, FailRaises
<1>5. CASE FailMark(t)
  <2>1. cl' \in [Threads -> ClientLocals]
    BY <1>5, <1>a, ClientMoves DEF FailMark
  <2>2. info' \in [Containers -> ExecutionInfo]
    BY <1>5, <1>b, <1>c DEF FailMark, ExecutionInfo, States
  <2> QED BY <1>5, <2>1, <2>2 DEF TypeOK, FailMark
<1>6. CASE FailLock(t)
  <2>1. cl' \in [Threads -> ClientLocals]
    BY <1>6, <1>a, <1>b, ClientMoves DEF FailLock
  <2>2. held' \subseteq Locks
    BY <1>6, <1>b DEF FailLock, Locks
  <2> QED BY <1>6, <2>1, <2>2 DEF TypeOK, FailLock
<1>7. CASE FailFree(t)
  <2> DEFINE zero == 0
  <2>1. zero \in Int /\ cl' = [cl EXCEPT ![t].pc = "failQueue", ![t].tmp = zero]
    BY <1>7 DEF FailFree
  <2> HIDE DEF zero
  <2>2. cl' \in [Threads -> ClientLocals]
    BY <1>a, <2>1, ClientMoves
  <2>3. cores_used' \in Int
    BY <1>7, <1>d DEF FailFree, free_resources
  <2> QED BY <1>7, <2>2, <2>3 DEF TypeOK, FailFree
<1>8. CASE FailQueue(t)
  <2> DEFINE m == 0
             r == [kind |-> "Restart", id |-> t[1], inter |-> cl[t].inter, intra |-> cl[t].intra,
                   priority |-> info[t[1]].priority]
  <2>1. m \in Nat /\ cl' = [cl EXCEPT ![t].pc = "failNotify", ![t].inter = m, ![t].intra = m]
    BY <1>8 DEF FailQueue
  <2>2. r \in Request
    BY <1>c, <1>d, <1>e DEF Request
  <2>3. queue_array' = add_request(queue_array, info[t[1]].priority, r)
    BY <1>8 DEF FailQueue
  <2> HIDE DEF m, r
  <2>4. cl' \in [Threads -> ClientLocals]
    BY <1>a, <2>1, ClientMoves
  <2>5. queue_array' \in [QueueIds -> Seq(Request)]
    <3>1. queue_array \in [QueueIds -> Seq(Request)]
      BY DEF TypeOK
    <3> QED BY <1>e, <2>2, <2>3, <3>1, AddRequestType
  <2> QED BY <1>8, <2>4, <2>5 DEF TypeOK, FailQueue
<1>9. CASE FailNotify(t)
  <2>1. cl' \in [Threads -> ClientLocals]
    BY <1>9, <1>a, ClientMoves DEF FailNotify
  <2> QED BY <1>9, <1>g, <2>1 DEF TypeOK, FailNotify
<1>10. CASE ClientEnd(t)
  <2>1. cl' \in [Threads -> ClientLocals]
    BY <1>10, <1>a, ClientMoves DEF ClientEnd
  <2> QED BY <1>10, <1>f, <1>g, <2>1 DEF TypeOK, ClientEnd
<1>11. CASE ClientFail(t)
  <2> DEFINE z == cl[t].pc = "init"
  <2>1. z \in BOOLEAN /\ cl' = [cl EXCEPT ![t].pc = "failRead", ![t].zombie = z]
    BY <1>11 DEF ClientFail
  <2> HIDE DEF z
  <2>2. cl' \in [Threads -> ClientLocals]
    BY <1>a, <2>1, ClientMoves
  <2> QED BY <1>11, <1>f, <2>2 DEF TypeOK, ClientFail
<1> QED BY <1>1, <1>2, <1>3, <1>4, <1>5, <1>6, <1>7, <1>8, <1>9, <1>10, <1>11, <1>12,
           <1>13
        DEF Client, FailAttention

\* The containers, and what goes wrong with them, keep the types.
LEMMA TypeDocker ==
    ASSUME TypeOK, NEW i \in Containers, ContainerConnects(i) \/ TrainingEnds(i) \/ Crash(i)
    PROVE  TypeOK'
<1> USE DEF lists, queues, world, clients, generator
<1>0. /\ docker \in [Containers -> {"none", "boot", "up", "finished", "leaving", "exited"}]
      /\ backlog \in Seq(Containers)
  BY DEF TypeOK
<1>1. CASE ContainerConnects(i)
  <2>1. /\ docker' \in [Containers -> {"none", "boot", "up", "finished", "leaving", "exited"}]
        /\ backlog' \in Seq(Containers)
    BY <1>0, <1>1 DEF ContainerConnects
  <2> QED BY <1>1, <2>1 DEF TypeOK, ContainerConnects
<1>2. CASE TrainingEnds(i)
  <2>1. docker' \in [Containers -> {"none", "boot", "up", "finished", "leaving", "exited"}]
    BY <1>0, <1>2 DEF TrainingEnds
  <2> QED BY <1>2, <2>1 DEF TypeOK, TrainingEnds
<1>3. CASE Crash(i)
  <2>1. docker' \in [Containers -> {"none", "boot", "up", "finished", "leaving", "exited"}]
    BY <1>0, <1>3 DEF Crash
  <2> QED BY <1>3, <2>1 DEF TypeOK, Crash
<1> QED BY <1>1, <1>2, <1>3

\* Every step keeps the types.
LEMMA TypeStep ==
    TypeOK /\ LaunchGive /\ [Next]_vars => TypeOK'
<1> SUFFICES ASSUME TypeOK, LaunchGive, [Next]_vars PROVE TypeOK'
  OBVIOUS
<1>1. CASE Generator
  BY <1>1, TypeGenerator
<1>2. CASE Attention
  BY <1>2, TypeWaiting, TypeReassigning, TypeLaunching, TypeUpdating, TypeTaking, TypePost
     DEF Attention, Serving
<1>3. CASE AcceptTimeout \/ SendFails
  BY <1>3, TypeLaunching, TypeUpdating
<1>4. CASE \E t \in Threads : Client(t) \/ ClientFail(t)
  BY <1>4, TypeClient
<1>5. CASE \E i \in Containers : ContainerConnects(i) \/ TrainingEnds(i) \/ Crash(i)
  BY <1>5, TypeDocker
<1>6. CASE UNCHANGED vars
  BY <1>6 DEF vars, TypeOK, lists, queues, world, clients, generator
<1> QED BY <1>1, <1>2, <1>3, <1>4, <1>5, <1>6 DEF Next

\* Every step but that of a launch leaves the attention thread where no launch
\* is under way, or leaves it alone.
LEMMA LaunchGiveStep ==
    TypeOK /\ LaunchGive /\ [Next]_vars => LaunchGive'
<1> SUFFICES ASSUME TypeOK, LaunchGive, [Next]_vars PROVE LaunchGive'
  OBVIOUS
<1>0. att \in AttentionLocals /\ att.after \in {"pend", "occ"}
  BY Known DEF AttentionLocals
<1>1. CASE att' = att
  BY <1>1 DEF LaunchGive
<1>2. CASE Launching \/ AcceptTimeout
  BY <1>2, TypeLaunching
<1>3. CASE IsFinishQueues \/ IsFinishRest \/ Wait \/ Wake \/ Finishing
  <2>1. att'.pc \notin {"accept", "register"}
    BY <1>0, <1>3 DEF IsFinishQueues, IsFinishRest, Wait, Wake, Finishing, FinishRequest, Join,
                      AttentionLocals
  <2> QED BY <2>1 DEF LaunchGive
<1>4. CASE Reassigning
  <2>0. ASSUME GiveNext PROVE att'.pc \notin {"accept", "register"}
    <3>1. \/ att' = [att EXCEPT !.idx = @ + 1]
          \/ att'.pc = "given"
      BY <1>0, <2>0 DEF GiveNext, AttentionLocals
    <3> QED BY <1>0, <2>0, <3>1 DEF GiveNext, AttentionLocals
  <2>1. att'.pc \notin {"accept", "register"}
    BY <1>0, <1>4, <2>0 DEF Reassigning, Reassign, LockList, GiveWrite, GiveEnd, GiveBack,
                            AttentionLocals
  <2> QED BY <2>1 DEF LaunchGive
<1>5. CASE Updating \/ SendFails
  <2>1. att'.pc \notin {"accept", "register"}
    BY <1>0, <1>5 DEF Updating, ScheduleUpdate, UpdateWrite, SendFails, AfterSchedule,
                      AttentionLocals
  <2> QED BY <2>1 DEF LaunchGive
<1>6. CASE Serving
  <2>1. ASSUME Pending \/ New \/ TakeRequest \/ PendingEnd \/ NewEnd
        PROVE  att'.pc \notin {"accept", "register"}
    <3>1. CASE Pending
      BY <1>0, <3>1 DEF Pending, AttentionLocals
    <3>2. CASE New
      BY <1>0, <3>2 DEF New, AttentionLocals
    <3>3. CASE TakeRequest
      BY <1>0, <3>3 DEF TakeRequest, AttentionLocals
    <3>4. CASE PendingEnd \/ NewEnd
      BY <1>0, <3>4 DEF PendingEnd, NewEnd, AttentionLocals
    <3> QED BY <2>1, <3>1, <3>2, <3>3, <3>4
  <2>2. ASSUME \/ ExcessRead \/ ExcessWrite \/ PostPending \/ PostNew \/ PostWrite \/ Relock
               \/ Occupation
        PROVE  att'.pc \notin {"accept", "register"}
    <3>1. CASE ExcessRead \/ ExcessWrite \/ PostNew \/ PostWrite
      BY <1>0, <3>1 DEF ExcessRead, ExcessWrite, PostNew, PostWrite, AttentionLocals
    <3>2. CASE PostPending
      BY <1>0, <3>2 DEF PostPending, AttentionLocals
    <3>3. CASE Relock
      BY <1>0, <3>3 DEF Relock, AttentionLocals
    <3>4. CASE Occupation
      <4>1. att' = [att EXCEPT !.pc = "dead"] \/ att' = AttentionAt("check", att.factor)
        BY <3>4 DEF Occupation
      <4>2. AttentionAt("check", att.factor).pc = "check"
        BY DEF AttentionAt
      <4> QED BY <1>0, <4>1, <4>2 DEF AttentionLocals
    <3> QED BY <2>2, <3>1, <3>2, <3>3, <3>4
  <2>3. att'.pc \notin {"accept", "register"}
    BY <1>6, <2>1, <2>2 DEF Serving
  <2> QED BY <2>3 DEF LaunchGive
<1>7. CASE Generator
  <2>1. att' = att
    BY <1>7 DEF Generator, ReadRow, ReadShortRow, NotifyRow, EndRequests
  <2> QED BY <1>1, <2>1
<1>8. CASE \E t \in Threads : Client(t) \/ ClientFail(t)
  <2>1. att' = att
    BY <1>8 DEF Client, ClientFail, ClientInit, ClientExit, ClientRemoveName,
                ClientRemoveRaises, FailAttention, FailRead, FailRaises,
                FailMark, FailLock, FailFree, FailQueue, FailNotify, ClientEnd
  <2> QED BY <1>1, <2>1
<1>9. CASE \E i \in Containers : ContainerConnects(i) \/ TrainingEnds(i) \/ Crash(i)
  <2>1. att' = att
    BY <1>9 DEF ContainerConnects, TrainingEnds, Crash
  <2> QED BY <1>1, <2>1
<1>10. CASE UNCHANGED vars
  <2>1. att' = att
    BY <1>10 DEF vars
  <2> QED BY <1>1, <2>1
<1> QED BY <1>2, <1>3, <1>4, <1>5, <1>6, <1>7, <1>8, <1>9, <1>10 DEF Next, Attention

\* TypeOK is an invariant: the parallelism the scheduler works with is never
\* negative, whatever the policies, the updates and the failures make of it.
THEOREM TypeCorrect == Spec => []TypeOK
<1>1. Init => TypeOK /\ LaunchGive
  <2>1. Init => att.pc = "check"
    BY DEF Init, AttentionAt
  <2>2. Init => LaunchGive
    BY <2>1 DEF LaunchGive
  <2> QED BY <2>2, TypeInit
<1>2. TypeOK /\ LaunchGive /\ [Next]_vars => (TypeOK /\ LaunchGive)'
  BY TypeStep, LaunchGiveStep
<1> QED BY <1>1, <1>2, PTL DEF Spec

-----------------------------------------------------------------------------
(* The ledger.  A step of the attention thread is one of three kinds: it   *)
(* ends where the thread has no request in its hands and does not own the  *)
(* ledger (Quiet), where it owns it (Holding), or it goes on with the      *)
(* request it has (Flying).                                                *)

Ledger == SystemInfoLock /\ LedgerBounds

\* A step keeps the bounds when it takes the attention thread to a place where
\* it owes nothing to the ledger and does not need mutex_systemInfo.
LEMMA Quiet ==
    ASSUME TypeOK, Ledger, cl' = cl, cores_used' <= Cores,
           "systemInfo" \in held => "systemInfo" \in held' \/ AttentionHolds,
           att'.pc \in {"check", "check2", "towait", "wait", "finish", "join", "lockList", "give",
                       "given", "giveback", "pend", "new", "relock", "occ", "done", "dead"}
             \/ (att'.pc = "reassign" /\ att'.after = "pend"),
           att'.pc = "giveback" => att'.avail > 0
    PROVE  Ledger'
<1>1. ~ Scheduling' /\ ~ InFlight' /\ ~ AttentionHolds'
  BY DEF Scheduling, InFlight, AttentionHolds
<1>2. SystemInfoLock'
  BY <1>1 DEF Ledger, SystemInfoLock
<1>3. /\ ~ (att'.pc \in {"excess", "excessWrite"}) /\ ~ (att'.pc \in {"excessWrite", "postWrite"})
  OBVIOUS
<1>4. LedgerBounds'
  BY <1>1, <1>3 DEF Ledger, LedgerBounds
<1> QED BY <1>2, <1>4 DEF Ledger

\* A step keeps the bounds when the attention thread takes mutex_systemInfo
\* that nobody holds, or keeps it.
LEMMA Holding ==
    ASSUME TypeOK, Ledger, cl' = cl, cores_used' <= Cores, "systemInfo" \in held',
           "systemInfo" \notin held \/ AttentionHolds,
           att'.pc \in {"take", "reassign"}
    PROVE  Ledger'
<1>1. ~ Scheduling' /\ ~ InFlight'
  BY DEF Scheduling, InFlight
<1>2. \A t \in Threads : cl[t].pc # "failFree"
  BY DEF Ledger, SystemInfoLock
<1>3. SystemInfoLock'
  BY <1>1, <1>2 DEF SystemInfoLock
<1>4. LedgerBounds'
  BY <1>1, <1>2 DEF LedgerBounds
<1> QED BY <1>3, <1>4 DEF Ledger

\* A step of the attention thread within schedule_request that leaves the
\* ledger alone keeps the bounds.
LEMMA Flying ==
    ASSUME TypeOK, Ledger, cl' = cl, cores_used' = cores_used, Scheduling,
           "systemInfo" \in held => "systemInfo" \in held',
           att'.granted = att.granted,
           att'.pc \in {"accept", "register", "registerName", "updating", "excess", "excessWrite",
                       "post"},
           att'.pc \in {"excess", "excessWrite"} => att'.give.cost < att'.granted,
           att'.pc = "excessWrite" => att'.tmp = cores_used
    PROVE  Ledger'
<1>1. InFlight /\ att.granted # 0 /\ ~ AttentionHolds'
  BY DEF Ledger, SystemInfoLock, InFlight, AttentionHolds, Scheduling
<1>2. Refund' = Refund
  BY DEF Refund
<1>3. SystemInfoLock'
  BY <1>1 DEF Ledger, SystemInfoLock
<1>4. LedgerBounds'
  BY <1>1, <1>2 DEF Ledger, LedgerBounds
<1> QED BY <1>3, <1>4 DEF Ledger

\* Waiting and finish requests keep the bounds of the ledger.
LEMMA LedgerWaiting ==
    ASSUME TypeOK, Ledger,
           IsFinishQueues \/ IsFinishRest \/ Wait \/ Wake \/ Finishing \/ SendFails \/ Occupation
    PROVE  Ledger'
<1> USE DEF clients
<1>0. att \in AttentionLocals /\ cores_used <= Cores
  BY Known DEF Ledger, LedgerBounds
<1>1. CASE IsFinishQueues \/ IsFinishRest \/ Wait \/ Wake
  <2>1. cl' = cl /\ cores_used' = cores_used
        /\ ("systemInfo" \in held => "systemInfo" \in held')
    BY <1>1 DEF IsFinishQueues, IsFinishRest, Wait, Wake
  <2>2. att'.pc \in {"check2", "towait", "done", "wait", "pend", "finish"}
    BY <1>0, <1>1 DEF IsFinishQueues, IsFinishRest, Wait, Wake, AttentionLocals
  <2> QED BY <1>0, <2>1, <2>2, Quiet
<1>2. CASE FinishRequest
  <2>1. Head(q_finish_container).cores \in Nat
    <3> DEFINE S == [cores : Nat, id : Containers]
    <3>1. q_finish_container \in Seq(S) /\ q_finish_container # <<>>
      BY <1>2 DEF TypeOK, FinishRequest
    <3>2. Head(q_finish_container) \in S
      <4> HIDE DEF S
      <4> QED BY <3>1
    <3> QED BY <3>2
  <2>2. cl' = cl /\ cores_used' <= Cores /\ held' = held
    BY <1>0, <1>2, <2>1, Known, CoresAssumption DEF FinishRequest, free_resources
  <2>3. att'.pc = "join"
    BY <1>0, <1>2 DEF FinishRequest, AttentionLocals
  <2> QED BY <2>2, <2>3, Quiet
<1>3. CASE Join
  <2>1. cl' = cl /\ cores_used' = cores_used /\ held' = held
    BY <1>3 DEF Join
  <2>2. att'.pc \in {"reassign", "finish"} /\ att'.after = "pend"
    BY <1>0, <1>3 DEF Join, AttentionLocals
  <2> QED BY <1>0, <2>1, <2>2, Quiet
<1>4. CASE SendFails
  <2>1. cl' = cl /\ cores_used' = cores_used /\ held' = held /\ att'.pc = "dead"
    BY <1>0, <1>4 DEF SendFails, AttentionLocals
  <2> QED BY <1>0, <2>1, Quiet
<1>5. CASE Occupation
  <2>1. cl' = cl /\ cores_used' = cores_used /\ ("systemInfo" \in held => "systemInfo" \in held')
    BY <1>5 DEF Occupation
  <2>2. att'.pc \in {"dead", "check"}
    <3>1. att' = [att EXCEPT !.pc = "dead"] \/ att' = AttentionAt("check", att.factor)
      BY <1>5 DEF Occupation
    <3>2. AttentionAt("check", att.factor).pc = "check"
      BY DEF AttentionAt
    <3> QED BY <1>0, <3>1, <3>2 DEF AttentionLocals
  <2> QED BY <1>0, <2>1, <2>2, Quiet
<1> QED BY <1>1, <1>2, <1>3, <1>4, <1>5 DEF Finishing

\* Reserving all the free cores and giving back what is left keeps the bounds.
LEMMA LedgerReassigning ==
    ASSUME TypeOK, Ledger, Reassigning
    PROVE  Ledger'
<1> USE DEF clients
<1>0. /\ att \in AttentionLocals /\ cores_used <= Cores /\ att.after \in {"pend", "occ"}
      /\ att.avail \in Int
  BY Known DEF Ledger, LedgerBounds, AttentionLocals
<1>1. CASE Reassign
  <2> DEFINE avail == check_resources(cores_used)
  <2>1. avail \in Int /\ cores_used \in Int
    BY Known
  <2>2. cl' = cl /\ cores_used' <= Cores
    BY <1>0, <1>1, <2>1, CoresAssumption DEF Reassign, check_resources, apply_resources
  <2>3. \/ avail > 0 /\ att'.pc \in {"giveback", "lockList"} /\ att'.avail = avail
        \/ att'.pc \in {"pend", "occ"}
    BY <1>0, <1>1 DEF Reassign, AttentionLocals
  <2>4. "systemInfo" \in held => AttentionHolds
    BY <1>0, <1>1 DEF Reassign, Free, AttentionHolds
  <2>5. att'.pc = "giveback" => att'.avail > 0
    BY <2>3
  <2>6. att'.pc \in {"giveback", "lockList", "pend", "occ"}
    BY <2>3
  <2> QED BY <2>2, <2>4, <2>5, <2>6, Quiet
<1>2. CASE LockList \/ GiveWrite
  <2>1. cl' = cl /\ cores_used' = cores_used /\ ("systemInfo" \in held => "systemInfo" \in held')
    BY <1>2 DEF LockList, GiveWrite
  <2>2. att'.pc \in {"dead", "give"}
    BY <1>0, <1>2 DEF LockList, GiveWrite, AttentionLocals
  <2> QED BY <1>0, <2>1, <2>2, Quiet
<1>3. CASE GiveNext
  <2>1. cl' = cl /\ cores_used' = cores_used /\ held' = held
    BY <1>3 DEF GiveNext
  <2>2. att'.pc \in {"give", "given"}
    <3>1. att' = [att EXCEPT !.idx = @ + 1] \/ att'.pc = "given"
      BY <1>0, <1>3 DEF GiveNext, AttentionLocals
    <3> QED BY <1>0, <1>3, <3>1 DEF GiveNext, AttentionLocals
  <2> QED BY <1>0, <2>1, <2>2, Quiet
<1>4. CASE GiveEnd
  <2>1. cl' = cl /\ cores_used' = cores_used /\ ("systemInfo" \in held => "systemInfo" \in held')
    BY <1>4 DEF GiveEnd
  <2>2. att'.pc \in {"giveback", "pend", "occ"} /\ (att'.pc = "giveback" => att'.avail > 0)
    BY <1>0, <1>4 DEF GiveEnd, AttentionLocals
  <2> QED BY <1>0, <2>1, <2>2, Quiet
<1>5. CASE GiveBack
  <2>1. att.avail > 0 /\ cores_used \in Int
    BY <1>5, Known DEF GiveBack, Ledger, LedgerBounds
  <2>2. cl' = cl /\ cores_used' <= Cores /\ held' = held
    BY <1>0, <1>5, <2>1, CoresAssumption DEF GiveBack, free_resources
  <2>3. att'.pc \in {"pend", "occ"}
    BY <1>0, <1>5 DEF GiveBack, AttentionLocals
  <2> QED BY <2>2, <2>3, Quiet
<1> QED BY <1>1, <1>2, <1>3, <1>4, <1>5 DEF Reassigning

\* schedule_request keeps the bounds: only an excess is given back.
LEMMA LedgerScheduling ==
    ASSUME TypeOK, Ledger, Launching \/ AcceptTimeout \/ Updating \/ ExcessRead
    PROVE  Ledger'
<1> USE DEF clients
<1>0. /\ att \in AttentionLocals /\ cores_used <= Cores
  BY Known DEF Ledger, LedgerBounds
<1>a. AfterSchedule(att.give) \in {"excess", "post"}
      /\ (AfterSchedule(att.give) = "excess" => att.give.cost < att.granted)
  BY DEF AfterSchedule
<1>1. CASE ScheduleLaunch
  <2>1. cl' = cl /\ cores_used' = cores_used /\ held' = held /\ Scheduling
    BY <1>1 DEF ScheduleLaunch, Scheduling
  <2>2. att'.granted = att.granted /\ att'.pc \in {"post", "accept", "dead"}
    BY <1>0, <1>1 DEF ScheduleLaunch, AttentionLocals
  <2>3. CASE att'.pc = "dead"
    BY <1>0, <2>1, <2>3, Quiet
  <2>4. CASE att'.pc # "dead"
    BY <2>1, <2>2, <2>4, Flying
  <2> QED BY <2>3, <2>4
<1>2. CASE Accept
  <2>1. cores_used' = cores_used /\ held' = held /\ Scheduling
    BY <1>2 DEF Accept, Scheduling
  <2>2. att'.granted = att.granted /\ att'.pc = "register" /\ Scheduling'
    BY <1>0, <1>2 DEF Accept, AttentionLocals, Scheduling
  <2>3. \A t \in Threads : cl'[t].pc = "failFree" => cl[t].pc = "failFree" /\ cl'[t].tmp = cl[t].tmp
    <3>1. PICK n \in 0 .. MaxFaults :
             cl' = [cl EXCEPT ![<<att.request.id, n>>].pc = "init",
                              ![<<att.request.id, n>>].peer = Head(backlog)]
      BY <1>2 DEF Accept
    <3>2. cl \in [Threads -> ClientLocals]
      BY DEF TypeOK
    <3> QED BY <3>1, <3>2 DEF ClientLocals
  <2>4. Refund' = Refund /\ InFlight /\ ~ AttentionHolds'
    BY <2>1, <2>2 DEF Refund, InFlight, AttentionHolds
  <2>5. SystemInfoLock'
    BY <2>1, <2>2, <2>3, <2>4 DEF Ledger, SystemInfoLock
  <2>6. LedgerBounds'
    BY <2>1, <2>2, <2>3, <2>4 DEF Ledger, LedgerBounds
  <2> QED BY <2>5, <2>6 DEF Ledger
<1>3. CASE AcceptTimeout
  <2>1. cl' = cl /\ cores_used' = cores_used /\ held' = held /\ Scheduling
    BY <1>3 DEF AcceptTimeout, Scheduling
  <2>2. att'.granted = att.granted /\ att'.give = att.give
        /\ att'.pc \in {"accept", AfterSchedule(att.give)}
    <3>1. att' = [att EXCEPT !.attemps = att.attemps + 1,
                    !.pc = IF att.attemps + 1 = MaxAttempts THEN AfterSchedule(att.give) ELSE att.pc]
      BY <1>3 DEF AcceptTimeout
    <3> QED BY <1>0, <1>3, <3>1 DEF AcceptTimeout, AttentionLocals
  <2> QED BY <1>a, <2>1, <2>2, Flying
<1>4. CASE RegisterRestart \/ RegisterName \/ UpdateWrite
  <2>1. cl' = cl /\ cores_used' = cores_used /\ ("systemInfo" \in held => "systemInfo" \in held')
        /\ Scheduling
    BY <1>4 DEF RegisterRestart, RegisterName, UpdateWrite, Scheduling
  <2>2. att'.granted = att.granted /\ att'.give = att.give /\ att'.pc = AfterSchedule(att.give)
    BY <1>0, <1>4 DEF RegisterRestart, RegisterName, UpdateWrite, AttentionLocals
  <2> QED BY <1>a, <2>1, <2>2, Flying
<1>5. CASE RegisterStart
  <2>1. cl' = cl /\ cores_used' = cores_used /\ held' = held /\ Scheduling
    BY <1>5 DEF RegisterStart, Scheduling
  <2>2. att'.granted = att.granted /\ att'.pc = "registerName"
    BY <1>0, <1>5 DEF RegisterStart, AttentionLocals
  <2> QED BY <2>1, <2>2, Flying
<1>6. CASE ScheduleUpdate
  <2>1. cl' = cl /\ cores_used' = cores_used /\ ("systemInfo" \in held => "systemInfo" \in held')
        /\ Scheduling
    BY <1>6 DEF ScheduleUpdate, Scheduling
  <2>2. att'.granted = att.granted /\ att'.pc \in {"post", "updating"}
    BY <1>0, <1>6 DEF ScheduleUpdate, AttentionLocals
  <2> QED BY <2>1, <2>2, Flying
<1>7. CASE ExcessRead
  <2>1. cl' = cl /\ cores_used' = cores_used /\ held' = held /\ Scheduling
        /\ att.give.cost < att.granted
    BY <1>7 DEF ExcessRead, Scheduling, Ledger, LedgerBounds
  <2>2. att'.granted = att.granted /\ att'.give = att.give /\ att'.pc = "excessWrite"
        /\ att'.tmp = cores_used
    BY <1>0, <1>7 DEF ExcessRead, AttentionLocals
  <2> QED BY <2>1, <2>2, Flying
<1> QED BY <1>1, <1>2, <1>3, <1>4, <1>5, <1>6, <1>7 DEF Launching, Updating

\* What schedule_resources reserves or frees keeps the bounds.
LEMMA LedgerTaking ==
    ASSUME TypeOK, Ledger, Pending \/ New \/ TakeRequest \/ PendingEnd \/ NewEnd
    PROVE  Ledger'
<1> USE DEF clients
<1>0. /\ att \in AttentionLocals /\ cores_used <= Cores /\ cores_used \in Int /\ att.avail \in Int
  BY Known DEF Ledger, LedgerBounds
<1>1. CASE Pending
  <2>1. /\ cl' = cl /\ cores_used' = cores_used /\ "systemInfo" \notin held
        /\ (att'.pc = "take" => "systemInfo" \in held')
    BY <1>0, <1>1 DEF Pending, Free, AttentionLocals
  <2>2. att'.pc \in {"dead", "new", "take"}
    BY <1>0, <1>1 DEF Pending, AttentionLocals
  <2>3. CASE att'.pc = "take"
    BY <1>0, <2>1, <2>3, Holding
  <2>4. CASE att'.pc # "take"
    BY <1>0, <2>1, <2>2, <2>4, Quiet
  <2> QED BY <2>3, <2>4
<1>2. CASE New
  <2>1. cl' = cl /\ cores_used' = cores_used /\ "systemInfo" \notin held /\ "systemInfo" \in held'
    BY <1>2 DEF New, Free
  <2>2. att'.pc \in {"take", "reassign"}
    BY <1>0, <1>2 DEF New, AttentionLocals
  <2> QED BY <1>0, <2>1, <2>2, Holding
<1>3. CASE PendingEnd
  <2>1. cl' = cl /\ cores_used' = cores_used /\ AttentionHolds
    BY <1>3 DEF PendingEnd, AttentionHolds
  <2>2. att'.pc = "new"
    BY <1>0, <1>3 DEF PendingEnd, AttentionLocals
  <2> QED BY <1>0, <2>1, <2>2, Quiet
<1>4. CASE NewEnd
  <2>1. cl' = cl /\ cores_used' = cores_used /\ held' = held /\ AttentionHolds
    BY <1>4 DEF NewEnd, AttentionHolds
  <2>2. "systemInfo" \in held
    BY <2>1 DEF Ledger, SystemInfoLock
  <2>3. att'.pc = "reassign"
    BY <1>0, <1>4 DEF NewEnd, AttentionLocals
  <2> QED BY <1>0, <2>1, <2>2, <2>3, Holding
<1>5. CASE TakeRequest
  <2>1. /\ AttentionHolds /\ cl' = cl
        /\ cores_used' = (IF att'.granted > 0 THEN apply_resources(cores_used, att'.granted)
                          ELSE free_resources(cores_used, -att'.granted))
        /\ held' = (IF att'.phase = "new" \/ att'.granted # 0 THEN held \ {"systemInfo"} ELSE held)
        /\ att'.pc = (IF att'.granted # 0 THEN "schedule" ELSE "post")
    <3>1. AttentionHolds /\ cl' = cl
      BY <1>5 DEF TakeRequest, AttentionHolds
    <3>2. PICK r, granted :
            /\ cores_used' = (IF granted > 0 THEN apply_resources(cores_used, granted)
                              ELSE free_resources(cores_used, -granted))
            /\ held' = (IF att.phase = "new" \/ granted # 0 THEN held \ {"systemInfo"} ELSE held)
            /\ att' = [att EXCEPT !.pc = IF granted # 0 THEN "schedule" ELSE "post",
                                  !.request = r, !.granted = granted, !.ok = FALSE]
      BY <1>5, Zenon DEF TakeRequest
    <3>3. /\ att'.granted = granted /\ att'.phase = att.phase
          /\ att'.pc = (IF granted # 0 THEN "schedule" ELSE "post")
      BY <1>0, <3>2 DEF AttentionLocals
    <3> QED BY <3>1, <3>2, <3>3
  <2>2. att'.granted \in Int /\ att'.phase \in {"pending", "new"}
    <3>1. att' \in AttentionLocals
      BY <1>5, TypeTaking DEF TypeOK
    <3> QED BY <3>1 DEF AttentionLocals
  <2>3. "systemInfo" \in held /\ \A t \in Threads : cl[t].pc # "failFree"
    BY <2>1 DEF Ledger, SystemInfoLock
  <2>4. AttentionHolds' => "systemInfo" \in held'
    BY <2>1, <2>2, <2>3 DEF AttentionHolds
  <2>5. Scheduling' => att'.granted # 0
    BY <2>1 DEF Scheduling
  <2>6. SystemInfoLock'
    BY <2>1, <2>3, <2>4, <2>5 DEF SystemInfoLock
  <2>7. cores_used' <= Cores /\ cores_used' - Refund' <= Cores
    <3>1. CASE att'.granted > 0
      BY <1>0, <2>1, <2>2, <3>1, CoresAssumption DEF apply_resources, check_resources, Refund
    <3>2. CASE ~ (att'.granted > 0)
      BY <1>0, <2>1, <2>2, <3>2, CoresAssumption DEF free_resources, Refund
    <3> QED BY <3>1, <3>2
  <2>8. att'.pc \in {"schedule", "post"}
    BY <2>1
  <2>9. LedgerBounds'
    BY <2>1, <2>3, <2>7, <2>8 DEF LedgerBounds
  <2> QED BY <2>6, <2>9 DEF Ledger
<1> QED BY <1>1, <1>2, <1>3, <1>4, <1>5

\* Undoing the reservation of a request that was not served, inside or outside
\* mutex_systemInfo, keeps the bounds.
LEMMA LedgerPost ==
    ASSUME TypeOK, Ledger, ExcessWrite \/ PostPending \/ PostNew \/ PostWrite \/ Relock
    PROVE  Ledger'
<1> USE DEF clients
<1>0. /\ att \in AttentionLocals /\ cores_used <= Cores /\ cores_used \in Int /\ att.avail \in Int
      /\ att.tmp \in Int /\ att.granted \in Int /\ att.give.cost \in Int
  BY Known DEF Ledger, LedgerBounds
<1>1. CASE ExcessWrite
  <2>1. /\ cl' = cl /\ held' = held /\ cores_used' = att.tmp - (att.granted - att.give.cost)
        /\ InFlight /\ att.granted # 0 /\ att.tmp - Refund <= Cores /\ att.give.cost < att.granted
    BY <1>1 DEF ExcessWrite, free_resources, Ledger, SystemInfoLock, LedgerBounds, Scheduling, InFlight
  <2>2. att'.granted = att.granted /\ att'.pc = "post"
    BY <1>0, <1>1 DEF ExcessWrite, AttentionLocals
  <2>3. Refund' = Refund /\ ~ AttentionHolds' /\ ~ Scheduling'
    BY <2>1, <2>2 DEF Refund, AttentionHolds, Scheduling
  <2>4. cores_used' <= Cores /\ cores_used' - Refund' <= Cores
    BY <1>0, <2>1, <2>3, CoresAssumption DEF Refund
  <2>5. SystemInfoLock'
    BY <2>1, <2>2, <2>3 DEF Ledger, SystemInfoLock
  <2>6. LedgerBounds'
    BY <2>1, <2>2, <2>3, <2>4 DEF Ledger, LedgerBounds
  <2> QED BY <2>5, <2>6 DEF Ledger
<1>2. CASE PostPending
  <2>1. cores_used - Refund <= Cores
    BY <1>2 DEF PostPending, Ledger, LedgerBounds, InFlight
  <2>2. cl' = cl /\ "systemInfo" \in held' /\ cores_used' <= Cores
    BY <1>0, <1>2, <2>1, CoresAssumption DEF PostPending, free_resources, Refund
  <2>3. "systemInfo" \notin held \/ AttentionHolds
    BY <1>2 DEF PostPending, Free, AttentionHolds
  <2>4. att'.pc = "take"
    BY <1>0, <1>2 DEF PostPending, AttentionLocals
  <2> QED BY <2>2, <2>3, <2>4, Holding
<1>3. CASE PostNew
  <2>1. cl' = cl /\ held' = held /\ cores_used' = cores_used /\ InFlight
    BY <1>3 DEF PostNew, InFlight
  <2>2. CASE att.ok
    <3>1. att'.pc = "relock"
      BY <1>0, <1>3, <2>2 DEF PostNew, AttentionLocals
    <3> QED BY <1>0, <2>1, <3>1, Quiet
  <2>3. CASE ~ att.ok
    <3>1. att'.pc = "postWrite" /\ att'.tmp = cores_used /\ att'.granted = att.granted
      BY <1>0, <1>3, <2>3 DEF PostNew, AttentionLocals
    <3>2. Refund' = Refund /\ ~ AttentionHolds' /\ ~ Scheduling' /\ ~ InFlight'
      BY <3>1 DEF Refund, AttentionHolds, Scheduling, InFlight
    <3>3. SystemInfoLock'
      BY <2>1, <3>2 DEF Ledger, SystemInfoLock
    <3>4. LedgerBounds'
      BY <2>1, <3>1, <3>2 DEF Ledger, LedgerBounds
    <3> QED BY <3>3, <3>4 DEF Ledger
  <2> QED BY <2>2, <2>3
<1>4. CASE PostWrite
  <2>1. att.tmp - Refund <= Cores
    BY <1>4 DEF PostWrite, Ledger, LedgerBounds
  <2>2. cl' = cl /\ held' = held /\ cores_used' <= Cores
    BY <1>0, <1>4, <2>1, CoresAssumption DEF PostWrite, free_resources, Refund
  <2>3. att'.pc = "relock"
    BY <1>0, <1>4 DEF PostWrite, AttentionLocals
  <2> QED BY <2>2, <2>3, Quiet
<1>5. CASE Relock
  <2>1. cl' = cl /\ "systemInfo" \in held' /\ cores_used' = cores_used /\ "systemInfo" \notin held
    BY <1>5 DEF Relock, Free
  <2>2. att'.pc = "take"
    BY <1>0, <1>5 DEF Relock, AttentionLocals
  <2> QED BY <1>0, <2>1, <2>2, Holding
<1> QED BY <1>1, <1>2, <1>3, <1>4, <1>5

\* container_failed_attention frees the cores of a container inside
\* mutex_systemInfo and keeps the bounds, also when the attention thread frees
\* cores without that lock between its read and its write.
LEMMA LedgerClient ==
    ASSUME TypeOK, Ledger, NEW t \in Threads, Client(t) \/ ClientFail(t)
    PROVE  Ledger'
<1> USE DEF clients
<1>0. cl \in [Threads -> ClientLocals] /\ cores_used <= Cores /\ cores_used \in Int
  BY Known DEF TypeOK, Ledger, LedgerBounds
<1>a. cl[t].tmp \in Int /\ cl[t].inter \in Nat /\ cl[t].intra \in Nat
  BY <1>0 DEF ClientLocals
<1>b. att' = att
  BY DEF Client, ClientFail, ClientInit, ClientExit, ClientRemoveName,
         ClientRemoveRaises, FailAttention, FailRead, FailRaises,
         FailMark, FailLock, FailFree, FailQueue, FailNotify, ClientEnd
<1>c. /\ Scheduling' = Scheduling /\ InFlight' = InFlight /\ AttentionHolds' = AttentionHolds
      /\ Refund' = Refund
  BY <1>b DEF Scheduling, InFlight, AttentionHolds, Refund
<1>1. CASE FailLock(t)
  <2>1. /\ cores_used' = cores_used /\ "systemInfo" \notin held /\ "systemInfo" \in held'
        /\ cl' = [cl EXCEPT ![t].pc = "failFree", ![t].tmp = cores_used]
    BY <1>1 DEF FailLock, Free
  <2>2. \A u \in Threads : cl[u].pc # "failFree"
    BY <2>1 DEF Ledger, SystemInfoLock
  <2>3. ~ AttentionHolds
    BY <2>1 DEF Ledger, SystemInfoLock
  <2>4. \A u \in Threads : cl'[u].pc = "failFree" => u = t /\ cl'[u].tmp = cores_used
    BY <1>0, <2>1, <2>2 DEF ClientLocals
  <2>5. SystemInfoLock'
    BY <1>b, <1>c, <2>1, <2>3, <2>4 DEF Ledger, SystemInfoLock
  <2>6. LedgerBounds'
    BY <1>b, <1>c, <2>1, <2>4 DEF Ledger, LedgerBounds
  <2> QED BY <2>5, <2>6 DEF Ledger
<1>2. CASE FailFree(t)
  <2>1. /\ cores_used' = cl[t].tmp - (cl[t].inter + cl[t].intra) /\ cl[t].pc = "failFree"
        /\ held' = held \ {"systemInfo"}
        /\ cl' = [cl EXCEPT ![t].pc = "failQueue", ![t].tmp = 0]
    BY <1>2 DEF FailFree, free_resources
  <2>2. cl[t].tmp <= Cores /\ (InFlight => cl[t].tmp - Refund <= Cores) /\ ~ AttentionHolds
    BY <2>1 DEF Ledger, SystemInfoLock, LedgerBounds
  <2>3. Refund \in Int
    BY Known DEF Refund
  <2>4. cores_used' <= Cores /\ (InFlight => cores_used' - Refund <= Cores)
    BY <1>a, <2>1, <2>2, <2>3, CoresAssumption
  <2>5. \A u \in Threads : cl'[u].pc # "failFree"
    <3>1. \A u \in Threads : u # t => cl'[u] = cl[u]
      BY <1>0, <2>1
    <3>2. \A u \in Threads : u # t => cl[u].pc # "failFree"
      BY <2>1 DEF Ledger, SystemInfoLock
    <3>3. cl'[t].pc = "failQueue"
      BY <1>0, <2>1 DEF ClientLocals
    <3> QED BY <3>1, <3>2, <3>3
  <2>6. SystemInfoLock'
    BY <1>b, <1>c, <2>2, <2>5 DEF Ledger, SystemInfoLock
  <2>7. LedgerBounds'
    BY <1>b, <1>c, <2>4, <2>5 DEF Ledger, LedgerBounds
  <2> QED BY <2>6, <2>7 DEF Ledger
<1>3. CASE ~ FailLock(t) /\ ~ FailFree(t)
  <2>1. cores_used' = cores_used /\ ("systemInfo" \in held => "systemInfo" \in held')
    BY <1>3 DEF Client, ClientFail, ClientInit, ClientExit, ClientRemoveName,
                ClientRemoveRaises, FailAttention, FailRead, FailRaises,
                FailMark, FailQueue, FailNotify, ClientEnd
  <2>2. \A u \in Threads : u # t => cl'[u] = cl[u]
    BY <1>0, <1>3 DEF Client, ClientFail, ClientInit, ClientExit, ClientRemoveName,
                      ClientRemoveRaises, FailAttention,
                FailRead, FailRaises, FailMark, FailQueue, FailNotify, ClientEnd
  <2>3. cl'[t].pc # "failFree"
    BY <1>0, <1>3 DEF Client, ClientFail, ClientInit, ClientExit, ClientRemoveName,
                      ClientRemoveRaises, FailAttention,
                FailRead, FailRaises, FailMark, FailQueue, FailNotify, ClientEnd, ClientLocals
  <2>4. SystemInfoLock'
    BY <1>b, <1>c, <2>1, <2>2, <2>3 DEF Ledger, SystemInfoLock
  <2>5. LedgerBounds'
    BY <1>b, <1>c, <2>1, <2>2, <2>3 DEF Ledger, LedgerBounds
  <2> QED BY <2>4, <2>5 DEF Ledger
<1> QED BY <1>1, <1>2, <1>3

\* Every step keeps the bounds of the ledger.
LEMMA LedgerStep ==
    TypeOK /\ Ledger /\ [Next]_vars => Ledger'
<1> SUFFICES ASSUME TypeOK, Ledger, [Next]_vars PROVE Ledger'
  OBVIOUS
<1> USE DEF clients
<1>1. CASE att' = att /\ cl' = cl /\ cores_used' = cores_used /\ held' = held
  BY <1>1 DEF Ledger, SystemInfoLock, LedgerBounds, Scheduling, InFlight, AttentionHolds, Refund
<1>2. CASE Attention \/ AcceptTimeout \/ SendFails
  BY <1>2, LedgerWaiting, LedgerReassigning, LedgerScheduling, LedgerTaking, LedgerPost
     DEF Attention, Serving
<1>3. CASE Generator
  BY <1>1, <1>3 DEF Generator, ReadRow, ReadShortRow, NotifyRow, EndRequests
<1>4. CASE \E t \in Threads : Client(t) \/ ClientFail(t)
  BY <1>4, LedgerClient
<1>5. CASE \E i \in Containers : ContainerConnects(i) \/ TrainingEnds(i) \/ Crash(i)
  BY <1>1, <1>5 DEF ContainerConnects, TrainingEnds, Crash
<1>6. CASE UNCHANGED vars
  BY <1>1, <1>6 DEF vars
<1> QED BY <1>2, <1>3, <1>4, <1>5, <1>6 DEF Next

\* The invariant is inductive.
LEMMA BoundsHold == Spec => []IInv
<1>1. Init => IInv
  <2> SUFFICES ASSUME Init PROVE IInv
    OBVIOUS
  <2>1. att.pc = "check" /\ cores_used = 0 /\ \A t \in Threads : cl[t].pc = "none"
    BY DEF Init, AttentionAt
  <2>2. ~ Scheduling /\ ~ InFlight /\ ~ AttentionHolds
    BY <2>1 DEF Scheduling, InFlight, AttentionHolds
  <2>3. LaunchGive /\ SystemInfoLock /\ LedgerBounds
    BY <2>1, <2>2, CoresAssumption DEF LaunchGive, SystemInfoLock, LedgerBounds
  <2> QED BY <2>3, TypeInit DEF IInv
<1>2. IInv /\ [Next]_vars => IInv'
  BY TypeStep, LaunchGiveStep, LedgerStep DEF IInv, Ledger
<1> QED BY <1>1, <1>2, PTL DEF Spec

\* The scheduler never accounts for more cores than the machine has, for every
\* workload, policy and number of failures and whatever the containers do, so
\* the exception at the end of a round of attentionRequest is never raised.
THEOREM LedgerCorrect == Spec => []NoOvercommit
<1>1. IInv => NoOvercommit
  BY DEF IInv, LedgerBounds, NoOvercommit
<1> QED BY <1>1, BoundsHold, PTL

-----------------------------------------------------------------------------
(* The life of a container: an order to launch it is in one place at a     *)
(* time, which is a row, a queue, the hands of the attention thread, or a  *)
(* client thread that may still ask for a restart.                         *)

-----------------------------------------------------------------------------
(* The places of an order.                                                 *)

Launches(r, i) == IsLaunch(r) /\ r.id = i

None(q, i) == \A p \in QueueIds : \A k \in 1 .. Len(q[p]) : ~ Launches(q[p][k], i)

AtMostOne(q, i) ==
    \A p, s \in QueueIds : \A k \in 1 .. Len(q[p]), l \in 1 .. Len(q[s]) :
       Launches(q[p][k], i) /\ Launches(q[s][l], i) => p = s /\ k = l

Elements(q) == UNION {{q[p][k] : k \in 1 .. Len(q[p])} : p \in QueueIds}

InRows(i) == \E k \in 1 .. Len(rows) : rows[k].kind = "execution" /\ rows[k].id = i

\* The attention thread has the order, and a container is not registered for it.
Undertaken(i) ==
    /\ Launches(att.request, i)
    /\ \/ att.pc \in {"schedule", "accept"}
       \/ att.pc \in {"post", "excess", "excessWrite"} /\ ~ att.ok

\* The thread of a container that has to end or to be restarted.
WorkingPcs == {"init", "loop", "removeName", "removeLost", "failRead", "failMark", "failLock",
               "failFree", "failQueue"}
Working(t) == cl[t].pc \in WorkingPcs
Works(i) == \E n \in 0 .. MaxFaults : Working(<<i, n>>)

-----------------------------------------------------------------------------
(* The invariant.                                                          *)

RowsDiffer ==
    \A a, b \in 1 .. Len(rows) :
       rows[a].kind = "execution" /\ rows[b].kind = "execution" /\ rows[a].id = rows[b].id
          => a = b

QueuesDiffer ==
    \A i \in Containers :
       AtMostOne(queue_array, i) /\ AtMostOne(queue_pending_array, i) /\ AtMostOne(att.q_aux, i)

OnePlace ==
    \A i \in Containers :
       /\ InRows(i) => /\ None(queue_array, i) /\ None(queue_pending_array, i)
                       /\ None(att.q_aux, i) /\ ~ Undertaken(i) /\ ~ Works(i)
       /\ ~ None(queue_array, i) => /\ None(queue_pending_array, i) /\ None(att.q_aux, i)
                                    /\ ~ Undertaken(i) /\ ~ Works(i)
       /\ ~ None(queue_pending_array, i) => /\ None(att.q_aux, i)
                                            /\ ~ Undertaken(i) /\ ~ Works(i)
       /\ ~ None(att.q_aux, i) => ~ Undertaken(i) /\ ~ Works(i)
       /\ Undertaken(i) => ~ Works(i)

\* Of the threads of a container only the last one works.
LastWorks == \A t \in Threads : Working(t) => t[2] = dict_client_threads[t[1]]

\* A Start is the first order of its container.
NewIn(q) == \A r \in Elements(q) : r.kind = "Start" => dict_client_threads[r.id] = -1
StartsAreFirst ==
    /\ \A i \in Containers : InRows(i) => dict_client_threads[i] = -1
    /\ NewIn(queue_array) /\ NewIn(queue_pending_array) /\ NewIn(att.q_aux)
    /\ att.request.kind = "Start" /\ Undertaken(att.request.id)
          => dict_client_threads[att.request.id] = -1

\* A container is listed by its Start, and once.
Unknown(i) == ~ Listed(i) /\ info[i].state # "failed"
ListedLater ==
    /\ \A i \in Containers : dict_client_threads[i] = -1 => Unknown(i)
    /\ att.pc = "register" /\ att.request.kind = "Start" => Unknown(att.request.id)
    /\ \A t \in Threads : cl[t].pc = "failMark" => Listed(t[1])
    /\ \A k, l \in 1 .. Len(execInfo_list) : execInfo_list[k] = execInfo_list[l] => k = l

\* Only a launch gets to accept(), which starts the thread before it is listed.
Accepting ==
    /\ att.pc \in {"accept", "register"} => IsLaunch(att.request)
    /\ att.pc = "register" => dict_client_threads[att.request.id] # -1

Orders == /\ RowsDiffer /\ QueuesDiffer /\ OnePlace /\ LastWorks /\ StartsAreFirst
          /\ ListedLater /\ Accepting

-----------------------------------------------------------------------------
(* The rest of the life of a container, where no connection comes late and *)
(* no container ends before its launch is registered.                      *)

Timely == TFOutlivesRegistration /\ ~ SlowContainers

Named(i) == i \in containerName_list
FailingPcs == {"failRead", "failMark", "failLock", "failFree", "failQueue"}

\* The attention thread is registering the first launch of the container.
Registers(i) == att.pc \in {"register", "registerName"} /\ att.request.kind = "Start"
                /\ att.request.id = i

\* The requests in the queues, and the launch in the hands of the attention thread.
Waiting == Elements(queue_array) \cup Elements(queue_pending_array) \cup Elements(att.q_aux)
           \cup {r \in {att.request} : Undertaken(r.id)}
Ordered(i) == InRows(i) \/ \E r \in Waiting : Launches(r, i)

\* An order waits for a name that is free; a Restart for a container that is known.
OrdersReady ==
    /\ \A i \in Containers : InRows(i) => docker[i] = "none"
    /\ \A r \in Waiting : IsLaunch(r) =>
          /\ docker[r.id] = "none" \/ (att.pc = "accept" /\ att.request.id = r.id)
          /\ r.kind = "Restart" => Listed(r.id) /\ Named(r.id)
    /\ att.pc = "accept" => docker[att.request.id] \notin {"finished", "leaving"}

\* The connection that accept() returns is that of the container just launched.
OwnPeer ==
    /\ \A t \in Threads : cl[t].peer = t[1]
    /\ backlog # <<>> => /\ att.pc = "accept" /\ backlog = <<att.request.id>>
                         /\ docker[att.request.id] # "boot"
    /\ \A i \in Containers :
          /\ docker[i] = "boot" => att.pc = "accept" /\ att.request.id = i
          /\ docker[i] \in {"up", "finished"} =>
                \/ att.pc = "accept" /\ att.request.id = i
                \/ \E n \in 0 .. MaxFaults : cl[<<i, n>>].pc \in {"init", "loop"}

\* Who is listed is named, except between the two halves of a registration and
\* between those of a removal.
ListNames ==
    /\ \A i \in Containers : dict_client_threads[i] = -1 => ~ Named(i)
    /\ \A i \in Containers : Listed(i) => Named(i) \/ (att.pc = "registerName" /\ Registers(i))
    /\ \A i \in Containers : Registers(i) => ~ Named(i)
    /\ att.pc = "registerName" =>
          /\ Registers(att.request.id) /\ Listed(att.request.id)
          /\ dict_client_threads[att.request.id] # -1
ThreadNames(t) ==
    /\ cl[t].pc \notin {"removeLost", "failLost"}
    /\ cl[t].pc \in {"init", "loop"} =>
          \/ Listed(t[1]) /\ Named(t[1])
          \/ Registers(t[1]) /\ docker[t[1]] \notin {"finished", "leaving"}
    /\ cl[t].pc \in FailingPcs => Listed(t[1]) /\ Named(t[1]) /\ docker[t[1]] = "none"
    /\ cl[t].pc = "removeName" => Named(t[1]) /\ ~ Listed(t[1])
Names == ListNames /\ \A t \in Threads : ThreadNames(t)

\* Nobody launches again a container whose end is to be attended.
Ending(i) == \/ \E k \in 1 .. Len(q_finish_container) : q_finish_container[k].id = i
             \/ att.pc = "join" /\ att.joining = i
EndsOnce ==
    \A i \in Containers : Ending(i) =>
       /\ ~ Ordered(i)
       /\ dict_client_threads[i] \in 0 .. MaxFaults
       /\ cl[<<i, dict_client_threads[i]>>].pc \in {"removeName", "end", "done"}

EndIsEmpty ==
    /\ att.pc \in {"check2", "done"} => queue_empty(queue_pending_array)
    /\ att.pc = "done" => containerName_list = {}

Life == OrdersReady /\ OwnPeer /\ Names /\ EndsOnce /\ EndIsEmpty

-----------------------------------------------------------------------------
(* The operations on the queues.                                           *)

\* add_request puts one element at the end of one queue.
LEMMA AddElements ==
    ASSUME NEW q \in [QueueIds -> Seq(Request)], NEW r \in Request, NEW p \in QueueIds,
           NEW s \in QueueIds, NEW k \in 1 .. Len(add_request(q, p, r)[s])
    PROVE  \/ k \in 1 .. Len(q[s]) /\ add_request(q, p, r)[s][k] = q[s][k]
           \/ s = QueueOf(p) /\ k = Len(q[s]) + 1 /\ add_request(q, p, r)[s][k] = r
<1>1. QueueOf(p) \in QueueIds
  BY QueueTypes
<1>2. add_request(q, p, r)[s] = IF s = QueueOf(p) THEN Append(q[s], r) ELSE q[s]
  BY <1>1 DEF add_request
<1>3. q[s] \in Seq(Request)
  OBVIOUS
<1> DEFINE u == q[s]
<1>4. \A j \in 1 .. Len(Append(u, r)) :
         \/ j \in 1 .. Len(u) /\ Append(u, r)[j] = u[j]
         \/ j = Len(u) + 1 /\ Append(u, r)[j] = r
  <2>1. u \in Seq(Request)
    OBVIOUS
  <2> HIDE DEF u
  <2> QED
    BY <2>1
<1> QED
  BY <1>2, <1>4

\* Taking the head of a queue shifts the rest of it.
LEMMA TailElements ==
    ASSUME NEW q \in [QueueIds -> Seq(Request)], NEW p \in QueueIds, q[p] # <<>>
    PROVE  /\ Len(q[p]) \in Nat /\ 1 \in 1 .. Len(q[p]) /\ Head(q[p]) = q[p][1]
           /\ Head(q[p]) \in Request
           /\ [q EXCEPT ![p] = Tail(@)] \in [QueueIds -> Seq(Request)]
           /\ \A s \in QueueIds : \A k \in 1 .. Len([q EXCEPT ![p] = Tail(@)][s]) :
                 \/ /\ s # p /\ k \in 1 .. Len(q[s])
                    /\ [q EXCEPT ![p] = Tail(@)][s][k] = q[s][k]
                 \/ /\ s = p /\ k \in Nat /\ k + 1 \in 1 .. Len(q[p])
                    /\ [q EXCEPT ![p] = Tail(@)][s][k] = q[p][k + 1]
<1> DEFINE u == q[p]
<1>1. u \in Seq(Request) /\ u # <<>>
  OBVIOUS
<1>2. /\ Len(u) \in Nat /\ 1 \in 1 .. Len(u) /\ Head(u) = u[1] /\ Head(u) \in Request
      /\ Tail(u) \in Seq(Request)
      /\ \A k \in 1 .. Len(Tail(u)) : k \in Nat /\ k + 1 \in 1 .. Len(u) /\ Tail(u)[k] = u[k + 1]
  <2> HIDE DEF u
  <2> QED
    BY <1>1
<1>3. \A s \in QueueIds : [q EXCEPT ![p] = Tail(@)][s] = IF s = p THEN Tail(u) ELSE q[s]
  OBVIOUS
<1>4. [q EXCEPT ![p] = Tail(@)] \in [QueueIds -> Seq(Request)]
  BY <1>2
<1> QED
  BY <1>2, <1>3, <1>4

\* What the operations do to the orders of a container.
LEMMA AddOrder ==
    ASSUME NEW q \in [QueueIds -> Seq(Request)], NEW r \in Request, NEW p \in QueueIds,
           NEW i
    PROVE  /\ None(q, i) /\ ~ Launches(r, i) => None(add_request(q, p, r), i)
           /\ None(q, i) => AtMostOne(add_request(q, p, r), i)
           /\ AtMostOne(q, i) /\ ~ Launches(r, i) => AtMostOne(add_request(q, p, r), i)
<1> DEFINE a == add_request(q, p, r)
<1>1. \A s \in QueueIds : \A k \in 1 .. Len(a[s]) :
         \/ k \in 1 .. Len(q[s]) /\ a[s][k] = q[s][k]
         \/ s = QueueOf(p) /\ k = Len(q[s]) + 1 /\ a[s][k] = r
  BY AddElements
<1> HIDE DEF a
<1>2. None(q, i) /\ ~ Launches(r, i) => None(a, i)
  BY <1>1 DEF None
<1>3. None(q, i) => AtMostOne(a, i)
  BY <1>1 DEF None, AtMostOne
<1>4. AtMostOne(q, i) /\ ~ Launches(r, i) => AtMostOne(a, i)
  <2> SUFFICES ASSUME AtMostOne(q, i), ~ Launches(r, i),
                      NEW s \in QueueIds, NEW u \in QueueIds,
                      NEW k \in 1 .. Len(a[s]), NEW l \in 1 .. Len(a[u]),
                      Launches(a[s][k], i), Launches(a[u][l], i)
               PROVE  s = u /\ k = l
    BY ZenonT(40) DEF AtMostOne
  <2>1. k \in 1 .. Len(q[s]) /\ a[s][k] = q[s][k] /\ l \in 1 .. Len(q[u]) /\ a[u][l] = q[u][l]
    BY <1>1
  <2> QED
    BY <2>1 DEF AtMostOne
<1> QED
  BY <1>2, <1>3, <1>4 DEF a

LEMMA TakeOrder ==
    ASSUME NEW q \in [QueueIds -> Seq(Request)], NEW p \in QueueIds, q[p] # <<>>, NEW i
    PROVE  LET t == [q EXCEPT ![p] = Tail(@)]
           IN  /\ None(q, i) => None(t, i) /\ ~ Launches(Head(q[p]), i)
               /\ AtMostOne(q, i) => AtMostOne(t, i)
               /\ AtMostOne(q, i) /\ Launches(Head(q[p]), i) => None(t, i)
<1> DEFINE t == [q EXCEPT ![p] = Tail(@)]
<1>1. /\ Len(q[p]) \in Nat /\ 1 \in 1 .. Len(q[p]) /\ Head(q[p]) = q[p][1]
      /\ \A s \in QueueIds : \A k \in 1 .. Len(t[s]) :
            \/ s # p /\ k \in 1 .. Len(q[s]) /\ t[s][k] = q[s][k]
            \/ s = p /\ k \in Nat /\ k + 1 \in 1 .. Len(q[p]) /\ t[s][k] = q[p][k + 1]
  BY TailElements
<1> HIDE DEF t
<1>2. None(q, i) => None(t, i) /\ ~ Launches(Head(q[p]), i)
  BY <1>1, SMTT(30) DEF None
<1>3. ASSUME AtMostOne(q, i) PROVE AtMostOne(t, i)
  <2> SUFFICES ASSUME NEW s \in QueueIds, NEW u \in QueueIds,
                      NEW k \in 1 .. Len(t[s]), NEW l \in 1 .. Len(t[u]),
                      Launches(t[s][k], i), Launches(t[u][l], i)
               PROVE  s = u /\ k = l
    BY DEF AtMostOne
  <2>1. PICK m \in 1 .. Len(q[s]) : t[s][k] = q[s][m] /\ m = IF s = p THEN k + 1 ELSE k
    BY <1>1
  <2>2. PICK n \in 1 .. Len(q[u]) : t[u][l] = q[u][n] /\ n = IF u = p THEN l + 1 ELSE l
    BY <1>1
  <2>3. s = u /\ m = n
    BY <1>3, <2>1, <2>2, SMTT(30) DEF AtMostOne
  <2> QED
    BY <1>1, <2>1, <2>2, <2>3
<1>4. ASSUME AtMostOne(q, i), Launches(Head(q[p]), i) PROVE None(t, i)
  <2> SUFFICES ASSUME NEW s \in QueueIds, NEW k \in 1 .. Len(t[s]), Launches(t[s][k], i)
               PROVE  FALSE
    BY DEF None
  <2>1. PICK m \in 1 .. Len(q[s]) : /\ t[s][k] = q[s][m]
                                    /\ \/ s # p
                                       \/ s = p /\ k \in Nat /\ m = k + 1
    BY <1>1
  <2>2. s = p /\ m = 1
    BY <1>1, <1>4, <2>1 DEF AtMostOne
  <2>3. k = 0
    BY <2>1, <2>2
  <2> QED
    BY <2>3
<1> QED
  BY <1>2, <1>3, <1>4 DEF t

\* What the operations do to the elements of the queues.
LEMMA ElementsMove ==
    ASSUME NEW q \in [QueueIds -> Seq(Request)], NEW p \in QueueIds
    PROVE  /\ \A r \in Request : Elements(add_request(q, p, r)) \subseteq Elements(q) \cup {r}
           /\ q[p] # <<>> => /\ Elements([q EXCEPT ![p] = Tail(@)]) \subseteq Elements(q)
                             /\ Head(q[p]) \in Elements(q)
           /\ Elements(q) \subseteq Request
<1>0. Elements(q) \subseteq Request
  BY DEF Elements
<1>1. ASSUME NEW r \in Request, NEW x \in Elements(add_request(q, p, r))
      PROVE  x \in Elements(q) \cup {r}
  <2> DEFINE a == add_request(q, p, r)
  <2>1. PICK s \in QueueIds : \E k \in 1 .. Len(a[s]) : x = a[s][k]
    BY <1>1 DEF Elements
  <2>2. PICK k \in 1 .. Len(a[s]) : x = a[s][k]
    BY <2>1
  <2>3. (k \in 1 .. Len(q[s]) /\ a[s][k] = q[s][k]) \/ a[s][k] = r
    BY AddElements
  <2> HIDE DEF a
  <2>4. ASSUME k \in 1 .. Len(q[s]) PROVE q[s][k] \in Elements(q)
    BY <2>4 DEF Elements
  <2> QED
    BY <2>2, <2>3, <2>4
<1>2. ASSUME q[p] # <<>>, NEW x \in Elements([q EXCEPT ![p] = Tail(@)])
      PROVE  x \in Elements(q)
  <2> DEFINE t == [q EXCEPT ![p] = Tail(@)]
  <2>1. PICK s \in QueueIds : \E k \in 1 .. Len(t[s]) : x = t[s][k]
    BY <1>2 DEF Elements
  <2>2. PICK k \in 1 .. Len(t[s]) : x = t[s][k]
    BY <2>1
  <2>3. \E m \in 1 .. Len(q[s]) : t[s][k] = q[s][m]
    BY <1>2, TailElements
  <2> HIDE DEF t
  <2> QED
    BY <2>2, <2>3 DEF Elements
<1>3. q[p] # <<>> => Head(q[p]) \in Elements(q)
  BY TailElements DEF Elements
<1> QED
  BY <1>0, <1>1, <1>2, <1>3

\* An empty array of queues.
LEMMA NoOrder ==
    /\ \A i : None([p \in QueueIds |-> <<>>], i) /\ AtMostOne([p \in QueueIds |-> <<>>], i)
    /\ Elements([p \in QueueIds |-> <<>>]) = {}
    /\ \A q \in [QueueIds -> Seq(Request)] : \A i : queue_empty(q) => None(q, i)
<1> DEFINE e == [p \in QueueIds |-> <<>>]
<1>1. \A p \in QueueIds : 1 .. Len(e[p]) = {}
  OBVIOUS
<1> HIDE DEF e
<1>2. \A i : None(e, i) /\ AtMostOne(e, i)
  BY <1>1 DEF None, AtMostOne
<1>3. Elements(e) = {}
  BY <1>1 DEF Elements
<1>4. \A q \in [QueueIds -> Seq(Request)] : \A i : queue_empty(q) => None(q, i)
  BY DEF queue_empty, None
<1> QED
  BY <1>2, <1>3, <1>4 DEF e


\* A container that leaves the list leaves the others in their order.
LEMMA RemoveOne ==
    ASSUME NEW T, NEW l \in Seq(T), NEW k \in 1 .. Len(l)
    PROVE  /\ RemoveAt(l, k) \in Seq(T) /\ Len(RemoveAt(l, k)) = Len(l) - 1
           /\ \A a \in 1 .. Len(RemoveAt(l, k)) : RemoveAt(l, k)[a] = l[IF a < k THEN a ELSE a + 1]
<1>1. Len(l) \in Nat /\ k \in Nat /\ k >= 1 /\ k <= Len(l)
  OBVIOUS
<1> DEFINE a == SubSeq(l, 1, k - 1)
           b == SubSeq(l, k + 1, Len(l))
<1>2. a \in Seq(T) /\ Len(a) = k - 1 /\ \A j \in 1 .. k - 1 : a[j] = l[j]
  BY <1>1
<1>3. b \in Seq(T) /\ Len(b) = Len(l) - k /\ \A j \in 1 .. Len(l) - k : b[j] = l[k + j]
  BY <1>1
<1>4. RemoveAt(l, k) = a \o b
  BY DEF RemoveAt
<1> HIDE DEF a, b
<1>5. a \o b \in Seq(T) /\ Len(a \o b) = Len(l) - 1
  <2>1. a \in Seq(T) /\ b \in Seq(T)
    BY <1>2, <1>3
  <2>2. Len(a \o b) = Len(a) + Len(b)
    BY <2>1
  <2>3. a \o b \in Seq(T)
    BY <2>1
  <2> QED
    BY <1>1, <1>2, <1>3, <2>2, <2>3
<1>6. ASSUME NEW j \in 1 .. Len(l) - 1 PROVE (a \o b)[j] = l[IF j < k THEN j ELSE j + 1]
  <2>1. CASE j < k
    <3>1. j \in 1 .. Len(a) /\ (a \o b)[j] = a[j]
      BY <1>1, <1>2, <1>3, <2>1
    <3> QED
      BY <1>2, <2>1, <3>1
  <2>2. CASE ~ (j < k)
    <3>1. (a \o b)[j] = b[j - Len(a)]
      BY <1>1, <1>2, <1>3, <2>2
    <3>2. j - Len(a) \in 1 .. Len(l) - k /\ k + (j - Len(a)) = j + 1
      BY <1>1, <1>2, <2>2
    <3> QED
      BY <1>3, <2>2, <3>1, <3>2
  <2> QED
    BY <2>1, <2>2
<1> QED
  BY <1>4, <1>5, <1>6
-----------------------------------------------------------------------------
(* What the steps leave alone.                                             *)

Handling == {"schedule", "accept", "register", "registerName", "updating", "post", "excess",
             "excessWrite"}

\* update_parallelism does not look at the state.
LEMMA UpdateKeepsState ==
    ASSUME NEW c \in ExecutionInfo, NEW x, NEW y
    PROVE  update_parallelism(c, x, y).state = c.state
BY DEF update_parallelism, ExecutionInfo

\* Waiting, finish requests, reassignment and the search for requests leave the
\* orders where they are, and the attention thread has none before and after.
Idle == \/ IsFinishQueues \/ IsFinishRest \/ Wait \/ Wake \/ Finishing \/ Reassigning
        \/ Pending \/ New \/ NewEnd \/ PostWrite

LEMMA IdleStep ==
    ASSUME TypeOK, Idle
    PROVE  /\ att'.request = att.request /\ att'.ok = att.ok /\ att'.q_aux = att.q_aux
           /\ att.pc \notin Handling /\ att'.pc \notin Handling
           /\ UNCHANGED <<rows, queue_array, queue_pending_array, clients, execInfo_list, docker,
                          containerName_list, backlog>>
           /\ \A i \in Containers : info'[i].state = "failed" => info[i].state = "failed"
<1> USE DEF lists, queues, world, clients, generator
<1> DEFINE Rest == /\ UNCHANGED <<rows, queue_array, queue_pending_array, clients, execInfo_list,
                                   docker, containerName_list, backlog>>
                   /\ \A i \in Containers : info'[i].state = "failed" => info[i].state = "failed"
           Att == /\ att'.request = att.request /\ att'.ok = att.ok /\ att'.q_aux = att.q_aux
                  /\ att.pc \notin Handling /\ att'.pc \notin Handling
<1>0. att \in AttentionLocals /\ att.after \in {"pend", "occ"}
  <2>1. att \in AttentionLocals
    BY Known
  <2> QED
    BY <2>1 DEF AttentionLocals
<1>1. CASE IsFinishQueues
  <2>1. Rest
    BY <1>1 DEF IsFinishQueues
  <2>2. Att
    BY <1>0, <1>1 DEF IsFinishQueues, AttentionLocals, Handling
  <2> QED
    BY <2>1, <2>2
<1>2. CASE IsFinishRest
  <2>1. Rest
    BY <1>2 DEF IsFinishRest
  <2>2. Att
    BY <1>0, <1>2 DEF IsFinishRest, AttentionLocals, Handling
  <2> QED
    BY <2>1, <2>2
<1>3. CASE Wait
  <2>1. Rest
    BY <1>3 DEF Wait
  <2>2. Att
    BY <1>0, <1>3 DEF Wait, AttentionLocals, Handling
  <2> QED
    BY <2>1, <2>2
<1>4. CASE Wake
  <2>1. Rest
    BY <1>4 DEF Wake
  <2>2. Att
    BY <1>0, <1>4 DEF Wake, AttentionLocals, Handling
  <2> QED
    BY <2>1, <2>2
<1>5. CASE FinishRequest
  <2>1. Rest
    BY <1>5 DEF FinishRequest
  <2>2. Att
    BY <1>0, <1>5 DEF FinishRequest, AttentionLocals, Handling
  <2> QED
    BY <2>1, <2>2
<1>6. CASE Join
  <2>1. Rest
    BY <1>6 DEF Join
  <2>2. Att
    BY <1>0, <1>6 DEF Join, AttentionLocals, Handling
  <2> QED
    BY <2>1, <2>2
<1>7. CASE Reassign
  <2>1. Rest
    BY <1>7 DEF Reassign
  <2>2. Att
    BY <1>0, <1>7, ZenonT(40) DEF Reassign, AttentionLocals, Handling
  <2> QED
    BY <2>1, <2>2
<1>8. CASE LockList
  <2>1. Rest
    BY <1>8 DEF LockList
  <2>2. Att
    BY <1>0, <1>8, ZenonT(40) DEF LockList, AttentionLocals, Handling
  <2> QED
    BY <2>1, <2>2
<1>9. CASE GiveNext
  <2>1. Rest
    BY <1>9 DEF GiveNext
  <2>2. Att
    <3> DEFINE d == Decision(info[execInfo_list[att.idx]], att.avail, att.share)
    <3>1. att.pc = "give" /\ att' \in {[att EXCEPT !.idx = @ + 1], [att EXCEPT !.pc = "given", !.give = d]}
      BY <1>9 DEF GiveNext
    <3> HIDE DEF d
    <3> QED
      BY <1>0, <3>1, ZenonT(40) DEF AttentionLocals, Handling
  <2> QED
    BY <2>1, <2>2
<1>10. CASE GiveWrite
  <2>1. Rest
    BY <1>10, UpdateKeepsState, SMTT(30) DEF GiveWrite, TypeOK
  <2>2. Att
    BY <1>0, <1>10 DEF GiveWrite, AttentionLocals, Handling
  <2> QED
    BY <2>1, <2>2
<1>11. CASE GiveEnd
  <2>1. Rest
    BY <1>11 DEF GiveEnd
  <2>2. Att
    BY <1>0, <1>11 DEF GiveEnd, AttentionLocals, Handling
  <2> QED
    BY <2>1, <2>2
<1>12. CASE GiveBack
  <2>1. Rest
    BY <1>12 DEF GiveBack
  <2>2. Att
    BY <1>0, <1>12 DEF GiveBack, AttentionLocals, Handling
  <2> QED
    BY <2>1, <2>2
<1>13. CASE Pending
  <2>1. Rest
    BY <1>13 DEF Pending
  <2>2. Att
    <3> DEFINE f == IF Assignment = "max_prop" THEN calculate_factor_prop(check_resources(cores_used))
                    ELSE att.factor
               avail == check_resources(cores_used)
    <3>1. /\ att.pc = "pend"
          /\ att' \in {[att EXCEPT !.pc = "dead"], [att EXCEPT !.pc = "new"],
                       [att EXCEPT !.pc = "take", !.phase = "pending", !.avail = avail, !.factor = f]}
      BY <1>0, <1>13 DEF Pending
    <3> HIDE DEF f, avail
    <3>2. \A x \in {"dead", "new"} :
             LET b == [att EXCEPT !.pc = x]
             IN  b.request = att.request /\ b.ok = att.ok /\ b.q_aux = att.q_aux /\ b.pc = x
      BY <1>0 DEF AttentionLocals
    <3>3. LET b == [att EXCEPT !.pc = "take", !.phase = "pending", !.avail = avail, !.factor = f]
          IN  b.request = att.request /\ b.ok = att.ok /\ b.q_aux = att.q_aux /\ b.pc = "take"
      BY <1>0 DEF AttentionLocals
    <3> QED
      BY <3>1, <3>2, <3>3 DEF Handling
  <2> QED
    BY <2>1, <2>2
<1>14. CASE New
  <2>1. Rest
    BY <1>14 DEF New
  <2>2. Att
    BY <1>0, <1>14 DEF New, AttentionLocals, Handling
  <2> QED
    BY <2>1, <2>2
<1>15. CASE NewEnd
  <2>1. Rest
    BY <1>15 DEF NewEnd
  <2>2. Att
    BY <1>0, <1>15 DEF NewEnd, AttentionLocals, Handling
  <2> QED
    BY <2>1, <2>2
<1>16. CASE PostWrite
  <2>1. Rest
    BY <1>16 DEF PostWrite
  <2>2. Att
    BY <1>0, <1>16 DEF PostWrite, AttentionLocals, Handling
  <2> QED
    BY <2>1, <2>2
<1> QED
  BY <1>1, <1>2, <1>3, <1>4, <1>5, <1>6, <1>7, <1>8, <1>9, <1>10, <1>11, <1>12, <1>13, <1>14, <1>15, <1>16 DEF Idle, Finishing, Reassigning

\* Within schedule_request and updateExecutionInstance the attention thread keeps
\* its request; it is done with a launch when the container is registered.
Handles == \/ ScheduleLaunch \/ AcceptTimeout \/ RegisterRestart \/ RegisterStart \/ RegisterName
           \/ ScheduleUpdate \/ UpdateWrite \/ SendFails \/ ExcessRead \/ ExcessWrite

LEMMA HandlesStep ==
    ASSUME TypeOK, Handles
    PROVE  /\ att'.request = att.request /\ att'.q_aux = att.q_aux
           /\ \A i : Undertaken(i)' => Undertaken(i)
           /\ att'.pc \notin {"take", "register", "wait", "check", "check2", "done", "join"}
           /\ att'.pc = "accept" => att.pc = "accept" \/ IsLaunch(att.request)
           /\ UNCHANGED <<rows, queue_array, queue_pending_array, clients, backlog,
                          q_finish_container>>
<1> USE DEF lists, queues, world, clients, generator
<1>0. att \in AttentionLocals
  BY Known
<1>1. CASE ScheduleLaunch
  <2>1. /\ att'.request = att.request /\ att'.q_aux = att.q_aux
        /\ att.pc = "schedule" /\ att'.pc \in {"post", "accept", "dead"}
    BY <1>0, <1>1 DEF ScheduleLaunch, AttentionLocals
  <2> QED
    BY <1>1, <2>1 DEF ScheduleLaunch, Undertaken
<1>2. CASE AcceptTimeout
  <2>1. /\ att'.request = att.request /\ att'.q_aux = att.q_aux
        /\ att.pc = "accept" /\ att'.pc \in {"post", "excess", "accept"}
    BY <1>0, <1>2 DEF AcceptTimeout, AfterSchedule, AttentionLocals
  <2> QED
    BY <1>2, <2>1 DEF AcceptTimeout, Undertaken
<1>3. CASE RegisterRestart
  <2>1. /\ att'.request = att.request /\ att'.q_aux = att.q_aux
        /\ att'.ok /\ att'.pc \in {"post", "excess"}
    BY <1>0, <1>3 DEF RegisterRestart, AfterSchedule, AttentionLocals
  <2> QED
    BY <1>3, <2>1 DEF RegisterRestart, Undertaken
<1>4. CASE RegisterStart
  <2>1. /\ att'.request = att.request /\ att'.q_aux = att.q_aux
        /\ att'.pc = "registerName"
    BY <1>0, <1>4 DEF RegisterStart, AttentionLocals
  <2> QED
    BY <1>4, <2>1 DEF RegisterStart, Undertaken
<1>5. CASE RegisterName
  <2>1. /\ att'.request = att.request /\ att'.q_aux = att.q_aux
        /\ att'.ok /\ att'.pc \in {"post", "excess"}
    BY <1>0, <1>5 DEF RegisterName, AfterSchedule, AttentionLocals
  <2> QED
    BY <1>5, <2>1 DEF RegisterName, Undertaken
<1>6. CASE ScheduleUpdate
  <2>1. /\ att'.request = att.request /\ att'.q_aux = att.q_aux
        /\ att'.pc \in {"post", "updating"} /\ ~ IsLaunch(att.request)
    BY <1>0, <1>6 DEF ScheduleUpdate, IsLaunch, AttentionLocals
  <2> QED
    BY <1>6, <2>1 DEF ScheduleUpdate, Undertaken, Launches
<1>7. CASE UpdateWrite
  <2>1. /\ att'.request = att.request /\ att'.q_aux = att.q_aux
        /\ att'.ok /\ att'.pc \in {"post", "excess"}
    BY <1>0, <1>7 DEF UpdateWrite, AfterSchedule, AttentionLocals
  <2> QED
    BY <1>7, <2>1 DEF UpdateWrite, Undertaken
<1>8. CASE SendFails
  <2>1. att'.request = att.request /\ att'.q_aux = att.q_aux /\ att'.pc = "dead"
    BY <1>0, <1>8 DEF SendFails, AttentionLocals
  <2> QED
    BY <1>8, <2>1 DEF SendFails, Undertaken
<1>9. CASE ExcessRead \/ ExcessWrite
  <2>1. /\ att'.request = att.request /\ att'.q_aux = att.q_aux /\ att'.ok = att.ok
        /\ att.pc \in {"excess", "excessWrite"} /\ att'.pc \in {"post", "excessWrite"}
    BY <1>0, <1>9 DEF ExcessRead, ExcessWrite, AttentionLocals
  <2> QED
    BY <1>9, <2>1 DEF ExcessRead, ExcessWrite, Undertaken
<1> QED
  BY <1>1, <1>2, <1>3, <1>4, <1>5, <1>6, <1>7, <1>8, <1>9 DEF Handles

\* A client thread that does not queue a restart only goes on with its own work.
Proceeds(t) ==
    \/ ClientInit(t) \/ ClientExit(t) \/ ClientRemoveName(t) \/ ClientRemoveRaises(t) \/ FailRead(t)
    \/ FailRaises(t) \/ FailMark(t) \/ FailLock(t) \/ FailFree(t) \/ FailNotify(t) \/ ClientEnd(t)
    \/ ClientFail(t)

LEMMA ProceedsStep ==
    ASSUME TypeOK, NEW t \in Threads, Proceeds(t)
    PROVE  /\ UNCHANGED <<rows, queue_array, queue_pending_array, att, dict_client_threads, backlog>>
           /\ \A u \in Threads : /\ cl'[u].peer = cl[u].peer
                                 /\ u # t => cl'[u] = cl[u]
           /\ cl'[t].pc \in WorkingPcs => cl[t].pc \in WorkingPcs
           /\ cl'[t].pc \notin {"none"} /\ cl[t].pc # "none"
<1> USE DEF lists, queues, world, clients, generator, WorkingPcs
<1>0. cl \in [Threads -> ClientLocals]
  BY DEF TypeOK
<1>1. CASE ClientInit(t) \/ ClientExit(t) \/ ClientRemoveName(t) \/ ClientRemoveRaises(t)
  BY <1>0, <1>1 DEF ClientInit, ClientExit, ClientRemoveName, ClientRemoveRaises, ClientLocals
<1>2. CASE FailRead(t) \/ FailRaises(t) \/ FailMark(t) \/ FailLock(t)
  BY <1>0, <1>2 DEF FailRead, FailRaises, FailMark, FailLock, ClientLocals
<1>3. CASE FailFree(t) \/ FailNotify(t)
  BY <1>0, <1>3 DEF FailFree, FailNotify, ClientLocals
<1>4. CASE ClientEnd(t) \/ ClientFail(t)
  BY <1>0, <1>4 DEF ClientEnd, ClientFail, Watching, ClientLocals
<1> QED
  BY <1>1, <1>2, <1>3, <1>4 DEF Proceeds


\* Where those steps change the list and the states of its containers.
LEMMA HandlesList ==
    ASSUME TypeOK, Handles
    PROVE  /\ RegisterStart \/ UNCHANGED execInfo_list
           /\ RegisterName \/ UNCHANGED containerName_list
           /\ \A i \in Containers : info'[i].state = "failed" => info[i].state = "failed"
           /\ \A i \in Containers : info[i].state = "failed" /\ info'[i].state # "failed" =>
                 (RegisterStart \/ RegisterRestart) /\ i = att.request.id
<1> USE DEF lists, queues, world, clients, generator
<1>0. info \in [Containers -> ExecutionInfo] /\ att.request.id \in Containers
  BY Known, RequestFields DEF TypeOK
<1>1. CASE ScheduleLaunch \/ AcceptTimeout
  BY <1>1 DEF ScheduleLaunch, AcceptTimeout
<1>2. CASE RegisterRestart
  <2>1. \A i \in Containers : i # att.request.id => info'[i] = info[i]
    BY <1>0, <1>2 DEF RegisterRestart
  <2>2. info'[att.request.id].state \in {"start", info[att.request.id].state}
    BY <1>0, <1>2 DEF RegisterRestart, ExecutionInfo
  <2> QED
    BY <1>0, <1>2, <2>1, <2>2 DEF RegisterRestart
<1>3. CASE RegisterStart
  <2>1. \A i \in Containers : i # att.request.id => info'[i] = info[i]
    BY <1>0, <1>3 DEF RegisterStart
  <2>2. info'[att.request.id].state = "start"
    BY <1>0, <1>3 DEF RegisterStart
  <2> QED
    BY <1>0, <1>3, <2>1, <2>2 DEF RegisterStart
<1>4. CASE RegisterName
  BY <1>4 DEF RegisterName
<1>5. CASE ScheduleUpdate
  BY <1>5 DEF ScheduleUpdate
<1>6. CASE UpdateWrite
  <2>1. \A i \in Containers : i # att.request.id => info'[i] = info[i]
    BY <1>0, <1>6 DEF UpdateWrite
  <2>2. info'[att.request.id].state = info[att.request.id].state
    BY <1>0, <1>6, UpdateKeepsState DEF UpdateWrite
  <2> QED
    BY <1>0, <1>6, <2>1, <2>2 DEF UpdateWrite
<1>7. CASE SendFails \/ ExcessRead \/ ExcessWrite
  BY <1>7 DEF SendFails, ExcessRead, ExcessWrite
<1> QED
  BY <1>1, <1>2, <1>3, <1>4, <1>5, <1>6, <1>7 DEF Handles

-----------------------------------------------------------------------------
(* Steps that move no order.                                               *)

LEMMA NoMove ==
    ASSUME TypeOK, RowsDiffer, QueuesDiffer, OnePlace, LastWorks, StartsAreFirst,
           UNCHANGED <<rows, queue_array, queue_pending_array, dict_client_threads>>,
           att'.q_aux = att.q_aux \/ att'.q_aux = [p \in QueueIds |-> <<>>],
           \A i : Undertaken(i)' => Undertaken(i),
           \A t \in Threads : Working(t)' => Working(t),
           att'.request = att.request \/ ~ Undertaken(att.request.id)'
    PROVE  RowsDiffer' /\ QueuesDiffer' /\ OnePlace' /\ LastWorks' /\ StartsAreFirst'
<1>1. \A i : /\ None(att.q_aux, i) => None(att'.q_aux, i)
             /\ AtMostOne(att.q_aux, i) => AtMostOne(att'.q_aux, i)
  BY NoOrder
<1>2. Elements(att'.q_aux) \subseteq Elements(att.q_aux)
  BY NoOrder
<1>3. \A i \in Containers : /\ Works(i)' => Works(i)
                            /\ InRows(i)' <=> InRows(i)
  BY DEF Works, InRows, Threads
<1>4. RowsDiffer'
  BY DEF RowsDiffer
<1>5. QueuesDiffer'
  BY <1>1 DEF QueuesDiffer
<1>6. OnePlace'
  BY <1>1, <1>3 DEF OnePlace
<1>7. LastWorks'
  BY DEF LastWorks
<1>8. StartsAreFirst'
  BY <1>2, <1>3 DEF StartsAreFirst, NewIn
<1> QED
  BY <1>4, <1>5, <1>6, <1>7, <1>8

\* Steps that list nobody.
LEMMA NobodyListed ==
    ASSUME TypeOK, ListedLater, Accepting,
           UNCHANGED <<execInfo_list, dict_client_threads>>,
           \A i \in Containers : info'[i].state = "failed" => info[i].state = "failed",
           \A t \in Threads : cl'[t].pc = "failMark" => cl[t].pc = "failMark" \/ Listed(t[1]),
           att'.pc = "register" => att' = att,
           att'.pc = "accept" => IsLaunch(att'.request)
    PROVE  ListedLater' /\ Accepting'
<1>1. \A i \in Containers : Unknown(i) => Unknown(i)'
  BY DEF Unknown, Listed
<1>2. att.request.id \in Containers
  BY Known, RequestFields
<1>3. ListedLater'
  <2>1. \A i \in Containers : dict_client_threads'[i] = -1 => Unknown(i)'
    BY <1>1 DEF ListedLater
  <2>2. att'.pc = "register" /\ att'.request.kind = "Start" => Unknown(att.request.id)'
    BY <1>1, <1>2 DEF ListedLater
  <2>3. \A t \in Threads : cl'[t].pc = "failMark" => Listed(t[1])'
    BY DEF ListedLater, Listed
  <2> QED
    BY <2>1, <2>2, <2>3 DEF ListedLater
<1>4. Accepting'
  BY DEF Accepting
<1> QED
  BY <1>3, <1>4

LEMMA OrdersIdle == TypeOK /\ Orders /\ Idle => Orders'
<1> SUFFICES ASSUME TypeOK, Orders, Idle PROVE Orders'
  OBVIOUS
<1>1. /\ att'.request = att.request /\ att'.q_aux = att.q_aux /\ att'.pc \notin Handling
      /\ UNCHANGED <<rows, queue_array, queue_pending_array, clients, execInfo_list>>
      /\ \A i \in Containers : info'[i].state = "failed" => info[i].state = "failed"
  BY IdleStep
<1>2. \A i : ~ Undertaken(i)'
  BY <1>1 DEF Undertaken, Handling
<1>3. \A t \in Threads : Working(t)' => Working(t)
  BY <1>1 DEF Working, clients
<1>4. RowsDiffer' /\ QueuesDiffer' /\ OnePlace' /\ LastWorks' /\ StartsAreFirst'
  BY <1>1, <1>2, <1>3, NoMove DEF Orders, clients
<1>5. ListedLater' /\ Accepting'
  BY <1>1, NobodyListed DEF Orders, clients, Handling
<1> QED
  BY <1>4, <1>5 DEF Orders

\* Handling a request moves no order; a Start that is registered was not listed.
LEMMA OrdersHandles == TypeOK /\ Orders /\ Handles => Orders'
<1> SUFFICES ASSUME TypeOK, Orders, Handles PROVE Orders'
  OBVIOUS
<1> USE DEF clients
<1>1. /\ att'.request = att.request /\ att'.q_aux = att.q_aux
      /\ \A i : Undertaken(i)' => Undertaken(i)
      /\ att'.pc # "register"
      /\ att'.pc = "accept" => att.pc = "accept" \/ IsLaunch(att.request)
      /\ UNCHANGED <<rows, queue_array, queue_pending_array, clients>>
  BY HandlesStep
<1>2. \A t \in Threads : Working(t)' => Working(t)
  BY <1>1 DEF Working
<1>3. RowsDiffer' /\ QueuesDiffer' /\ OnePlace' /\ LastWorks' /\ StartsAreFirst'
  BY <1>1, <1>2, NoMove DEF Orders
<1>4. Accepting'
  BY <1>1 DEF Orders, Accepting
<1>5. /\ RegisterStart \/ UNCHANGED execInfo_list
      /\ \A i \in Containers : info'[i].state = "failed" => info[i].state = "failed"
  BY HandlesList
<1>6. CASE UNCHANGED execInfo_list
  <2>1. att'.pc = "accept" => IsLaunch(att'.request)
    BY <1>1 DEF Orders, Accepting
  <2>2. \A t \in Threads : cl'[t].pc = "failMark" => cl[t].pc = "failMark"
    BY <1>1
  <2>3. ListedLater'
    BY <1>1, <1>5, <1>6, <2>1, <2>2, NobodyListed DEF Orders
  <2> QED
    BY <1>3, <1>4, <2>3 DEF Orders
<1>7. CASE RegisterStart
  <2> DEFINE i == att.request.id
             l == execInfo_list
  <2>1. /\ i \in Containers /\ Unknown(i) /\ dict_client_threads[i] # -1
        /\ execInfo_list' = Append(execInfo_list, i)
    BY <1>7, Known, RequestFields DEF RegisterStart, Orders, ListedLater, Accepting
  <2>2. l \in Seq(Containers)
    BY DEF TypeOK
  <2>3. /\ \A k \in 1 .. Len(Append(l, i)) :
              \/ k \in 1 .. Len(l) /\ Append(l, i)[k] = l[k]
              \/ k = Len(l) + 1 /\ Append(l, i)[k] = i
        /\ \A k \in 1 .. Len(l) : k \in 1 .. Len(Append(l, i)) /\ Append(l, i)[k] = l[k]
        /\ DOMAIN l = 1 .. Len(l) /\ DOMAIN Append(l, i) = 1 .. Len(Append(l, i))
    <3> HIDE DEF l, i
    <3> QED
      BY <2>1, <2>2
  <2>4. \A j : Listed(j)' => Listed(j) \/ j = i
    BY <2>1, <2>3 DEF Listed
  <2>5. \A j : Listed(j) => Listed(j)'
    BY <2>1, <2>3 DEF Listed
  <2>6. \A j \in Containers : dict_client_threads'[j] = -1 => Unknown(j)'
    BY <1>1, <1>5, <2>1, <2>4 DEF Unknown, Orders, ListedLater
  <2>7. \A t \in Threads : cl'[t].pc = "failMark" => Listed(t[1])'
    BY <1>1, <2>5 DEF Orders, ListedLater
  <2>8. \A k, m \in 1 .. Len(execInfo_list') : execInfo_list'[k] = execInfo_list'[m] => k = m
    <3>1. \A k \in 1 .. Len(l) : l[k] # i
      BY <2>1, <2>3 DEF Unknown, Listed
    <3>2. \A k, m \in 1 .. Len(l) : l[k] = l[m] => k = m
      BY DEF Orders, ListedLater
    <3>3. execInfo_list' = Append(l, i)
      BY <2>1
    <3> HIDE DEF l
    <3> QED
      BY <2>3, <3>1, <3>2, <3>3
  <2>9. ListedLater'
    BY <1>1, <2>6, <2>7, <2>8 DEF ListedLater
  <2> QED
    BY <1>3, <1>4, <2>9 DEF Orders
<1> QED
  BY <1>5, <1>6, <1>7

\* The thread of a container that ends takes it out of the list, and only it.
LEMMA ExitList ==
    ASSUME TypeOK, ListedLater, NEW t \in Threads, ClientExit(t)
    PROVE  /\ UNCHANGED execInfo_list \/ Listed(t[1])
           /\ \A i \in Containers : i # t[1] /\ Listed(i) => Listed(i)'
           /\ \A i \in Containers : Listed(i)' => Listed(i) /\ (i = t[1] => UNCHANGED execInfo_list)
           /\ \A a, b \in 1 .. Len(execInfo_list') : execInfo_list'[a] = execInfo_list'[b] => a = b
           /\ Listed(t[1]) => ~ UNCHANGED execInfo_list
<1> USE DEF lists, queues, world, generator
<1> DEFINE l == execInfo_list
<1>1. /\ l \in Seq(Containers) /\ DOMAIN l = 1 .. Len(l) /\ Len(l) \in Nat
      /\ \A a, b \in 1 .. Len(l) : l[a] = l[b] => a = b
  BY DEF TypeOK, ListedLater
<1>2. CASE ~ Listed(t[1])
  <2>1. execInfo_list' = execInfo_list
    BY <1>2 DEF ClientExit
  <2> QED
    BY <1>1, <1>2, <2>1 DEF Listed
<1>3. CASE Listed(t[1])
  <2>1. PICK k \in 1 .. Len(l) : l[k] = t[1] /\ execInfo_list' = RemoveAt(l, k)
    BY <1>1, <1>3 DEF ClientExit
  <2>2. /\ Len(RemoveAt(l, k)) = Len(l) - 1 /\ RemoveAt(l, k) \in Seq(Containers)
        /\ \A a \in 1 .. Len(RemoveAt(l, k)) : RemoveAt(l, k)[a] = l[IF a < k THEN a ELSE a + 1]
    BY <1>1, RemoveOne
  <2>3. DOMAIN RemoveAt(l, k) = 1 .. Len(RemoveAt(l, k)) /\ k \in Nat /\ RemoveAt(l, k) # l
    BY <1>1, <2>2
  <2> HIDE DEF l
  <2>4. \A i : i # t[1] /\ (\E a \in 1 .. Len(l) : l[a] = i)
                  => \E a \in 1 .. Len(RemoveAt(l, k)) : RemoveAt(l, k)[a] = i
    <3> SUFFICES ASSUME NEW a \in 1 .. Len(l), l[a] # t[1]
                 PROVE  \E b \in 1 .. Len(RemoveAt(l, k)) : RemoveAt(l, k)[b] = l[a]
      OBVIOUS
    <3> DEFINE b == IF a < k THEN a ELSE a - 1
    <3>1. b \in 1 .. Len(RemoveAt(l, k)) /\ (IF b < k THEN b ELSE b + 1) = a
      BY <1>1, <2>1, <2>2
    <3> QED
      BY <2>2, <3>1
  <2>5. \A a, b \in 1 .. Len(RemoveAt(l, k)) : RemoveAt(l, k)[a] = RemoveAt(l, k)[b] => a = b
    BY <1>1, <2>2, <2>3
  <2>6. \A a \in 1 .. Len(RemoveAt(l, k)) :
           \E b \in 1 .. Len(l) : b # k /\ RemoveAt(l, k)[a] = l[b]
    BY <1>1, <2>2, <2>3
  <2>7. \A a \in 1 .. Len(RemoveAt(l, k)) : RemoveAt(l, k)[a] # t[1]
    BY <1>1, <2>1, <2>6
  <2>8. \A i \in Containers : i # t[1] /\ Listed(i) => Listed(i)'
    BY <1>1, <2>1, <2>3, <2>4 DEF l, Listed
  <2>9. \A i \in Containers : Listed(i)' => Listed(i) /\ i # t[1]
    <3> SUFFICES ASSUME NEW i \in Containers, Listed(i)' PROVE Listed(i) /\ i # t[1]
      OBVIOUS
    <3>1. PICK a \in 1 .. Len(RemoveAt(l, k)) : RemoveAt(l, k)[a] = i
      BY <2>1, <2>3 DEF Listed
    <3>2. PICK b \in 1 .. Len(l) : RemoveAt(l, k)[a] = l[b]
      BY <2>6
    <3> QED
      BY <1>1, <2>7, <3>1, <3>2 DEF l, Listed
  <2> QED
    BY <1>3, <2>1, <2>3, <2>5, <2>8, <2>9 DEF l
<1> QED
  BY <1>2, <1>3

\* The work of a client thread moves no order before it queues a Restart; the
\* thread of a listed container takes it out of the list and its record stays.
LEMMA OrdersProceeds ==
    ASSUME TypeOK, Orders, NEW t \in Threads, Proceeds(t)
    PROVE  Orders'
<1> USE DEF lists, queues, world, generator
<1>0. cl \in [Threads -> ClientLocals] /\ t[1] \in Containers /\ info \in [Containers -> ExecutionInfo]
  BY DEF TypeOK, Threads
<1>1. /\ UNCHANGED <<rows, queue_array, queue_pending_array, att, dict_client_threads>>
      /\ \A u \in Threads : u # t => cl'[u] = cl[u]
      /\ cl'[t].pc \in WorkingPcs => cl[t].pc \in WorkingPcs
  BY ProceedsStep
<1>2. \A u \in Threads : Working(u)' => Working(u)
  BY <1>1 DEF Working
<1>3. \A i : Undertaken(i)' => Undertaken(i)
  BY <1>1 DEF Undertaken
<1>4. RowsDiffer' /\ QueuesDiffer' /\ OnePlace' /\ LastWorks' /\ StartsAreFirst'
  BY <1>1, <1>2, <1>3, NoMove DEF Orders
<1>5. Accepting'
  BY <1>1 DEF Orders, Accepting
<1>6. CASE ClientExit(t)
  <2>1. /\ UNCHANGED info /\ cl[t].pc = "loop" /\ cl'[t].pc \in {"removeName", "removeLost"}
    BY <1>0, <1>6 DEF ClientExit, ClientLocals
  <2>2. CASE UNCHANGED execInfo_list
    <3>1. \A u \in Threads : cl'[u].pc = "failMark" => cl[u].pc = "failMark"
      BY <1>1, <2>1
    <3>2. ListedLater'
      BY <1>1, <2>1, <2>2, <3>1, NobodyListed DEF Orders, Accepting
    <3> QED
      BY <1>4, <1>5, <3>2 DEF Orders
  <2>3. CASE ~ UNCHANGED execInfo_list
    <3>1. /\ \A i \in Containers : i # t[1] /\ Listed(i) => Listed(i)'
          /\ \A i \in Containers : Listed(i)' => Listed(i)
          /\ \A a, b \in 1 .. Len(execInfo_list') : execInfo_list'[a] = execInfo_list'[b] => a = b
      BY <1>6, <2>3, ExitList DEF Orders
    <3>2. \A i \in Containers : Unknown(i) => Unknown(i)'
      BY <2>1, <3>1 DEF Unknown
    <3>3. ASSUME NEW u \in Threads, cl'[u].pc = "failMark" PROVE Listed(u[1])'
      <4>1. cl[u].pc = "failMark" /\ u # t
        BY <1>1, <2>1, <3>3
      <4>2. Working(u) /\ Working(t)
        BY <2>1, <4>1 DEF Working, WorkingPcs
      <4>3. u[1] # t[1] /\ u[1] \in Containers
        BY <4>1, <4>2 DEF Orders, LastWorks, Threads
      <4> QED
        BY <3>1, <4>1, <4>3 DEF Orders, ListedLater
    <3>4. att.request.id \in Containers
      BY Known, RequestFields
    <3>5. ListedLater'
      BY <1>1, <3>1, <3>2, <3>3, <3>4 DEF Orders, ListedLater
    <3> QED
      BY <1>4, <1>5, <3>5 DEF Orders
  <2> QED
    BY <2>2, <2>3
<1>7. CASE FailMark(t)
  <2>1. /\ cl[t].pc = "failMark" /\ UNCHANGED execInfo_list
        /\ \A i \in Containers : i # t[1] => info'[i] = info[i]
        /\ cl'[t].pc = "failLock"
    BY <1>0, <1>7 DEF FailMark, ClientLocals
  <2>2. Listed(t[1])
    BY <2>1 DEF Orders, ListedLater
  <2>3. \A i \in Containers : Unknown(i) => Unknown(i)'
    BY <2>1, <2>2 DEF Unknown, Listed
  <2>4. att.request.id \in Containers
    BY Known, RequestFields
  <2>5. \A u \in Threads : cl'[u].pc = "failMark" => Listed(u[1])'
    BY <1>1, <2>1 DEF Orders, ListedLater, Listed
  <2>6. ListedLater'
    BY <1>1, <2>1, <2>3, <2>4, <2>5 DEF Orders, ListedLater
  <2> QED
    BY <1>4, <1>5, <2>6 DEF Orders
<1>8. CASE ~ ClientExit(t) /\ ~ FailMark(t)
  <2>1. UNCHANGED <<execInfo_list, info>> /\ (cl'[t].pc = "failMark" => Listed(t[1]))
    <3>1. CASE ClientInit(t) \/ ClientRemoveName(t) \/ ClientRemoveRaises(t)
      BY <1>0, <3>1 DEF ClientInit, ClientRemoveName, ClientRemoveRaises, ClientLocals
    <3>2. CASE FailRead(t) \/ FailRaises(t) \/ FailLock(t) \/ FailFree(t) \/ FailNotify(t)
      BY <1>0, <3>2 DEF FailRead, FailRaises, FailLock, FailFree, FailNotify, ClientLocals
    <3>3. CASE ClientEnd(t) \/ ClientFail(t)
      BY <1>0, <3>3 DEF ClientEnd, ClientFail, ClientLocals
    <3> QED
      BY <1>8, <3>1, <3>2, <3>3 DEF Proceeds
  <2>2. \A u \in Threads : cl'[u].pc = "failMark" => cl[u].pc = "failMark" \/ Listed(u[1])
    BY <1>1, <2>1
  <2>3. ListedLater'
    BY <1>1, <2>1, <2>2, NobodyListed DEF Orders, Accepting
  <2> QED
    BY <1>4, <1>5, <2>3 DEF Orders
<1> QED
  BY <1>6, <1>7, <1>8

-----------------------------------------------------------------------------
(* Steps that move an order.                                               *)

\* A row becomes the request of a container that had no order.
LEMMA OrdersReadRow == TypeOK /\ Orders /\ ReadRow => Orders'
<1> SUFFICES ASSUME TypeOK, Orders, ReadRow PROVE Orders'
  OBVIOUS
<1> USE DEF lists, queues, world, generator
<1> DEFINE h == Head(rows)
           r == RequestOf(h)
<1>1. /\ rows \in Seq(Row) /\ rows # <<>> /\ queue_array \in [QueueIds -> Seq(Request)]
      /\ rows' = Tail(rows) /\ queue_array' = add_request(queue_array, h.priority, r)
      /\ UNCHANGED <<queue_pending_array, att, dict_client_threads, cl, execInfo_list, info>>
  BY DEF ReadRow, TypeOK, clients
<1>2. /\ Len(rows) \in Nat /\ 1 \in 1 .. Len(rows) /\ h = rows[1] /\ h \in Row
      /\ \A k \in 1 .. Len(rows') : k \in Nat /\ k + 1 \in 1 .. Len(rows) /\ rows'[k] = rows[k + 1]
  BY <1>1
<1>3. /\ r \in Request /\ h.priority \in QueueIds /\ r.id = h.id
      /\ \A i : Launches(r, i) <=> h.kind = "execution" /\ h.id = i
      /\ r.kind = "Start" => h.kind = "execution"
  BY <1>2 DEF RequestOf, Request, Row, Launches, IsLaunch
<1>4. \A i : /\ Undertaken(i)' <=> Undertaken(i)
             /\ Works(i)' <=> Works(i)
  BY <1>1 DEF Undertaken, Works, Working
<1> HIDE DEF r, h
<1>5. \A i : InRows(i)' => InRows(i)
  BY <1>2 DEF InRows
<1>6. \A i : h.kind = "execution" /\ i = h.id => InRows(i) /\ ~ InRows(i)'
  <2>1. h.kind = "execution" => InRows(h.id)
    BY <1>2 DEF InRows
  <2>2. ASSUME h.kind = "execution", NEW k \in 1 .. Len(rows'), rows'[k].kind = "execution",
               rows'[k].id = h.id
        PROVE  FALSE
    <3>1. k + 1 = 1
      BY <1>2, <2>2 DEF Orders, RowsDiffer
    <3> QED
      BY <1>2, <2>2, <3>1
  <2> QED
    BY <2>1, <2>2 DEF InRows
<1>7. RowsDiffer'
  <2> SUFFICES ASSUME NEW a \in 1 .. Len(rows'), NEW b \in 1 .. Len(rows'),
                      rows'[a].kind = "execution", rows'[b].kind = "execution",
                      rows'[a].id = rows'[b].id
               PROVE  a = b
    BY DEF RowsDiffer
  <2>1. a + 1 = b + 1
    BY <1>2 DEF Orders, RowsDiffer
  <2> QED
    BY <1>2, <2>1
<1>8. \A i : /\ None(queue_array, i) /\ ~ Launches(r, i) => None(queue_array', i)
             /\ None(queue_array, i) => AtMostOne(queue_array', i)
             /\ AtMostOne(queue_array, i) /\ ~ Launches(r, i) => AtMostOne(queue_array', i)
  BY <1>1, <1>3, AddOrder
<1>9. ASSUME NEW i \in Containers PROVE Launches(r, i) => InRows(i) /\ ~ InRows(i)'
  BY <1>3, <1>6
<1>10. QueuesDiffer'
  BY <1>1, <1>8, <1>9 DEF Orders, QueuesDiffer, OnePlace
<1>11. OnePlace'
  BY <1>1, <1>4, <1>5, <1>8, <1>9 DEF Orders, OnePlace
<1>12. LastWorks'
  BY <1>1 DEF Orders, LastWorks, Working
<1>13. StartsAreFirst'
  <2>1. Elements(queue_array') \subseteq Elements(queue_array) \cup {r}
    BY <1>1, <1>3, ElementsMove
  <2>2. r.kind = "Start" => InRows(r.id) /\ r.id \in Containers
    BY <1>2, <1>3, <1>6 DEF Row
  <2> QED
    BY <1>1, <1>4, <1>5, <2>1, <2>2 DEF Orders, StartsAreFirst, NewIn
<1>14. ListedLater' /\ Accepting'
  BY <1>1, NobodyListed DEF Orders, Accepting
<1> QED
  BY <1>7, <1>10, <1>11, <1>12, <1>13, <1>14 DEF Orders

\* The attention thread takes the head of a queue into its hands.
LEMMA OrdersTakeRequest == TypeOK /\ Orders /\ TakeRequest => Orders'
<1> SUFFICES ASSUME TypeOK, Orders, TakeRequest PROVE Orders'
  OBVIOUS
<1> USE DEF lists, queues, world, generator
<1> DEFINE q == IF att.phase = "pending" THEN queue_pending_array ELSE queue_array
<1>1. PICK p \in QueueIds :
         LET r == Head(q[p])
             granted == schedule_resources(r, att.avail)
         IN  /\ IsFirstNonEmpty(q, p)
             /\ IF att.phase = "pending"
                THEN /\ queue_pending_array' = [q EXCEPT ![p] = Tail(@)]
                     /\ UNCHANGED queue_array
                ELSE /\ queue_array' = [q EXCEPT ![p] = Tail(@)]
                     /\ UNCHANGED queue_pending_array
             /\ att' = [att EXCEPT !.pc = IF granted # 0 THEN "schedule" ELSE "post",
                                   !.request = r, !.granted = granted, !.ok = FALSE]
  BY DEF TakeRequest
<1> DEFINE r == Head(q[p])
           t == [q EXCEPT ![p] = Tail(@)]
<1>2. /\ q \in [QueueIds -> Seq(Request)] /\ q[p] # <<>> /\ att.pc = "take"
      /\ UNCHANGED <<rows, dict_client_threads, cl, execInfo_list, info>>
  BY <1>1 DEF TakeRequest, TypeOK, clients, IsFirstNonEmpty
<1>3. /\ att'.pc \in {"schedule", "post"} /\ att'.request = r /\ att'.q_aux = att.q_aux
  <2>1. att \in AttentionLocals
    BY Known
  <2> DEFINE g == schedule_resources(r, att.avail)
  <2>2. att' = [att EXCEPT !.pc = IF g # 0 THEN "schedule" ELSE "post",
                           !.request = r, !.granted = g, !.ok = FALSE]
    BY <1>1
  <2> HIDE DEF g, r
  <2> QED
    BY <2>1, <2>2 DEF AttentionLocals
<1>4. /\ \A i : /\ None(q, i) => None(t, i) /\ ~ Launches(r, i)
                /\ AtMostOne(q, i) => AtMostOne(t, i)
                /\ AtMostOne(q, i) /\ Launches(r, i) => None(t, i)
      /\ Elements(t) \subseteq Elements(q) /\ r \in Elements(q)
  BY <1>2, TakeOrder, ElementsMove
<1>5. \/ queue_pending_array' = t /\ q = queue_pending_array /\ UNCHANGED queue_array
      \/ queue_array' = t /\ q = queue_array /\ UNCHANGED queue_pending_array
  BY <1>1
<1>6. \A i : ~ Undertaken(i) /\ (Undertaken(i)' => Launches(r, i))
  BY <1>2, <1>3 DEF Undertaken
<1>7. \A i : /\ InRows(i)' <=> InRows(i)
             /\ Works(i)' <=> Works(i)
  BY <1>2 DEF InRows, Works, Working
<1> HIDE DEF t, r, q
<1>8. QueuesDiffer'
  BY <1>3, <1>4, <1>5 DEF Orders, QueuesDiffer
<1>9. OnePlace'
  BY <1>3, <1>4, <1>5, <1>6, <1>7 DEF Orders, OnePlace, QueuesDiffer
<1>10. RowsDiffer' /\ LastWorks'
  BY <1>2 DEF Orders, RowsDiffer, LastWorks, Working
<1>11. StartsAreFirst'
  BY <1>2, <1>3, <1>4, <1>5, <1>7 DEF Orders, StartsAreFirst, NewIn
<1>12. ListedLater' /\ Accepting'
  BY <1>2, <1>3, NobodyListed DEF Orders
<1> QED
  BY <1>8, <1>9, <1>10, <1>11, <1>12 DEF Orders

\* The requests put aside go back to the pending queues.
LEMMA OrdersPendingEnd == TypeOK /\ Orders /\ PendingEnd => Orders'
<1> SUFFICES ASSUME TypeOK, Orders, PendingEnd PROVE Orders'
  OBVIOUS
<1> USE DEF lists, queues, world, generator
<1>1. /\ queue_pending_array \in [QueueIds -> Seq(Request)] /\ queue_empty(queue_pending_array)
      /\ queue_pending_array' = att.q_aux
      /\ UNCHANGED <<rows, queue_array, dict_client_threads, cl, execInfo_list, info>>
  BY DEF PendingEnd, TypeOK, clients
<1>2. /\ att.pc = "take" /\ att'.pc = "new" /\ att'.request = att.request
      /\ att'.q_aux = [p \in QueueIds |-> <<>>]
  BY Known DEF PendingEnd, AttentionLocals
<1>3. \A i : None(att'.q_aux, i) /\ AtMostOne(att'.q_aux, i)
  BY <1>2, NoOrder
<1>4. Elements(att'.q_aux) = {}
  BY <1>2, NoOrder
<1>5. \A i : ~ Undertaken(i) /\ ~ Undertaken(i)'
  BY <1>2 DEF Undertaken
<1>6. \A i : /\ InRows(i)' <=> InRows(i)
             /\ Works(i)' <=> Works(i)
  BY <1>1 DEF InRows, Works, Working
<1>7. QueuesDiffer'
  BY <1>1, <1>3 DEF Orders, QueuesDiffer
<1>8. OnePlace'
  BY <1>1, <1>3, <1>5, <1>6 DEF Orders, OnePlace
<1>9. RowsDiffer' /\ LastWorks'
  BY <1>1 DEF Orders, RowsDiffer, LastWorks, Working
<1>10. StartsAreFirst'
  BY <1>1, <1>2, <1>4, <1>5, <1>6 DEF Orders, StartsAreFirst, NewIn
<1>11. ListedLater' /\ Accepting'
  BY <1>1, <1>2, NobodyListed DEF Orders
<1> QED
  BY <1>7, <1>8, <1>9, <1>10, <1>11 DEF Orders

\* A request that was not served is put aside, or becomes pending.
LEMMA OrdersPostPending == TypeOK /\ Orders /\ PostPending => Orders'
<1> SUFFICES ASSUME TypeOK, Orders, PostPending PROVE Orders'
  OBVIOUS
<1> USE DEF lists, queues, world, generator
<1>1. UNCHANGED <<rows, queue_array, queue_pending_array, dict_client_threads, cl, execInfo_list, info>>
  BY DEF PostPending, clients
<1>2. /\ att.pc = "post" /\ att'.pc = "take"
      /\ att'.q_aux = IF att.ok THEN att.q_aux
                      ELSE add_request(att.q_aux, att.request.priority, att.request)
  BY Known DEF PostPending, AttentionLocals
<1>3. /\ att.q_aux \in [QueueIds -> Seq(Request)] /\ att.request \in Request
      /\ att.request.priority \in QueueIds
  BY Known, RequestFields
<1>4. \A i : ~ Undertaken(i)' /\ (Launches(att.request, i) /\ ~ att.ok => Undertaken(i))
  BY <1>2 DEF Undertaken
<1>5. \A i : /\ InRows(i)' <=> InRows(i)
             /\ Works(i)' <=> Works(i)
  BY <1>1 DEF InRows, Works, Working
<1>6. ListedLater' /\ Accepting'
  BY <1>1, <1>2, NobodyListed DEF Orders
<1>7. CASE att.ok
  <2>1. \A t \in Threads : Working(t)' => Working(t)
    BY <1>1 DEF Working
  <2>2. RowsDiffer' /\ QueuesDiffer' /\ OnePlace' /\ LastWorks' /\ StartsAreFirst'
    BY <1>1, <1>2, <1>4, <1>7, <2>1, NoMove DEF Orders
  <2> QED
    BY <1>6, <2>2 DEF Orders
<1>8. CASE ~ att.ok
  <2>1. \A i : /\ None(att.q_aux, i) /\ ~ Launches(att.request, i) => None(att'.q_aux, i)
               /\ None(att.q_aux, i) => AtMostOne(att'.q_aux, i)
               /\ AtMostOne(att.q_aux, i) /\ ~ Launches(att.request, i) => AtMostOne(att'.q_aux, i)
    BY <1>2, <1>3, <1>8, AddOrder
  <2>2. Elements(att'.q_aux) \subseteq Elements(att.q_aux) \cup {att.request}
    BY <1>2, <1>3, <1>8, ElementsMove, ZenonT(40)
  <2>3. QueuesDiffer'
    BY <1>1, <1>4, <1>8, <2>1 DEF Orders, QueuesDiffer, OnePlace
  <2>4. OnePlace'
    BY <1>1, <1>4, <1>5, <1>8, <2>1 DEF Orders, OnePlace
  <2>5. RowsDiffer' /\ LastWorks'
    BY <1>1 DEF Orders, RowsDiffer, LastWorks, Working
  <2>6. StartsAreFirst'
    <3>1. att.request.kind = "Start" => dict_client_threads[att.request.id] = -1
      BY <1>4, <1>8 DEF Orders, StartsAreFirst, Launches, IsLaunch
    <3> QED
      BY <1>1, <1>4, <1>5, <2>2, <3>1 DEF Orders, StartsAreFirst, NewIn
  <2> QED
    BY <1>6, <2>3, <2>4, <2>5, <2>6 DEF Orders
<1> QED
  BY <1>7, <1>8

LEMMA OrdersPostNew == TypeOK /\ Orders /\ PostNew => Orders'
<1> SUFFICES ASSUME TypeOK, Orders, PostNew PROVE Orders'
  OBVIOUS
<1> USE DEF lists, queues, world, generator
<1>1. UNCHANGED <<rows, queue_array, dict_client_threads, cl, execInfo_list, info>>
  BY DEF PostNew, clients
<1>2. /\ att.pc = "post" /\ att'.pc \in {"relock", "postWrite"}
      /\ att'.q_aux = att.q_aux /\ att'.request = att.request
  BY Known, ZenonT(40) DEF PostNew, AttentionLocals
<1>3. /\ queue_pending_array \in [QueueIds -> Seq(Request)] /\ att.request \in Request
      /\ att.request.priority \in QueueIds
  BY Known, RequestFields DEF TypeOK
<1>4. \A i : ~ Undertaken(i)' /\ (Launches(att.request, i) /\ ~ att.ok => Undertaken(i))
  BY <1>2 DEF Undertaken
<1>5. \A i : /\ InRows(i)' <=> InRows(i)
             /\ Works(i)' <=> Works(i)
  BY <1>1 DEF InRows, Works, Working
<1>6. ListedLater' /\ Accepting'
  BY <1>1, <1>2, NobodyListed DEF Orders
<1>7. CASE UNCHANGED queue_pending_array
  <2>1. \A t \in Threads : Working(t)' => Working(t)
    BY <1>1 DEF Working
  <2>2. RowsDiffer' /\ QueuesDiffer' /\ OnePlace' /\ LastWorks' /\ StartsAreFirst'
    BY <1>1, <1>2, <1>4, <1>7, <2>1, NoMove DEF Orders
  <2> QED
    BY <1>6, <2>2 DEF Orders
<1>8. CASE ~ att.ok /\ queue_pending_array' =
                          add_request(queue_pending_array, att.request.priority, att.request)
  <2>1. \A i : /\ None(queue_pending_array, i) /\ ~ Launches(att.request, i)
                     => None(queue_pending_array', i)
               /\ None(queue_pending_array, i) => AtMostOne(queue_pending_array', i)
               /\ AtMostOne(queue_pending_array, i) /\ ~ Launches(att.request, i)
                     => AtMostOne(queue_pending_array', i)
    BY <1>3, <1>8, AddOrder
  <2>2. Elements(queue_pending_array') \subseteq Elements(queue_pending_array) \cup {att.request}
    BY <1>3, <1>8, ElementsMove
  <2>3. QueuesDiffer'
    BY <1>1, <1>2, <1>4, <1>8, <2>1 DEF Orders, QueuesDiffer, OnePlace
  <2>4. OnePlace'
    BY <1>1, <1>2, <1>4, <1>5, <1>8, <2>1 DEF Orders, OnePlace
  <2>5. RowsDiffer' /\ LastWorks'
    BY <1>1 DEF Orders, RowsDiffer, LastWorks, Working
  <2>6. StartsAreFirst'
    <3>1. att.request.kind = "Start" => dict_client_threads[att.request.id] = -1
      BY <1>4, <1>8 DEF Orders, StartsAreFirst, Launches, IsLaunch
    <3> QED
      BY <1>1, <1>2, <1>4, <1>5, <2>2, <3>1 DEF Orders, StartsAreFirst, NewIn
  <2> QED
    BY <1>6, <2>3, <2>4, <2>5, <2>6 DEF Orders
<1> QED
  BY <1>7, <1>8 DEF PostNew

\* The attention thread is done with its request.
LEMMA OrdersRoundEnds == TypeOK /\ Orders /\ (Relock \/ Occupation) => Orders'
<1> SUFFICES ASSUME TypeOK, Orders, Relock \/ Occupation PROVE Orders'
  OBVIOUS
<1> USE DEF lists, queues, world, generator
<1>1. UNCHANGED <<rows, queues, dict_client_threads, cl, execInfo_list, info>>
  BY DEF Relock, Occupation, clients
<1>2. /\ att'.pc \in {"take", "dead", "check"}
      /\ att'.q_aux = att.q_aux \/ att'.q_aux = [p \in QueueIds |-> <<>>]
  <2>1. att \in AttentionLocals
    BY Known
  <2>2. CASE Relock
    BY <2>1, <2>2 DEF Relock, AttentionLocals
  <2>3. CASE Occupation
    BY <2>1, <2>3 DEF Occupation, AttentionAt, AttentionLocals
  <2> QED
    BY <2>2, <2>3
<1>3. \A i : ~ Undertaken(i)'
  BY <1>2 DEF Undertaken
<1>4. \A t \in Threads : Working(t)' => Working(t)
  BY <1>1 DEF Working
<1>5. RowsDiffer' /\ QueuesDiffer' /\ OnePlace' /\ LastWorks' /\ StartsAreFirst'
  BY <1>1, <1>2, <1>3, <1>4, NoMove DEF Orders
<1>6. ListedLater' /\ Accepting'
  BY <1>1, <1>2, NobodyListed DEF Orders
<1> QED
  BY <1>5, <1>6 DEF Orders

\* accept() starts the thread that works for the container from now on.
LEMMA OrdersAccept == TypeOK /\ Orders /\ Accept => Orders'
<1> SUFFICES ASSUME TypeOK, Orders, Accept PROVE Orders'
  OBVIOUS
<1> USE DEF lists, queues, world, generator
<1> DEFINE i == att.request.id
<1>1. PICK n \in 0 .. MaxFaults :
         /\ n = dict_client_threads[i] + 1
         /\ dict_client_threads' = [dict_client_threads EXCEPT ![i] = n]
         /\ cl' = [cl EXCEPT ![<<i, n>>].pc = "init", ![<<i, n>>].peer = Head(backlog)]
  BY DEF Accept
<1>2. UNCHANGED <<rows, queue_array, queue_pending_array, execInfo_list, info>>
  BY DEF Accept
<1>3. /\ att.pc = "accept" /\ att'.pc = "register"
      /\ att'.q_aux = att.q_aux /\ att'.request = att.request
  BY Known DEF Accept, AttentionLocals
<1>4. /\ i \in Containers /\ dict_client_threads \in [Containers -> -1 .. MaxFaults]
      /\ cl \in [Threads -> ClientLocals] /\ <<i, n>> \in Threads
  BY Known, RequestFields DEF TypeOK, Threads
<1>5. /\ cl'[<<i, n>>].pc = "init" /\ dict_client_threads'[i] = n /\ n # -1
      /\ \A t \in Threads : t # <<i, n>> => cl'[t] = cl[t]
      /\ \A j \in Containers : j # i => dict_client_threads'[j] = dict_client_threads[j]
  <2>1. \A t \in Threads : t # <<i, n>> => cl'[t] = cl[t]
    BY <1>1, <1>4
  <2>2. cl'[<<i, n>>].pc = "init"
    BY <1>1, <1>4 DEF ClientLocals
  <2> QED
    BY <1>1, <1>4, <2>1, <2>2
<1>6. Undertaken(i) /\ ~ Works(i) /\ \A j : ~ Undertaken(j)'
  BY <1>3, <1>4 DEF Undertaken, Launches, Orders, Accepting, OnePlace
<1>7. \A j \in Containers : /\ InRows(j)' <=> InRows(j)
                            /\ j # i /\ Works(j)' => Works(j)
  <2>1. \A j \in Containers : InRows(j)' <=> InRows(j)
    BY <1>2 DEF InRows
  <2>2. ASSUME NEW j \in Containers, j # i, Works(j)' PROVE Works(j)
    <3>1. PICK m \in 0 .. MaxFaults : Working(<<j, m>>)'
      BY <2>2 DEF Works
    <3>2. <<j, m>> \in Threads /\ <<j, m>> # <<i, n>>
      BY <2>2 DEF Threads
    <3> QED
      BY <1>5, <3>1, <3>2 DEF Works, Working
  <2> QED
    BY <2>1, <2>2
<1>8. RowsDiffer' /\ QueuesDiffer'
  BY <1>2, <1>3 DEF Orders, RowsDiffer, QueuesDiffer
<1>9. OnePlace'
  <2>1. /\ ~ InRows(i) /\ None(queue_array, i) /\ None(queue_pending_array, i)
        /\ None(att.q_aux, i)
    BY <1>4, <1>6 DEF Orders, OnePlace
  <2>2. SUFFICES ASSUME NEW j \in Containers
                 PROVE  /\ InRows(j)' => /\ None(queue_array, j)' /\ None(queue_pending_array, j)'
                                         /\ None(att.q_aux, j)' /\ ~ Works(j)'
                        /\ ~ None(queue_array, j)' => /\ None(queue_pending_array, j)'
                                                      /\ None(att.q_aux, j)' /\ ~ Works(j)'
                        /\ ~ None(queue_pending_array, j)' => None(att.q_aux, j)' /\ ~ Works(j)'
                        /\ ~ None(att.q_aux, j)' => ~ Works(j)'
    BY <1>6 DEF OnePlace
  <2>3. CASE j = i
    BY <1>2, <1>3, <1>7, <2>1, <2>3
  <2>4. CASE j # i
    BY <1>2, <1>3, <1>7, <2>4 DEF Orders, OnePlace
  <2> QED
    BY <2>3, <2>4
<1>10. LastWorks'
  <2> SUFFICES ASSUME NEW t \in Threads, Working(t)'
               PROVE  t[2] = dict_client_threads'[t[1]]
    BY DEF LastWorks
  <2>1. CASE t = <<i, n>>
    BY <1>5, <2>1
  <2>2. CASE t # <<i, n>>
    <3>1. Working(t) /\ t[1] \in Containers /\ t[2] \in 0 .. MaxFaults /\ t = <<t[1], t[2]>>
      BY <1>5, <2>2 DEF Working, Threads
    <3>2. t[1] # i
      BY <1>6, <3>1 DEF Works
    <3> QED
      BY <1>5, <3>1, <3>2 DEF Orders, LastWorks
  <2> QED
    BY <2>1, <2>2
<1>11. StartsAreFirst'
  <2>1. \A j \in Containers : InRows(j)' => dict_client_threads'[j] = -1
    BY <1>4, <1>5, <1>6, <1>7 DEF Orders, StartsAreFirst, OnePlace
  <2>2. /\ None(queue_array, i) /\ None(queue_pending_array, i) /\ None(att.q_aux, i)
    BY <1>4, <1>6 DEF Orders, OnePlace
  <2>3. ASSUME NEW q \in [QueueIds -> Seq(Request)], NewIn(q), None(q, i),
               NEW r \in Elements(q), r.kind = "Start"
        PROVE  dict_client_threads'[r.id] = -1
    <3>1. r.id # i
      <4>1. \E p \in QueueIds : \E k \in 1 .. Len(q[p]) : r = q[p][k]
        BY DEF Elements
      <4> QED
        BY <2>3, <4>1 DEF None, Launches, IsLaunch
    <3>2. r.id \in Containers
      BY <1>4, <2>3, ElementsMove, QueueTypes, RequestFields
    <3> QED
      BY <1>5, <2>3, <3>1, <3>2 DEF NewIn
  <2>4. NewIn(queue_array)' /\ NewIn(queue_pending_array)' /\ NewIn(att.q_aux)'
    <3>1. /\ queue_array \in [QueueIds -> Seq(Request)]
          /\ queue_pending_array \in [QueueIds -> Seq(Request)]
          /\ att.q_aux \in [QueueIds -> Seq(Request)]
      BY Known DEF TypeOK
    <3>2. NewIn(queue_array) /\ NewIn(queue_pending_array) /\ NewIn(att.q_aux)
      BY DEF Orders, StartsAreFirst
    <3>3. /\ \A r \in Elements(queue_array) : r.kind = "Start" => dict_client_threads'[r.id] = -1
          /\ \A r \in Elements(queue_pending_array) :
                r.kind = "Start" => dict_client_threads'[r.id] = -1
          /\ \A r \in Elements(att.q_aux) : r.kind = "Start" => dict_client_threads'[r.id] = -1
      BY <2>2, <2>3, <3>1, <3>2
    <3> QED
      BY <1>2, <1>3, <3>3 DEF NewIn
  <2>5. ~ Undertaken(att.request.id)'
    BY <1>6
  <2> QED
    BY <2>1, <2>4, <2>5 DEF StartsAreFirst
<1>12. ListedLater'
  <2>1. \A j : Unknown(j)' <=> Unknown(j)
    BY <1>2 DEF Unknown, Listed
  <2>2. \A j \in Containers : dict_client_threads'[j] = -1 => Unknown(j)'
    BY <1>5, <2>1 DEF Orders, ListedLater
  <2>3. att'.request.kind = "Start" => Unknown(att.request.id)'
    <3>1. att.request.kind = "Start" => dict_client_threads[i] = -1
      BY <1>6 DEF Orders, StartsAreFirst
    <3> QED
      BY <1>3, <1>4, <2>1, <3>1 DEF Orders, ListedLater
  <2>4. \A t \in Threads : cl'[t].pc = "failMark" => Listed(t[1])'
    BY <1>2, <1>5 DEF Orders, ListedLater, Listed
  <2> QED
    BY <1>2, <2>2, <2>3, <2>4 DEF Orders, ListedLater
<1>13. Accepting'
  BY <1>3, <1>5 DEF Orders, Accepting
<1> QED
  BY <1>8, <1>9, <1>10, <1>11, <1>12, <1>13 DEF Orders

\* container_failed_attention queues the Restart of the container it worked for.
LEMMA OrdersFailQueue ==
    ASSUME TypeOK, Orders, NEW t \in Threads, FailQueue(t)
    PROVE  Orders'
<1> USE DEF lists, queues, world, generator
<1> DEFINE i == t[1]
           r == [kind |-> "Restart", id |-> i, inter |-> cl[t].inter, intra |-> cl[t].intra,
                 priority |-> info[i].priority]
<1>1. /\ queue_array' = add_request(queue_array, info[i].priority, r)
      /\ UNCHANGED <<rows, queue_pending_array, att, dict_client_threads, execInfo_list, info>>
  BY DEF FailQueue
<1>2. /\ i \in Containers /\ t[2] \in 0 .. MaxFaults /\ t = <<i, t[2]>>
      /\ queue_array \in [QueueIds -> Seq(Request)]
      /\ cl \in [Threads -> ClientLocals] /\ info[i] \in ExecutionInfo
  BY DEF Threads, TypeOK
<1>3. /\ r \in Request /\ info[i].priority \in QueueIds
      /\ \A j : Launches(r, j) <=> j = i
  BY <1>2 DEF Request, ExecutionInfo, ClientLocals, Launches, IsLaunch
<1>4. /\ cl[t].pc = "failQueue" /\ cl'[t].pc = "failNotify"
      /\ \A u \in Threads : u # t => cl'[u] = cl[u]
  BY <1>2 DEF FailQueue, ClientLocals
<1>5. Works(i) /\ ~ Works(i)'
  <2>1. Working(t)
    BY <1>4 DEF Working, WorkingPcs
  <2>2. ASSUME NEW m \in 0 .. MaxFaults, Working(<<i, m>>)' PROVE FALSE
    <3>1. <<i, m>> \in Threads /\ <<i, m>>[1] = i /\ <<i, m>>[2] = m
      BY <1>2 DEF Threads
    <3>2. <<i, m>> # t
      BY <1>4, <2>2 DEF Working, WorkingPcs
    <3>3. Working(<<i, m>>)
      BY <1>4, <2>2, <3>1, <3>2 DEF Working
    <3>4. m = dict_client_threads[i] /\ t[2] = dict_client_threads[i]
      BY <2>1, <3>1, <3>3 DEF Orders, LastWorks
    <3> QED
      BY <1>2, <3>2, <3>4
  <2>3. Works(i)
    BY <1>2, <2>1 DEF Works
  <2>4. ~ Works(i)'
    BY <2>2 DEF Works
  <2> QED
    BY <2>3, <2>4
<1>6. /\ \A u \in Threads : Working(u)' => Working(u)
      /\ \A j \in Containers : Works(j)' => Works(j)
  <2>1. \A u \in Threads : Working(u)' => Working(u)
    BY <1>4 DEF Working, WorkingPcs
  <2> QED
    BY <2>1 DEF Works, Threads
<1>7. \A j : /\ InRows(j)' <=> InRows(j)
             /\ Undertaken(j)' <=> Undertaken(j)
  BY <1>1 DEF InRows, Undertaken
<1> HIDE DEF r
<1>8. \A j : /\ None(queue_array, j) /\ ~ Launches(r, j) => None(queue_array', j)
             /\ None(queue_array, j) => AtMostOne(queue_array', j)
             /\ AtMostOne(queue_array, j) /\ ~ Launches(r, j) => AtMostOne(queue_array', j)
  BY <1>1, <1>2, <1>3, AddOrder
<1>9. /\ ~ InRows(i) /\ None(queue_array, i) /\ None(queue_pending_array, i)
      /\ None(att.q_aux, i) /\ ~ Undertaken(i)
  BY <1>2, <1>5 DEF Orders, OnePlace
<1>10. QueuesDiffer'
  BY <1>1, <1>3, <1>8, <1>9 DEF Orders, QueuesDiffer
<1>11. OnePlace'
  BY <1>1, <1>3, <1>5, <1>6, <1>7, <1>8, <1>9 DEF Orders, OnePlace
<1>12. RowsDiffer' /\ LastWorks'
  BY <1>1, <1>6 DEF Orders, RowsDiffer, LastWorks
<1>13. StartsAreFirst'
  <2>1. Elements(queue_array') \subseteq Elements(queue_array) \cup {r} /\ r.kind = "Restart"
    <3>1. r.kind = "Restart"
      BY DEF r
    <3> QED
      BY <1>1, <1>2, <1>3, <3>1, ElementsMove, ZenonT(40)
  <2> QED
    BY <1>1, <1>7, <2>1 DEF Orders, StartsAreFirst, NewIn
<1>14. ListedLater' /\ Accepting'
  <2>1. \A u \in Threads : cl'[u].pc = "failMark" => cl[u].pc = "failMark"
    BY <1>4
  <2> QED
    BY <1>1, <2>1, NobodyListed DEF Orders, Accepting
<1> QED
  BY <1>10, <1>11, <1>12, <1>13, <1>14 DEF Orders

\* What is left: the end of the request thread, and docker.
LEMMA OrdersQuiet ==
    TypeOK /\ Orders /\ UNCHANGED <<rows, queues, lists, att, clients>> => Orders'
<1> SUFFICES ASSUME TypeOK, Orders, UNCHANGED <<rows, queues, lists, att, clients>> PROVE Orders'
  OBVIOUS
<1> USE DEF lists, queues, clients
<1>1. /\ \A i : Undertaken(i)' => Undertaken(i)
      /\ \A t \in Threads : Working(t)' => Working(t)
  BY DEF Undertaken, Working
<1>2. RowsDiffer' /\ QueuesDiffer' /\ OnePlace' /\ LastWorks' /\ StartsAreFirst'
  BY <1>1, NoMove DEF Orders
<1>3. ListedLater' /\ Accepting'
  BY NobodyListed DEF Orders, Accepting
<1> QED
  BY <1>2, <1>3 DEF Orders

LEMMA OrdersInit == Init => Orders
<1> SUFFICES ASSUME Init PROVE Orders
  OBVIOUS
<1>1. /\ \A i : /\ None(queue_array, i) /\ None(queue_pending_array, i) /\ None(att.q_aux, i)
                /\ AtMostOne(queue_array, i) /\ AtMostOne(queue_pending_array, i)
                /\ AtMostOne(att.q_aux, i)
      /\ Elements(queue_array) = {} /\ Elements(queue_pending_array) = {} /\ Elements(att.q_aux) = {}
  BY NoOrder DEF Init, AttentionAt
<1>2. \A i : ~ Undertaken(i) /\ ~ (att.pc \in {"accept", "register"})
  BY DEF Init, AttentionAt, Undertaken
<1>3. \A t \in Threads : cl[t].pc = "none"
  BY DEF Init
<1>4. \A i \in Containers : ~ Works(i)
  <2>1. \A i \in Containers : \A n \in 0 .. MaxFaults : <<i, n>> \in Threads
    BY DEF Threads
  <2> QED
    BY <1>3, <2>1 DEF Works, Working, WorkingPcs
<1>5. RowsDiffer
  BY SchedulerAssumption DEF Init, RowsDiffer
<1>6. QueuesDiffer /\ OnePlace
  BY <1>1, <1>2, <1>4 DEF QueuesDiffer, OnePlace
<1>7. LastWorks
  BY <1>3 DEF LastWorks, Working, WorkingPcs
<1>8. StartsAreFirst
  <2>1. \A i \in Containers : dict_client_threads[i] = -1
    BY DEF Init
  <2> QED
    BY <1>1, <1>2, <2>1 DEF StartsAreFirst, NewIn
<1>9. ListedLater /\ Accepting
  <2>1. execInfo_list = <<>> /\ \A i \in Containers : info[i].state = "start"
    BY DEF Init
  <2> QED
    BY <1>2, <1>3, <2>1 DEF ListedLater, Accepting, Unknown, Listed
<1> QED
  BY <1>5, <1>6, <1>7, <1>8, <1>9 DEF Orders

LEMMA OrdersStep == TypeOK /\ Orders /\ [Next]_vars => Orders'
<1> SUFFICES ASSUME TypeOK, Orders, [Next]_vars PROVE Orders'
  OBVIOUS
<1>1. CASE ReadShortRow \/ NotifyRow \/ EndRequests \/ UNCHANGED vars
  <2>1. UNCHANGED <<rows, queues, lists, att, clients>>
    BY <1>1 DEF ReadShortRow, NotifyRow, EndRequests, vars, generator
  <2> QED
    BY <2>1, OrdersQuiet
<1>2. CASE \E i \in Containers : ContainerConnects(i) \/ TrainingEnds(i) \/ Crash(i)
  <2>1. UNCHANGED <<rows, queues, lists, att, clients>>
    BY <1>2 DEF ContainerConnects, TrainingEnds, Crash, generator
  <2> QED
    BY <2>1, OrdersQuiet
<1>3. CASE ReadRow
  BY <1>3, OrdersReadRow
<1>4. CASE Idle
  BY <1>4, OrdersIdle
<1>5. CASE Handles
  BY <1>5, OrdersHandles
<1>6. CASE Accept
  BY <1>6, OrdersAccept
<1>7. CASE TakeRequest \/ PendingEnd
  BY <1>7, OrdersTakeRequest, OrdersPendingEnd
<1>8. CASE PostPending \/ PostNew \/ Relock \/ Occupation
  BY <1>8, OrdersPostPending, OrdersPostNew, OrdersRoundEnds
<1>9. CASE \E t \in Threads : Proceeds(t)
  BY <1>9, OrdersProceeds
<1>10. CASE \E t \in Threads : FailQueue(t)
  BY <1>10, OrdersFailQueue
<1>11. \/ ReadShortRow \/ NotifyRow \/ EndRequests \/ UNCHANGED vars \/ ReadRow \/ Idle \/ Handles
       \/ Accept \/ TakeRequest \/ PendingEnd \/ PostPending \/ PostNew \/ Relock \/ Occupation
       \/ \E t \in Threads : Proceeds(t) \/ FailQueue(t)
       \/ \E i \in Containers : ContainerConnects(i) \/ TrainingEnds(i) \/ Crash(i)
  BY DEF Next, Generator, Attention, Launching, Updating, Serving, Client, FailAttention, Idle,
         Handles, Proceeds
<1> QED
  BY <1>1, <1>2, <1>3, <1>4, <1>5, <1>6, <1>7, <1>8, <1>9, <1>10, <1>11

\* An order to launch a container is in one place at a time and each container has
\* one at most, whatever fails: no row, queue or thread launches a container that
\* another is about to launch or still runs.
THEOREM OneOrder == Spec => []Orders
<1>1. Init => Orders
  BY OrdersInit
<1>2. TypeOK /\ Orders /\ [Next]_vars => Orders'
  BY OrdersStep
<1> QED
  BY <1>1, <1>2, TypeCorrect, PTL DEF Spec

-----------------------------------------------------------------------------
(* A container that failed.                                                *)

\* Under the two other policies a record that is marked as failed stays so until
\* its container is launched again: an update or a reassignment that had looked at
\* the state before writes the record and not the state.  (maxprop_reassigment
\* writes the state "update" over it.)
THEOREM FailedStaysFailed ==
    ASSUME Assignment # "max_prop"
    PROVE  Spec => FailedUntilRestarted
<1> DEFINE Recovers == \A i \in Containers : info[i].state = "failed" /\ info'[i].state # "failed" =>
                          att.pc = "register" /\ att.request.kind = "Restart" /\ att.request.id = i
<1>1. ASSUME TypeOK, Orders, [Next]_vars PROVE Recovers
  <2> USE DEF lists, queues, world, clients, generator
  <2>0. info \in [Containers -> ExecutionInfo] /\ cl \in [Threads -> ClientLocals]
    BY <1>1 DEF TypeOK
  <2>1. CASE Handles
    <3> SUFFICES ASSUME NEW i \in Containers, info[i].state = "failed", info'[i].state # "failed"
                 PROVE  att.pc = "register" /\ att.request.kind = "Restart" /\ att.request.id = i
      OBVIOUS
    <3>1. (RegisterStart \/ RegisterRestart) /\ i = att.request.id
      BY <1>1, <2>1, HandlesList
    <3>2. ~ RegisterStart
      BY <1>1, <3>1 DEF RegisterStart, Orders, ListedLater, Unknown
    <3> QED
      BY <3>1, <3>2 DEF RegisterRestart
  <2>2. CASE GiveWrite
    <3> DEFINE j == execInfo_list[att.idx]
               c == update_parallelism(info[j], att.give.inter, att.give.intra)
    <3>1. info' = [info EXCEPT ![j] = c]
      BY <2>2 DEF GiveWrite
    <3>2. j \in Containers
      BY <1>1, <2>2 DEF GiveWrite, TypeOK
    <3>3. c.state = info[j].state
      BY <2>0, <3>2, UpdateKeepsState
    <3> HIDE DEF c, j
    <3>4. \A i \in Containers : info'[i].state = info[i].state
      BY <2>0, <3>1, <3>2, <3>3
    <3> QED
      BY <3>4
  <2>3. CASE \E t \in Threads : FailMark(t)
    BY <2>0, <2>3 DEF FailMark, ExecutionInfo
  <2>4. CASE UNCHANGED info
    BY <2>4
  <2>5. Handles \/ GiveWrite \/ (\E t \in Threads : FailMark(t)) \/ UNCHANGED info
    <3>1. CASE Generator \/ UNCHANGED vars
      BY <3>1 DEF Generator, ReadRow, ReadShortRow, NotifyRow, EndRequests, vars
    <3>2. CASE \E i \in Containers : ContainerConnects(i) \/ TrainingEnds(i) \/ Crash(i)
      BY <3>2 DEF ContainerConnects, TrainingEnds, Crash
    <3>3. CASE \E t \in Threads : Client(t) \/ ClientFail(t)
      BY <3>3 DEF Client, FailAttention, ClientInit, ClientExit, ClientRemoveName,
                  ClientRemoveRaises, ClientFail, FailRead, FailRaises, FailLock, FailFree,
                  FailQueue, FailNotify, ClientEnd
    <3>4. CASE IsFinishQueues \/ IsFinishRest \/ Wait \/ Wake \/ Finishing
      BY <3>4 DEF IsFinishQueues, IsFinishRest, Wait, Wake, Finishing, FinishRequest, Join
    <3>5. CASE Reassign \/ LockList \/ GiveNext \/ GiveEnd \/ GiveBack
      BY <3>5 DEF Reassign, LockList, GiveNext, GiveEnd, GiveBack
    <3>6. CASE Accept \/ Pending \/ New \/ TakeRequest \/ PendingEnd \/ NewEnd
      BY <3>6 DEF Accept, Pending, New, TakeRequest, PendingEnd, NewEnd
    <3>7. CASE PostPending \/ PostNew \/ PostWrite \/ Relock \/ Occupation
      BY <3>7 DEF PostPending, PostNew, PostWrite, Relock, Occupation
    <3> QED
      BY <1>1, <3>1, <3>2, <3>3, <3>4, <3>5, <3>6, <3>7
         DEF Next, Attention, Reassigning, Launching, Updating, Serving, Handles
  <2> QED
    BY <2>1, <2>2, <2>3, <2>4, <2>5
<1>2. TypeOK /\ Orders /\ [Next]_vars => [Recovers]_vars
  BY <1>1
<1> QED
  BY <1>2, TypeCorrect, OneOrder, PTL DEF Spec, FailedUntilRestarted

-----------------------------------------------------------------------------
(* Where the orders come from.                                             *)

LEMMA WaitingSame ==
    ASSUME TypeOK, UNCHANGED <<rows, queue_array, queue_pending_array>>,
           att'.q_aux = att.q_aux \/ att'.q_aux = [p \in QueueIds |-> <<>>],
           \A i : Undertaken(i)' => Undertaken(i) /\ att'.request = att.request
    PROVE  Waiting' \subseteq Waiting /\ \A i : InRows(i)' => InRows(i)
<1>1. Elements(att'.q_aux) \subseteq Elements(att.q_aux)
  BY NoOrder
<1>2. ASSUME NEW r, r = att'.request, Undertaken(r.id)' PROVE r = att.request /\ Undertaken(r.id)
  BY <1>2
<1>3. Waiting' \subseteq Waiting
  BY <1>1, <1>2 DEF Waiting
<1> QED
  BY <1>3 DEF InRows

\* An order that waits was waiting before, or was a row, or is the Restart that
\* the thread of its container queues.
LEMMA WaitingStep ==
    ASSUME TypeOK, [Next]_vars
    PROVE  /\ \A i : InRows(i)' => InRows(i)
           /\ \A r \in Waiting' : IsLaunch(r) =>
                 \/ r \in Waiting
                 \/ r.kind = "Start" /\ InRows(r.id)
                 \/ \E t \in Threads : FailQueue(t) /\ t[1] = r.id
<1> USE DEF lists, queues, world, generator
<1>1. CASE ReadShortRow \/ NotifyRow \/ EndRequests \/ UNCHANGED vars
  <2>1. UNCHANGED <<rows, queues, att>>
    BY <1>1 DEF ReadShortRow, NotifyRow, EndRequests, vars, generator
  <2>2. \A i : Undertaken(i)' => Undertaken(i)
    BY <2>1 DEF Undertaken
  <2> QED
    BY <2>1, <2>2, WaitingSame
<1>2. CASE \E i \in Containers : ContainerConnects(i) \/ TrainingEnds(i) \/ Crash(i)
  <2>1. UNCHANGED <<rows, queues, att>>
    BY <1>2 DEF ContainerConnects, TrainingEnds, Crash, generator
  <2>2. \A i : Undertaken(i)' => Undertaken(i)
    BY <2>1 DEF Undertaken
  <2> QED
    BY <2>1, <2>2, WaitingSame
<1>3. CASE ReadRow
  <2> DEFINE h == Head(rows)
             q == RequestOf(h)
  <2>1. /\ rows \in Seq(Row) /\ rows # <<>> /\ queue_array \in [QueueIds -> Seq(Request)]
        /\ rows' = Tail(rows) /\ queue_array' = add_request(queue_array, h.priority, q)
        /\ UNCHANGED <<queue_pending_array, att>>
    BY <1>3 DEF ReadRow, TypeOK
  <2>2. /\ Len(rows) \in Nat /\ 1 \in 1 .. Len(rows) /\ h = rows[1] /\ h \in Row
        /\ \A k \in 1 .. Len(rows') : k + 1 \in 1 .. Len(rows) /\ rows'[k] = rows[k + 1]
    BY <2>1
  <2>3. /\ q \in Request /\ h.priority \in QueueIds /\ q.id = h.id
        /\ IsLaunch(q) => h.kind = "execution" /\ q.kind = "Start"
    BY <2>2 DEF RequestOf, Request, Row, IsLaunch
  <2>4. \A i : Undertaken(i)' <=> Undertaken(i)
    BY <2>1 DEF Undertaken
  <2> HIDE DEF q, h
  <2>5. Elements(queue_array') \subseteq Elements(queue_array) \cup {q}
    BY <2>1, <2>3, ElementsMove
  <2>6. \A i : InRows(i)' => InRows(i)
    BY <2>2 DEF InRows
  <2>7. IsLaunch(q) => q.kind = "Start" /\ InRows(q.id)
    BY <2>2, <2>3 DEF InRows
  <2>8. \A r \in Waiting' : r \in Waiting \/ r = q
    BY <2>1, <2>4, <2>5 DEF Waiting
  <2> QED
    BY <2>6, <2>7, <2>8
<1>4. CASE Idle
  <2>1. /\ att'.request = att.request /\ att'.q_aux = att.q_aux /\ att'.pc \notin Handling
        /\ UNCHANGED <<rows, queue_array, queue_pending_array>>
    BY <1>4, IdleStep
  <2>2. \A i : ~ Undertaken(i)'
    BY <2>1 DEF Undertaken, Handling
  <2> QED
    BY <2>1, <2>2, WaitingSame
<1>5. CASE Handles
  BY <1>5, HandlesStep, WaitingSame
<1>6. CASE Accept
  <2>1. /\ att'.pc = "register" /\ att'.q_aux = att.q_aux
        /\ UNCHANGED <<rows, queue_array, queue_pending_array>>
    BY <1>6, Known DEF Accept, AttentionLocals
  <2>2. \A i : ~ Undertaken(i)'
    BY <2>1 DEF Undertaken
  <2> QED
    BY <2>1, <2>2, WaitingSame
<1>7. CASE TakeRequest
  <2> DEFINE q == IF att.phase = "pending" THEN queue_pending_array ELSE queue_array
  <2>1. PICK p \in QueueIds :
           LET r == Head(q[p])
               granted == schedule_resources(r, att.avail)
           IN  /\ IsFirstNonEmpty(q, p)
               /\ IF att.phase = "pending"
                  THEN /\ queue_pending_array' = [q EXCEPT ![p] = Tail(@)]
                       /\ UNCHANGED queue_array
                  ELSE /\ queue_array' = [q EXCEPT ![p] = Tail(@)]
                       /\ UNCHANGED queue_pending_array
               /\ att' = [att EXCEPT !.pc = IF granted # 0 THEN "schedule" ELSE "post",
                                     !.request = r, !.granted = granted, !.ok = FALSE]
    BY <1>7 DEF TakeRequest
  <2> DEFINE r == Head(q[p])
             t == [q EXCEPT ![p] = Tail(@)]
  <2>2. q \in [QueueIds -> Seq(Request)] /\ q[p] # <<>> /\ UNCHANGED rows
    BY <1>7, <2>1 DEF TakeRequest, TypeOK, IsFirstNonEmpty
  <2>3. att'.request = r /\ att'.q_aux = att.q_aux
    <3>1. att \in AttentionLocals
      BY Known
    <3> DEFINE g == schedule_resources(r, att.avail)
    <3>2. att' = [att EXCEPT !.pc = IF g # 0 THEN "schedule" ELSE "post",
                             !.request = r, !.granted = g, !.ok = FALSE]
      BY <2>1
    <3> HIDE DEF g, r
    <3> QED
      BY <3>1, <3>2 DEF AttentionLocals
  <2>4. Elements(t) \subseteq Elements(q) /\ r \in Elements(q)
    BY <2>2, ElementsMove
  <2>5. \/ queue_pending_array' = t /\ q = queue_pending_array /\ UNCHANGED queue_array
        \/ queue_array' = t /\ q = queue_array /\ UNCHANGED queue_pending_array
    BY <2>1
  <2> HIDE DEF t, r, q
  <2>6. Waiting' \subseteq Waiting
    BY <2>3, <2>4, <2>5 DEF Waiting
  <2> QED
    BY <2>2, <2>6 DEF InRows
<1>8. CASE PendingEnd
  <2>1. /\ queue_pending_array' = att.q_aux /\ UNCHANGED <<rows, queue_array>>
        /\ att'.pc = "new" /\ att'.q_aux = [p \in QueueIds |-> <<>>]
    BY <1>8, Known DEF PendingEnd, AttentionLocals
  <2>2. Elements(att'.q_aux) = {} /\ \A i : ~ Undertaken(i)'
    BY <2>1, NoOrder DEF Undertaken
  <2>3. Waiting' \subseteq Waiting
    BY <2>1, <2>2 DEF Waiting
  <2> QED
    BY <2>1, <2>3 DEF InRows
<1>9. CASE PostPending \/ PostNew
  <2>1. /\ att.request \in Request /\ att.request.priority \in QueueIds
        /\ att.q_aux \in [QueueIds -> Seq(Request)]
        /\ queue_pending_array \in [QueueIds -> Seq(Request)]
    BY Known, RequestFields DEF TypeOK
  <2>2. /\ att.pc = "post" /\ att'.pc \in {"take", "relock", "postWrite"}
        /\ \/ att'.q_aux = att.q_aux
           \/ ~ att.ok /\ att'.q_aux = add_request(att.q_aux, att.request.priority, att.request)
    <3>1. CASE PostPending
      BY <3>1, Known DEF PostPending, AttentionLocals
    <3>2. CASE PostNew
      BY <3>2, Known DEF PostNew, AttentionLocals
    <3> QED
      BY <1>9, <3>1, <3>2
  <2>3. /\ UNCHANGED <<rows, queue_array>>
        /\ \/ UNCHANGED queue_pending_array
           \/ /\ ~ att.ok
              /\ queue_pending_array' =
                    add_request(queue_pending_array, att.request.priority, att.request)
    BY <1>9 DEF PostPending, PostNew
  <2>4. /\ \A i : ~ Undertaken(i)'
        /\ IsLaunch(att.request) /\ ~ att.ok => Undertaken(att.request.id)
    BY <2>2 DEF Undertaken, Launches
  <2>5. /\ \A r \in Elements(att'.q_aux) : IsLaunch(r) => r \in Waiting
        /\ \A r \in Elements(queue_pending_array') : IsLaunch(r) => r \in Waiting
    <3>1. IsLaunch(att.request) /\ ~ att.ok => att.request \in Waiting
      BY <2>4 DEF Waiting
    <3>2. /\ Elements(att.q_aux) \subseteq Waiting
          /\ Elements(queue_pending_array) \subseteq Waiting
      BY DEF Waiting
    <3>3. /\ Elements(add_request(att.q_aux, att.request.priority, att.request))
                \subseteq Elements(att.q_aux) \cup {att.request}
          /\ Elements(add_request(queue_pending_array, att.request.priority, att.request))
                \subseteq Elements(queue_pending_array) \cup {att.request}
      BY <2>1, ElementsMove
    <3> QED
      BY <2>2, <2>3, <3>1, <3>2, <3>3
  <2>6. \A r \in Waiting' : IsLaunch(r) => r \in Waiting
    BY <2>3, <2>4, <2>5 DEF Waiting
  <2> QED
    BY <2>3, <2>6 DEF InRows
<1>10. CASE Relock \/ Occupation
  <2>1. /\ UNCHANGED <<rows, queues>> /\ att'.pc \in {"take", "dead", "check"}
        /\ att'.q_aux = att.q_aux \/ att'.q_aux = [p \in QueueIds |-> <<>>]
    <3>1. att \in AttentionLocals
      BY Known
    <3>2. CASE Relock
      BY <3>1, <3>2 DEF Relock, AttentionLocals
    <3>3. CASE Occupation
      BY <3>1, <3>3 DEF Occupation, AttentionAt, AttentionLocals
    <3> QED
      BY <1>10, <3>2, <3>3
  <2>2. \A i : ~ Undertaken(i)'
    BY <2>1 DEF Undertaken
  <2> QED
    BY <2>1, <2>2, WaitingSame
<1>11. CASE \E t \in Threads : Proceeds(t)
  <2>1. UNCHANGED <<rows, queue_array, queue_pending_array, att>>
    BY <1>11, ProceedsStep
  <2>2. \A i : Undertaken(i)' => Undertaken(i)
    BY <2>1 DEF Undertaken
  <2> QED
    BY <2>1, <2>2, WaitingSame
<1>12. CASE \E t \in Threads : FailQueue(t)
  <2>1. PICK t \in Threads : FailQueue(t)
    BY <1>12
  <2> DEFINE q == [kind |-> "Restart", id |-> t[1], inter |-> cl[t].inter, intra |-> cl[t].intra,
                   priority |-> info[t[1]].priority]
  <2>2. /\ queue_array' = add_request(queue_array, info[t[1]].priority, q)
        /\ UNCHANGED <<rows, queue_pending_array, att>>
    BY <2>1 DEF FailQueue
  <2>3. /\ queue_array \in [QueueIds -> Seq(Request)] /\ q.id = t[1]
        /\ q \in Request /\ info[t[1]].priority \in QueueIds
    BY DEF TypeOK, Threads, Request, ExecutionInfo, ClientLocals
  <2> HIDE DEF q
  <2>4. Elements(queue_array') \subseteq Elements(queue_array) \cup {q}
    BY <2>2, <2>3, ElementsMove
  <2>5. \A i : Undertaken(i)' <=> Undertaken(i)
    BY <2>2 DEF Undertaken
  <2>6. \A r \in Waiting' : r \in Waiting \/ r = q
    BY <2>2, <2>4, <2>5 DEF Waiting
  <2> QED
    BY <2>1, <2>2, <2>3, <2>6 DEF InRows
<1>13. \/ ReadShortRow \/ NotifyRow \/ EndRequests \/ UNCHANGED vars \/ ReadRow \/ Idle \/ Handles
       \/ Accept \/ TakeRequest \/ PendingEnd \/ PostPending \/ PostNew \/ Relock \/ Occupation
       \/ \E t \in Threads : Proceeds(t) \/ FailQueue(t)
       \/ \E i \in Containers : ContainerConnects(i) \/ TrainingEnds(i) \/ Crash(i)
  BY DEF Next, Generator, Attention, Launching, Updating, Serving, Client, FailAttention, Idle,
         Handles, Proceeds
<1> QED
  BY <1>1, <1>2, <1>3, <1>4, <1>5, <1>6, <1>7, <1>8, <1>9, <1>10, <1>11, <1>12, <1>13

\* A container that a thread still works for has no order.
LEMMA NoOrderYet ==
    ASSUME TypeOK, Orders, NEW i \in Containers
    PROVE  /\ Ordered(i) => ~ Works(i)
           /\ \A q \in [QueueIds -> Seq(Request)] :
                 None(q, i) <=> ~ \E r \in Elements(q) : Launches(r, i)
           /\ att.pc = "accept" => Undertaken(att.request.id)
           /\ \A r \in Waiting : /\ r \in Request
                                 /\ Undertaken(i) /\ Launches(r, i) => r = att.request
           /\ \A r \in Elements(queue_array) \cup Elements(queue_pending_array)
                       \cup Elements(att.q_aux) : Undertaken(i) => ~ Launches(r, i)
<1>1. ASSUME NEW q \in [QueueIds -> Seq(Request)]
      PROVE  None(q, i) <=> ~ \E r \in Elements(q) : Launches(r, i)
  BY DEF None, Elements
<1>2. /\ queue_array \in [QueueIds -> Seq(Request)]
      /\ queue_pending_array \in [QueueIds -> Seq(Request)]
      /\ att.q_aux \in [QueueIds -> Seq(Request)] /\ att.request \in Request
  BY Known DEF TypeOK
<1>3. Ordered(i) => \/ InRows(i) \/ ~ None(queue_array, i) \/ ~ None(queue_pending_array, i)
                    \/ ~ None(att.q_aux, i) \/ Undertaken(i)
  BY <1>1, <1>2 DEF Ordered, Waiting, Launches
<1>4. att.pc = "accept" => Undertaken(att.request.id)
  BY DEF Orders, Accepting, Undertaken, Launches
<1>5. Ordered(i) => ~ Works(i)
  BY <1>3 DEF Orders, OnePlace
<1>6. \A r \in Elements(queue_array) \cup Elements(queue_pending_array)
                 \cup Elements(att.q_aux) : Undertaken(i) => ~ Launches(r, i)
  BY <1>1, <1>2 DEF Orders, OnePlace
<1>7. ASSUME NEW r \in Waiting
      PROVE  r \in Request /\ (Undertaken(i) /\ Launches(r, i) => r = att.request)
  <2>1. r \in Request
    BY <1>2, ElementsMove, QueueTypes DEF Waiting
  <2>2. ASSUME Undertaken(i), Launches(r, i) PROVE r = att.request
    BY <1>6, <2>2 DEF Waiting
  <2> QED
    BY <2>1, <2>2
<1> QED
  BY <1>1, <1>4, <1>5, <1>6, <1>7

-----------------------------------------------------------------------------
(* Who changes what.                                                       *)

LEMMA Touches ==
    ASSUME [Next]_vars
    PROVE  /\ \/ UNCHANGED docker
              \/ ScheduleLaunch
              \/ \E t \in Threads :
                    ClientExit(t) \/ ClientRemoveName(t) \/ ClientFail(t) \/ ClientEnd(t)
              \/ \E i \in Containers : ContainerConnects(i) \/ TrainingEnds(i) \/ Crash(i)
           /\ UNCHANGED execInfo_list \/ RegisterStart \/ \E t \in Threads : ClientExit(t)
           /\ \/ UNCHANGED containerName_list
              \/ RegisterName
              \/ \E t \in Threads : ClientRemoveName(t) \/ ClientRemoveRaises(t)
           /\ UNCHANGED clients \/ Accept \/ \E t \in Threads : Client(t) \/ ClientFail(t)
           /\ UNCHANGED backlog \/ Accept \/ \E i \in Containers : ContainerConnects(i)
           /\ UNCHANGED q_finish_container \/ FinishRequest \/ \E t \in Threads : ClientExit(t)
           /\ UNCHANGED queue_pending_array \/ PendingEnd \/ TakeRequest \/ PostNew
           /\ UNCHANGED att \/ Attention \/ AcceptTimeout \/ SendFails
<1> USE DEF lists, queues, world, clients, generator
<1>1. CASE Generator \/ UNCHANGED vars
  BY <1>1 DEF Generator, ReadRow, ReadShortRow, NotifyRow, EndRequests, vars
<1>2. CASE \E i \in Containers : ContainerConnects(i) \/ TrainingEnds(i) \/ Crash(i)
  BY <1>2 DEF ContainerConnects, TrainingEnds, Crash
<1>3. CASE \E t \in Threads : Client(t) \/ ClientFail(t)
  <2>1. PICK t \in Threads : Client(t) \/ ClientFail(t)
    BY <1>3
  <2>2. CASE ClientExit(t) \/ ClientRemoveName(t) \/ ClientRemoveRaises(t)
    BY <2>2 DEF ClientExit, ClientRemoveName, ClientRemoveRaises, Client
  <2>3. CASE ClientFail(t) \/ ClientEnd(t) \/ ClientInit(t)
    BY <2>3 DEF ClientFail, ClientEnd, ClientInit, Client
  <2>4. CASE FailAttention(t)
    BY <2>4 DEF FailAttention, Client, FailRead, FailRaises, FailMark, FailLock, FailFree,
                FailQueue, FailNotify
  <2> QED
    BY <2>1, <2>2, <2>3, <2>4 DEF Client
<1>4. CASE IsFinishQueues \/ IsFinishRest \/ Wait \/ Wake \/ Finishing
  BY <1>4 DEF IsFinishQueues, IsFinishRest, Wait, Wake, Finishing, FinishRequest, Join, Attention
<1>5. CASE Reassigning
  BY <1>5 DEF Reassigning, Reassign, LockList, GiveNext, GiveWrite, GiveEnd, GiveBack, Attention
<1>6. CASE Launching \/ AcceptTimeout
  BY <1>6 DEF Launching, ScheduleLaunch, Accept, AcceptTimeout, RegisterRestart, RegisterStart,
              RegisterName, Attention
<1>7. CASE Updating \/ SendFails \/ ExcessRead \/ ExcessWrite
  BY <1>7 DEF Updating, ScheduleUpdate, UpdateWrite, SendFails, ExcessRead, ExcessWrite,
              Attention, Serving
<1>8. CASE Pending \/ New \/ TakeRequest \/ PendingEnd \/ NewEnd
  BY <1>8 DEF Pending, New, TakeRequest, PendingEnd, NewEnd, Attention, Serving
<1>9. CASE PostPending \/ PostNew \/ PostWrite \/ Relock \/ Occupation
  BY <1>9 DEF PostPending, PostNew, PostWrite, Relock, Occupation, Attention, Serving
<1> QED
  BY <1>1, <1>2, <1>3, <1>4, <1>5, <1>6, <1>7, <1>8, <1>9 DEF Next, Attention, Serving

\* Where the attention thread goes to the places the invariant speaks about, and
\* where it leaves them.
LEMMA AttTouches ==
    ASSUME TypeOK, [Next]_vars
    PROVE  \/ UNCHANGED att
           \/ /\ att.pc = "accept" => Accept \/ AcceptTimeout
              /\ att.pc = "register" => RegisterRestart \/ RegisterStart
              /\ att.pc = "registerName" => RegisterName
              /\ att.pc \in {"check2", "done"} => IsFinishRest
              /\ att'.pc = "accept" => ScheduleLaunch \/ AcceptTimeout
              /\ att'.pc = "register" => Accept
              /\ att'.pc = "registerName" => RegisterStart
              /\ att'.pc = "join" => FinishRequest
              /\ att'.pc = "check2" => IsFinishQueues
              /\ att'.pc = "done" => IsFinishRest
<1>0. att \in AttentionLocals /\ att.after \in {"pend", "occ"}
  <2>1. att \in AttentionLocals
    BY Known
  <2> QED
    BY <2>1 DEF AttentionLocals
<1>1. UNCHANGED att \/ Attention \/ AcceptTimeout \/ SendFails
  BY Touches
<1>2. CASE IsFinishQueues \/ IsFinishRest \/ Wait \/ Wake
  BY <1>0, <1>2 DEF IsFinishQueues, IsFinishRest, Wait, Wake, AttentionLocals
<1>3. CASE FinishRequest \/ Join
  BY <1>0, <1>3, ZenonT(40) DEF FinishRequest, Join, AttentionLocals
<1>4. CASE Reassign \/ GiveEnd \/ GiveBack
  BY <1>0, <1>4, ZenonT(40) DEF Reassign, GiveEnd, GiveBack, AttentionLocals
<1>5. CASE LockList
  BY <1>0, <1>5, ZenonT(40) DEF LockList, AttentionLocals
<1>6. CASE GiveNext
  <2> DEFINE d == Decision(info[execInfo_list[att.idx]], att.avail, att.share)
  <2>1. /\ att.pc = "give"
        /\ att' \in {[att EXCEPT !.idx = @ + 1], [att EXCEPT !.pc = "given", !.give = d]}
    BY <1>6 DEF GiveNext
  <2> HIDE DEF d
  <2> QED
    BY <1>0, <2>1 DEF AttentionLocals
<1>7. CASE GiveWrite
  BY <1>0, <1>7 DEF GiveWrite, AttentionLocals
<1>8. CASE Pending
  <2>1. att.pc = "pend" /\ att'.pc \in {"dead", "new", "take"}
    <3> DEFINE f == IF Assignment = "max_prop" THEN calculate_factor_prop(check_resources(cores_used))
                    ELSE att.factor
               avail == check_resources(cores_used)
    <3>1. /\ att.pc = "pend"
          /\ att' \in {[att EXCEPT !.pc = "dead"], [att EXCEPT !.pc = "new"],
                       [att EXCEPT !.pc = "take", !.phase = "pending", !.avail = avail, !.factor = f]}
      BY <1>0, <1>8 DEF Pending
    <3> HIDE DEF f, avail
    <3>2. [att EXCEPT !.pc = "take", !.phase = "pending", !.avail = avail, !.factor = f].pc = "take"
      BY <1>0 DEF AttentionLocals
    <3>3. [att EXCEPT !.pc = "dead"].pc = "dead" /\ [att EXCEPT !.pc = "new"].pc = "new"
      BY <1>0 DEF AttentionLocals
    <3> QED
      BY <3>1, <3>2, <3>3
  <2> QED
    BY <2>1
<1>9. CASE New \/ NewEnd \/ PostWrite
  BY <1>0, <1>9, ZenonT(40) DEF New, NewEnd, PostWrite, AttentionLocals
<1>10. CASE TakeRequest
  <2>1. att.pc = "take" /\ att'.pc \in {"schedule", "post"}
    <3>1. \E g, r : att' = [att EXCEPT !.pc = IF g # 0 THEN "schedule" ELSE "post",
                                       !.request = r, !.granted = g, !.ok = FALSE]
      BY <1>10 DEF TakeRequest
    <3> QED
      BY <1>0, <1>10, <3>1 DEF TakeRequest, AttentionLocals
  <2> QED
    BY <2>1
<1>11. CASE PendingEnd \/ PostNew \/ Relock
  <2>1. CASE PendingEnd
    BY <1>0, <2>1 DEF PendingEnd, AttentionLocals
  <2>2. CASE PostNew
    BY <1>0, <2>2, ZenonT(40) DEF PostNew, AttentionLocals
  <2>3. CASE Relock
    BY <1>0, <2>3 DEF Relock, AttentionLocals
  <2> QED
    BY <1>11, <2>1, <2>2, <2>3
<1>12. CASE PostPending
  BY <1>0, <1>12 DEF PostPending, AttentionLocals
<1>13. CASE Occupation
  BY <1>0, <1>13 DEF Occupation, AttentionAt, AttentionLocals
<1>14. CASE ScheduleLaunch \/ Accept \/ RegisterStart \/ SendFails
  BY <1>0, <1>14, ZenonT(40) DEF ScheduleLaunch, Accept, RegisterStart, SendFails, AttentionLocals
<1>15. CASE AcceptTimeout \/ RegisterRestart \/ RegisterName
  BY <1>0, <1>15, ZenonT(40) DEF AcceptTimeout, RegisterRestart, RegisterName, AfterSchedule, AttentionLocals
<1>16. CASE ScheduleUpdate \/ UpdateWrite
  BY <1>0, <1>16, ZenonT(40) DEF ScheduleUpdate, UpdateWrite, AfterSchedule, AttentionLocals
<1>17. CASE ExcessRead \/ ExcessWrite
  BY <1>0, <1>17 DEF ExcessRead, ExcessWrite, AttentionLocals
<1> QED
  BY <1>1, <1>2, <1>3, <1>4, <1>5, <1>6, <1>7, <1>8, <1>9, <1>10, <1>11, <1>12, <1>13, <1>14,
     <1>15, <1>16, <1>17
     DEF Attention, Finishing, Reassigning, Launching, Updating, Serving

\* The way of a client thread.
LEMMA ThreadStep ==
    ASSUME TypeOK, NEW t \in Threads, Client(t) \/ ClientFail(t)
    PROVE  /\ UNCHANGED <<att, dict_client_threads, backlog, queue_pending_array>>
           /\ \A u \in Threads : cl'[u].peer = cl[u].peer /\ (u # t => cl'[u] = cl[u])
           /\ cl'[t].pc # "init"
           /\ cl'[t].pc = "loop" => ClientInit(t) \/ ClientRemoveRaises(t)
           /\ cl'[t].pc \in {"removeName", "removeLost"} => ClientExit(t)
           /\ cl'[t].pc \in FailingPcs => ClientFail(t) \/ (cl[t].pc \in FailingPcs /\ FailAttention(t))
           /\ cl'[t].pc = "failLost" => FailRead(t)
           /\ cl[t].pc \in {"init", "loop"} => ClientInit(t) \/ ClientExit(t) \/ ClientFail(t)
           /\ cl[t].pc \in {"removeName", "end", "done"} =>
                 cl'[t].pc \in {"end", "done"} \/ ClientRemoveRaises(t)
<1> USE DEF lists, queues, world, clients, generator, FailingPcs
<1>0. cl \in [Threads -> ClientLocals]
  BY DEF TypeOK
<1>1. CASE ClientInit(t) \/ ClientExit(t) \/ ClientRemoveName(t) \/ ClientRemoveRaises(t)
  BY <1>0, <1>1 DEF ClientInit, ClientExit, ClientRemoveName, ClientRemoveRaises, ClientLocals
<1>2. CASE FailRead(t) \/ FailRaises(t) \/ FailMark(t) \/ FailLock(t)
  BY <1>0, <1>2 DEF FailRead, FailRaises, FailMark, FailLock, ClientLocals, FailAttention
<1>3. CASE FailFree(t) \/ FailQueue(t) \/ FailNotify(t)
  BY <1>0, <1>3 DEF FailFree, FailQueue, FailNotify, ClientLocals, FailAttention
<1>4. CASE ClientEnd(t) \/ ClientFail(t)
  BY <1>0, <1>4 DEF ClientEnd, ClientFail, Watching, ClientLocals
<1> QED
  BY <1>1, <1>2, <1>3, <1>4 DEF Client, FailAttention

\* What becomes of a container in docker.
Launched(i) == /\ ScheduleLaunch /\ i = att.request.id
               /\ att'.pc = "accept" /\ att'.request = att.request

LEMMA DockerStep ==
    ASSUME TypeOK, OwnPeer, [Next]_vars, NEW i \in Containers
    PROVE  /\ docker[i] = "none" => docker'[i] = "none" \/ Launched(i)
           /\ docker'[i] = "boot" => docker[i] = "boot" \/ Launched(i)
           /\ docker'[i] = "up" => \/ docker[i] = "up"
                                   \/ docker[i] = "boot" /\ ContainerConnects(i)
           /\ docker'[i] = "finished" => \/ docker[i] = "finished"
                                         \/ docker[i] = "up" /\ TrainingEnds(i)
           /\ docker'[i] = "leaving" => \/ docker[i] = "leaving"
                                        \/ \E t \in Threads : ClientExit(t) /\ t[1] = i
<1> USE DEF lists, queues, clients, generator
<1>0. /\ docker \in [Containers -> {"none", "boot", "up", "finished", "leaving", "exited"}]
      /\ att \in AttentionLocals /\ att.request.id \in Containers
      /\ \A t \in Threads : cl[t].peer = t[1] /\ t[1] \in Containers
  BY Known, RequestFields DEF TypeOK, OwnPeer, Threads
<1>a. ASSUME NEW d \in [Containers -> {"none", "boot", "up", "finished", "leaving", "exited"}]
      PROVE  Pruned(d)[i] = IF d[i] = "exited" THEN "none" ELSE d[i]
  BY DEF Pruned
<1>b. ASSUME NEW j \in Containers, docker' = StopContainer(j)
      PROVE  docker'[i] = "none" \/ (docker'[i] = docker[i] /\ docker[i] # "exited")
  <2>1. [docker EXCEPT ![j] = "none"]
           \in [Containers -> {"none", "boot", "up", "finished", "leaving", "exited"}]
    BY <1>0
  <2> QED
    BY <1>0, <1>a, <1>b, <2>1 DEF StopContainer
<1>1. CASE UNCHANGED docker
  BY <1>1
<1>2. CASE ScheduleLaunch
  <2>1. \/ UNCHANGED docker
        \/ /\ docker' = [docker EXCEPT ![att.request.id] = "boot"]
           /\ att'.pc = "accept" /\ att'.request = att.request
        \/ docker' = StopContainer(att.request.id)
    BY <1>0, <1>2 DEF ScheduleLaunch, AttentionLocals
  <2> QED
    BY <1>0, <1>b, <1>2, <2>1 DEF Launched
<1>3. CASE \E t \in Threads : ClientExit(t)
  <2>1. PICK t \in Threads : ClientExit(t)
    BY <1>3
  <2>2. docker' = [docker EXCEPT ![t[1]] = "leaving"] /\ docker[t[1]] = "finished"
    BY <1>0, <2>1 DEF ClientExit
  <2> QED
    BY <1>0, <2>1, <2>2
<1>4. CASE \E t \in Threads : ClientRemoveName(t)
  <2>1. PICK t \in Threads : ClientRemoveName(t)
    BY <1>4
  <2>2. docker' = [docker EXCEPT ![t[1]] = IF @ = "leaving" THEN "exited" ELSE @]
    BY <1>0, <2>1 DEF ClientRemoveName
  <2> QED
    BY <1>0, <2>2
<1>5. CASE \E t \in Threads : ClientFail(t)
  <2>1. PICK t \in Threads : docker' = StopContainer(t[1])
    BY <1>5 DEF ClientFail
  <2> QED
    BY <1>0, <1>b, <2>1
<1>6. CASE \E t \in Threads : ClientEnd(t)
  <2>1. docker' = Pruned(docker)
    BY <1>6 DEF ClientEnd
  <2> QED
    BY <1>0, <1>a, <2>1
<1>7. CASE \E j \in Containers : ContainerConnects(j) \/ TrainingEnds(j) \/ Crash(j)
  <2>1. PICK j \in Containers : ContainerConnects(j) \/ TrainingEnds(j) \/ Crash(j)
    BY <1>7
  <2>2. CASE ContainerConnects(j)
    BY <1>0, <2>2 DEF ContainerConnects
  <2>3. CASE TrainingEnds(j)
    BY <1>0, <2>3 DEF TrainingEnds
  <2>4. CASE Crash(j)
    BY <1>0, <2>4 DEF Crash
  <2> QED
    BY <2>1, <2>2, <2>3, <2>4
<1> QED
  BY <1>1, <1>2, <1>3, <1>4, <1>5, <1>6, <1>7, Touches

\* Who enters and leaves the list and the list of names.
LEMMA ListStep ==
    ASSUME TypeOK, ListedLater, [Next]_vars, NEW i \in Containers
    PROVE  /\ Listed(i)' => Listed(i) \/ (RegisterStart /\ i = att.request.id)
           /\ Listed(i) => Listed(i)' \/ \E t \in Threads : ClientExit(t) /\ t[1] = i
           /\ RegisterStart /\ i = att.request.id => Listed(i)'
           /\ Named(i)' => Named(i) \/ (RegisterName /\ i = att.request.id)
           /\ RegisterName /\ i = att.request.id => Named(i)'
           /\ Named(i) => \/ Named(i)'
                          \/ \E t \in Threads :
                                /\ t[1] = i
                                /\ \/ ClientRemoveName(t)
                                   \/ ClientRemoveRaises(t) /\ cl[t].pc = "removeLost"
<1>1. ASSUME RegisterStart
      PROVE  \A j : Listed(j)' <=> Listed(j) \/ j = att.request.id
  <2> DEFINE l == execInfo_list
             r == att.request.id
  <2>1. l \in Seq(Containers) /\ r \in Containers /\ execInfo_list' = Append(l, r)
    BY <1>1, Known, RequestFields DEF RegisterStart, TypeOK
  <2> HIDE DEF l, r
  <2>2. /\ DOMAIN l = 1 .. Len(l) /\ DOMAIN Append(l, r) = 1 .. Len(l) + 1 /\ Len(l) \in Nat
        /\ \A k \in 1 .. Len(l) : Append(l, r)[k] = l[k]
        /\ Append(l, r)[Len(l) + 1] = r
    BY <2>1
  <2>3. \A j : (\E k \in DOMAIN Append(l, r) : Append(l, r)[k] = j)
                  <=> (\E k \in DOMAIN l : l[k] = j) \/ j = r
    BY <2>2
  <2> QED
    BY <2>1, <2>3 DEF l, r, Listed
<1>2. /\ Listed(i)' => Listed(i) \/ (RegisterStart /\ i = att.request.id)
      /\ Listed(i) => Listed(i)' \/ \E t \in Threads : ClientExit(t) /\ t[1] = i
  <2>1. CASE UNCHANGED execInfo_list
    BY <2>1 DEF Listed
  <2>2. CASE RegisterStart
    BY <1>1, <2>2
  <2>3. CASE \E t \in Threads : ClientExit(t)
    BY <2>3, ExitList
  <2> QED
    BY <2>1, <2>2, <2>3, Touches
<1>3. /\ Named(i)' => Named(i) \/ (RegisterName /\ i = att.request.id)
      /\ RegisterName /\ i = att.request.id => Named(i)'
      /\ Named(i) => \/ Named(i)'
                     \/ \E t \in Threads : /\ t[1] = i
                                           /\ \/ ClientRemoveName(t)
                                              \/ ClientRemoveRaises(t) /\ cl[t].pc = "removeLost"
  <2>1. CASE UNCHANGED containerName_list
    BY <2>1 DEF Named, RegisterName
  <2>2. CASE RegisterName
    BY <2>2 DEF Named, RegisterName
  <2>3. CASE \E t \in Threads : ClientRemoveName(t)
    BY <2>3 DEF Named, ClientRemoveName, RegisterName
  <2>4. CASE \E t \in Threads : ClientRemoveRaises(t)
    BY <2>4 DEF Named, ClientRemoveRaises, RegisterName
  <2> QED
    BY <2>1, <2>2, <2>3, <2>4, Touches
<1> QED
  BY <1>1, <1>2, <1>3

-----------------------------------------------------------------------------
(* Every step keeps the invariant.                                         *)

\* What all the cases start from.
Before == TypeOK /\ Orders /\ Life /\ Timely /\ [Next]_vars

\* No two threads work for a container, and none for one that is ordered.
LEMMA OneWorks ==
    ASSUME TypeOK, Orders
    PROVE  /\ \A t, u \in Threads : Working(t) /\ Working(u) /\ t[1] = u[1] => t = u
           /\ \A t \in Threads : /\ t[1] \in Containers /\ t[2] \in 0 .. MaxFaults
                                 /\ t = <<t[1], t[2]>>
                                 /\ Working(t) => /\ ~ Ordered(t[1]) /\ ~ Undertaken(t[1])
                                                  /\ dict_client_threads[t[1]] = t[2]
           /\ Undertaken(att.request.id) => /\ att.request \in Waiting /\ IsLaunch(att.request)
                                            /\ Ordered(att.request.id)
                                            /\ ~ InRows(att.request.id)
           /\ att.pc = "accept" => Undertaken(att.request.id)
<1>1. \A t \in Threads : /\ t[1] \in Containers /\ t[2] \in 0 .. MaxFaults
                         /\ t = <<t[1], t[2]>>
  BY DEF Threads
<1>2. \A t, u \in Threads : Working(t) /\ Working(u) /\ t[1] = u[1] => t = u
  BY <1>1 DEF Orders, LastWorks
<1>3. \A t \in Threads : Working(t) => Works(t[1])
  BY <1>1 DEF Works
<1>4. \A i \in Containers : /\ Ordered(i) => ~ Works(i)
                            /\ Undertaken(i) => ~ Works(i) /\ ~ InRows(i)
  BY NoOrderYet DEF Orders, OnePlace
<1>5. Undertaken(att.request.id) => /\ att.request \in Waiting /\ IsLaunch(att.request)
                                    /\ Ordered(att.request.id)
  BY DEF Undertaken, Launches, Waiting, Ordered
<1>6. att.request.id \in Containers
  BY Known, RequestFields
<1>7. att.pc = "accept" => Undertaken(att.request.id)
  BY DEF Orders, Accepting, Undertaken, Launches
<1>8. \A t \in Threads : Working(t) => dict_client_threads[t[1]] = t[2]
  BY DEF Orders, LastWorks
<1> QED
  BY <1>1, <1>2, <1>3, <1>4, <1>5, <1>6, <1>7, <1>8

\* accept() does not time out, and the two exits of a removal that fails are closed.
LEMMA Closed ==
    ASSUME TypeOK, Names, Timely
    PROVE  ~ AcceptTimeout /\ \A t \in Threads : ~ ClientRemoveRaises(t)
<1>1. \A t \in Threads : ThreadNames(t)
  BY DEF Names
<1>2. ~ AcceptTimeout
  BY DEF Timely, AcceptTimeout
<1>3. \A t \in Threads : ~ ClientRemoveRaises(t)
  BY <1>1 DEF ThreadNames, ClientRemoveRaises, Named
<1> QED
  BY <1>2, <1>3

LEMMA ReadyStep == Before => OrdersReady'
<1> SUFFICES ASSUME Before PROVE OrdersReady'
  OBVIOUS
<1>0. /\ TypeOK /\ Orders /\ OrdersReady /\ OwnPeer /\ Names /\ Timely /\ [Next]_vars
      /\ \A t \in Threads : ThreadNames(t)
      /\ att.request \in Request /\ att.request.id \in Containers
  BY Known, RequestFields DEF Before, Life, Names
<1>1. ASSUME NEW i \in Containers, InRows(i)' PROVE docker'[i] = "none"
  <2>1. InRows(i) /\ docker[i] = "none"
    BY <1>0, <1>1, WaitingStep DEF OrdersReady
  <2>2. ~ Launched(i)
    BY <1>0, <2>1, OneWorks DEF Launched, ScheduleLaunch, Undertaken, Launches
  <2> QED
    BY <1>0, <2>1, <2>2, DockerStep
<1>2. ASSUME NEW r \in Waiting', IsLaunch(r)
      PROVE  /\ docker'[r.id] = "none" \/ (att'.pc = "accept" /\ att'.request.id = r.id)
             /\ r.kind = "Restart" => Listed(r.id)' /\ Named(r.id)'
  <2> DEFINE i == r.id
  <2>1. \/ r \in Waiting
        \/ r.kind = "Start" /\ InRows(i)
        \/ \E t \in Threads : FailQueue(t) /\ t[1] = i
    BY <1>0, <1>2, WaitingStep
  <2>2. CASE r \in Waiting
    <3>1. /\ r \in Request /\ i \in Containers /\ Ordered(i) /\ ~ Works(i)
      BY <1>0, <1>2, <2>2, NoOrderYet, RequestFields DEF Ordered, Launches
    <3>2. \A t \in Threads : t[1] = i => ~ Working(t)
      BY <1>0, <3>1, OneWorks
    <3>3. r.kind = "Restart" => Listed(i) /\ Named(i)
      BY <1>0, <1>2, <2>2 DEF OrdersReady
    <3>4. Listed(i) => Listed(i)'
      <4>1. \A t \in Threads : ClientExit(t) => Working(t)
        BY DEF ClientExit, Working, WorkingPcs
      <4> QED
        BY <1>0, <3>1, <3>2, <4>1, ListStep DEF Orders
    <3>5. Named(i) => Named(i)'
      <4>1. \A t \in Threads : ClientRemoveName(t) \/ (ClientRemoveRaises(t) /\ cl[t].pc = "removeLost")
                                  => Working(t)
        BY DEF ClientRemoveName, Working, WorkingPcs
      <4> QED
        BY <1>0, <3>1, <3>2, <4>1, ListStep DEF Orders
    <3>6. r.kind = "Restart" => Listed(r.id)' /\ Named(r.id)'
      BY <3>3, <3>4, <3>5
    <3>7. docker'[i] = "none" \/ (att'.pc = "accept" /\ att'.request.id = i)
      <4>1. CASE docker[i] = "none"
        BY <1>0, <3>1, <4>1, DockerStep DEF Launched
      <4>2. CASE docker[i] # "none"
        <5>1. att.pc = "accept" /\ att.request.id = i
          BY <1>0, <1>2, <2>2, <4>2 DEF OrdersReady
        <5>2. CASE UNCHANGED att
          BY <5>1, <5>2
        <5>3. CASE ~ UNCHANGED att
          <6>1. Accept
            BY <1>0, <5>1, <5>3, AttTouches, Closed
          <6>2. /\ UNCHANGED <<queue_array, queue_pending_array>>
                /\ att'.q_aux = att.q_aux /\ att'.pc = "register"
            BY <1>0, <6>1, Known DEF Accept, AttentionLocals, queues
          <6>3. r \in Elements(queue_array) \cup Elements(queue_pending_array)
                      \cup Elements(att.q_aux)
            BY <1>2, <6>2 DEF Waiting, Undertaken
          <6>4. Undertaken(i) /\ Launches(r, i)
            BY <1>0, <1>2, <5>1, OneWorks DEF Launches
          <6> QED
            BY <1>0, <3>1, <6>3, <6>4, NoOrderYet
        <5> QED
          BY <5>2, <5>3
      <4> QED
        BY <4>1, <4>2
    <3> QED
      BY <3>6, <3>7
  <2>3. CASE ~ (r \in Waiting) /\ r.kind = "Start" /\ InRows(i)
    <3>1. i \in Containers
      <4>1. PICK k \in 1 .. Len(rows) : rows[k].id = i
        BY <2>3 DEF InRows
      <4>2. rows[k] \in Row
        BY <1>0 DEF TypeOK
      <4> QED
        BY <4>1, <4>2 DEF Row
    <3>2. docker[i] = "none" /\ ~ Launched(i)
      BY <1>0, <2>3, <3>1, OneWorks DEF OrdersReady, Launched, ScheduleLaunch, Undertaken, Launches
    <3> QED
      BY <1>0, <2>3, <3>1, <3>2, DockerStep
  <2>4. CASE \E t \in Threads : FailQueue(t) /\ t[1] = i
    <3>1. PICK t \in Threads : FailQueue(t) /\ t[1] = i
      BY <2>4
    <3>2. Listed(i) /\ Named(i) /\ docker[i] = "none"
      BY <1>0, <3>1 DEF ThreadNames, FailingPcs, FailQueue
    <3>3. UNCHANGED <<docker, execInfo_list, containerName_list>>
      BY <3>1 DEF FailQueue, lists, world
    <3> QED
      BY <3>2, <3>3 DEF Listed, Named
  <2> QED
    BY <2>1, <2>2, <2>3, <2>4
<1>3. ASSUME att'.pc = "accept", NEW i, i = att'.request.id
      PROVE  docker'[i] \notin {"finished", "leaving"}
  <2>1. UNCHANGED att \/ ScheduleLaunch
    BY <1>0, <1>3, AttTouches, Closed
  <2>2. CASE ScheduleLaunch
    <3>1. att'.request = att.request /\ docker' = [docker EXCEPT ![att.request.id] = "boot"]
      BY <1>0, <1>3, <2>2, Known DEF ScheduleLaunch, AttentionLocals
    <3> QED
      BY <1>0, <1>3, <3>1 DEF TypeOK
  <2>3. CASE UNCHANGED att
    <3>1. /\ att.pc = "accept" /\ i = att.request.id /\ i \in Containers
          /\ docker[i] \notin {"finished", "leaving"} /\ Undertaken(i)
      BY <1>0, <1>3, <2>3, OneWorks DEF OrdersReady
    <3>2. \A t \in Threads : t[1] = i => ~ Working(t)
      BY <1>0, <3>1, OneWorks
    <3>3. ~ TrainingEnds(i)
      BY <1>0, <3>2 DEF TrainingEnds, Working, WorkingPcs, OwnPeer
    <3>4. \A t \in Threads : ClientExit(t) => t[1] # i
      BY <3>2 DEF ClientExit, Working, WorkingPcs
    <3> QED
      BY <1>0, <3>1, <3>3, <3>4, DockerStep
  <2> QED
    BY <2>1, <2>2, <2>3
<1> QED
  BY <1>1, <1>2, <1>3 DEF OrdersReady

LEMMA PeerStep == Before => OwnPeer'
<1> SUFFICES ASSUME Before PROVE OwnPeer'
  OBVIOUS
<1> DEFINE q == att.request.id
<1>0. /\ TypeOK /\ Orders /\ OwnPeer /\ Names /\ Timely /\ [Next]_vars
      /\ q \in Containers /\ att \in AttentionLocals
      /\ cl \in [Threads -> ClientLocals]
      /\ docker \in [Containers -> {"none", "boot", "up", "finished", "leaving", "exited"}]
  BY Known, RequestFields DEF Before, Life, TypeOK
<1>1. ASSUME Accept
      PROVE  /\ att.pc = "accept" /\ att'.pc = "register" /\ att'.request = att.request
             /\ backlog' = <<>> /\ docker[q] # "boot" /\ docker' = docker
             /\ \E n \in 0 .. MaxFaults : cl'[<<q, n>>].pc = "init"
             /\ \A t \in Threads : cl'[t].peer = t[1] /\ (cl'[t] = cl[t] \/ cl'[t].pc = "init")
  <2>1. backlog = <<q>> /\ docker[q] # "boot" /\ att.pc = "accept"
    BY <1>0, <1>1 DEF Accept, OwnPeer
  <2>2. Head(backlog) = q /\ Tail(backlog) = <<>>
    BY <1>0, <2>1
  <2>3. att'.pc = "register" /\ att'.request = att.request /\ docker' = docker /\ backlog' = <<>>
    BY <1>0, <1>1, <2>2 DEF Accept, AttentionLocals
  <2>4. PICK n \in 0 .. MaxFaults :
           cl' = [cl EXCEPT ![<<q, n>>].pc = "init", ![<<q, n>>].peer = q]
    BY <1>1, <2>2 DEF Accept
  <2>5. <<q, n>> \in Threads /\ <<q, n>>[1] = q
    BY <1>0 DEF Threads
  <2> HIDE DEF q
  <2>6. /\ cl'[<<q, n>>].pc = "init" /\ cl'[<<q, n>>].peer = q
        /\ \A t \in Threads : t # <<q, n>> => cl'[t] = cl[t]
    BY <1>0, <2>4, <2>5 DEF ClientLocals
  <2>7. \A t \in Threads : cl'[t].peer = t[1] /\ (cl'[t] = cl[t] \/ cl'[t].pc = "init")
    BY <1>0, <2>5, <2>6 DEF OwnPeer
  <2> QED
    BY <2>1, <2>3, <2>6, <2>7 DEF q
<1>2. \A t \in Threads : cl'[t].peer = t[1]
  <2>1. CASE UNCHANGED clients
    BY <1>0, <2>1 DEF OwnPeer, clients
  <2>2. CASE \E t \in Threads : Client(t) \/ ClientFail(t)
    BY <1>0, <2>2, ThreadStep DEF OwnPeer
  <2> QED
    BY <1>0, <1>1, <2>1, <2>2, Touches
<1>3. ASSUME NEW i \in Containers, ContainerConnects(i)
      PROVE  /\ att.pc = "accept" /\ q = i /\ UNCHANGED att
             /\ backlog' = <<q>> /\ docker'[i] = "up"
  <2>1. docker[i] = "boot" /\ docker'[i] = "up" /\ UNCHANGED att /\ backlog' = Append(backlog, i)
    BY <1>0, <1>3 DEF ContainerConnects
  <2>2. att.pc = "accept" /\ q = i /\ backlog = <<>>
    BY <1>0, <2>1 DEF OwnPeer
  <2> QED
    BY <2>1, <2>2
<1>4. ASSUME backlog' # <<>>, NEW i, i = att'.request.id
      PROVE  att'.pc = "accept" /\ backlog' = <<i>> /\ docker'[i] # "boot"
  <2>1. CASE \E j \in Containers : ContainerConnects(j)
    BY <1>3, <1>4, <2>1
  <2>2. CASE UNCHANGED backlog
    <3>1. att.pc = "accept" /\ backlog = <<q>> /\ docker[q] # "boot"
      BY <1>0, <1>4, <2>2 DEF OwnPeer
    <3>2. UNCHANGED att
      BY <1>0, <1>1, <1>4, <3>1, AttTouches, Closed
    <3>3. ~ Launched(q)
      BY <3>1 DEF Launched, ScheduleLaunch
    <3> QED
      BY <1>0, <1>4, <2>2, <3>1, <3>2, <3>3, DockerStep
  <2> QED
    BY <1>0, <1>1, <1>4, <2>1, <2>2, Touches
<1>5. ASSUME NEW i \in Containers, docker'[i] = "boot"
      PROVE  att'.pc = "accept" /\ att'.request.id = i
  <2>1. CASE Launched(i)
    BY <2>1 DEF Launched
  <2>2. CASE docker[i] = "boot"
    <3>1. att.pc = "accept" /\ q = i
      BY <1>0, <2>2 DEF OwnPeer
    <3>2. UNCHANGED att
      BY <1>0, <1>1, <2>2, <3>1, AttTouches, Closed
    <3> QED
      BY <3>1, <3>2
  <2> QED
    BY <1>0, <1>5, <2>1, <2>2, DockerStep
<1>6. ASSUME NEW i \in Containers, docker'[i] \in {"up", "finished"}
      PROVE  \/ att'.pc = "accept" /\ att'.request.id = i
             \/ \E n \in 0 .. MaxFaults : cl'[<<i, n>>].pc \in {"init", "loop"}
  <2>1. CASE ContainerConnects(i)
    BY <1>3, <2>1
  <2>2. CASE ~ ContainerConnects(i)
    <3>1. docker[i] \in {"up", "finished"}
      BY <1>0, <1>6, <2>2, DockerStep
    <3>2. CASE att.pc = "accept" /\ q = i
      <4>1. UNCHANGED att \/ Accept
        BY <1>0, <3>2, AttTouches, Closed
      <4> QED
        BY <1>1, <3>2, <4>1
    <3>3. CASE \E n \in 0 .. MaxFaults : cl[<<i, n>>].pc \in {"init", "loop"}
      <4>1. PICK n \in 0 .. MaxFaults : cl[<<i, n>>].pc \in {"init", "loop"}
        BY <3>3
      <4> DEFINE t == <<i, n>>
      <4>2. t \in Threads /\ t[1] = i
        BY DEF Threads
      <4> HIDE DEF t
      <4>3. cl[t].pc \in {"init", "loop"}
        BY <4>1 DEF t
      <4>4. CASE UNCHANGED clients \/ Accept
        <5>1. cl'[t].pc \in {"init", "loop"}
          BY <1>1, <4>2, <4>3, <4>4 DEF clients
        <5> QED
          BY <5>1 DEF t
      <4>5. CASE \E u \in Threads : u # t /\ (Client(u) \/ ClientFail(u))
        <5>1. cl'[t] = cl[t]
          BY <1>0, <4>2, <4>5, ThreadStep
        <5> QED
          BY <4>3, <5>1 DEF t
      <4>6. CASE Client(t) \/ ClientFail(t)
        <5>1. ClientInit(t) \/ ClientExit(t) \/ ClientFail(t)
          BY <1>0, <4>2, <4>3, <4>6, ThreadStep
        <5>2. ~ ClientExit(t)
          <6>1. ClientExit(t) => docker' = [docker EXCEPT ![i] = "leaving"]
            BY <1>0, <4>2 DEF ClientExit, OwnPeer
          <6> QED
            BY <1>0, <1>6, <6>1
        <5>3. ~ ClientFail(t)
          <6>1. ClientFail(t) => docker' = Pruned([docker EXCEPT ![i] = "none"])
            BY <4>2 DEF ClientFail, StopContainer
          <6> QED
            BY <1>0, <1>6, <6>1 DEF Pruned
        <5>4. cl'[t].pc = "loop"
          BY <1>0, <4>2, <5>1, <5>2, <5>3 DEF ClientInit, ClientLocals
        <5> QED
          BY <5>4 DEF t
      <4> QED
        BY <1>0, <4>4, <4>5, <4>6, Touches
    <3> QED
      BY <1>0, <3>1, <3>2, <3>3 DEF OwnPeer
  <2> QED
    BY <2>1, <2>2
<1> QED
  BY <1>2, <1>4, <1>5, <1>6 DEF OwnPeer

LEMMA ListNamesStep == Before => ListNames'
<1> SUFFICES ASSUME Before PROVE ListNames'
  OBVIOUS
<1> DEFINE q == att.request.id
<1>0. /\ TypeOK /\ Orders /\ ListedLater /\ OrdersReady /\ ListNames /\ Names /\ Timely /\ [Next]_vars
      /\ \A t \in Threads : ThreadNames(t)
      /\ q \in Containers /\ att \in AttentionLocals
      /\ dict_client_threads \in [Containers -> -1 .. MaxFaults]
      /\ \A t \in Threads : cl[t].peer = t[1]
  BY Known, RequestFields DEF Before, Life, Names, TypeOK, Orders, OwnPeer
<1>1. ASSUME Accept
      PROVE  /\ att.pc = "accept" /\ att'.pc = "register" /\ att'.request = att.request
             /\ UNCHANGED <<execInfo_list, containerName_list>>
             /\ \A i \in Containers : dict_client_threads'[i] = -1 => dict_client_threads[i] = -1
             /\ att.request.kind = "Start" => dict_client_threads[q] = -1
  <2>1. /\ att.pc = "accept" /\ att'.pc = "register" /\ att'.request = att.request
        /\ UNCHANGED <<execInfo_list, containerName_list>>
    BY <1>0, <1>1 DEF Accept, AttentionLocals, lists
  <2>2. \A i \in Containers : dict_client_threads'[i] = -1 => dict_client_threads[i] = -1
    BY <1>0, <1>1 DEF Accept
  <2>3. att.request.kind = "Start" => dict_client_threads[q] = -1
    BY <1>0, <2>1, OneWorks DEF Orders, StartsAreFirst
  <2> QED
    BY <2>1, <2>2, <2>3
<1>2. \A i \in Containers : dict_client_threads'[i] = -1 => dict_client_threads[i] = -1
  <2>1. CASE UNCHANGED clients \/ \E t \in Threads : Client(t) \/ ClientFail(t)
    BY <1>0, <2>1, ThreadStep DEF clients
  <2> QED
    BY <1>0, <1>1, <2>1, Touches
<1>3. ASSUME RegisterName
      PROVE  /\ att.pc = "registerName" /\ att'.pc \notin {"register", "registerName"}
             /\ Listed(q) /\ dict_client_threads[q] # -1
             /\ UNCHANGED <<execInfo_list, dict_client_threads>>
  <2>1. att.pc = "registerName" /\ att'.pc \notin {"register", "registerName"}
    BY <1>0, <1>3 DEF RegisterName, AfterSchedule, AttentionLocals
  <2> QED
    BY <1>0, <1>3, <2>1 DEF RegisterName, ListNames, clients
<1>4. ASSUME RegisterStart
      PROVE  /\ att.pc = "register" /\ att'.pc = "registerName" /\ att'.request = att.request
             /\ Registers(q) /\ Listed(q)' /\ dict_client_threads[q] # -1
             /\ UNCHANGED <<containerName_list, dict_client_threads>>
  <2>1. /\ att.pc = "register" /\ att'.pc = "registerName" /\ att'.request = att.request
        /\ UNCHANGED <<containerName_list, dict_client_threads>> /\ Registers(q)
    BY <1>0, <1>4 DEF RegisterStart, AttentionLocals, clients, Registers
  <2>2. dict_client_threads[q] # -1
    BY <1>0, <2>1 DEF Orders, Accepting
  <2>3. Listed(q)'
    <3>1. ASSUME NEW i \in Containers, i = q PROVE Listed(i)'
      BY <1>0, <1>4, <3>1, ListStep
    <3> QED
      BY <1>0, <2>1, <3>1 DEF Listed
  <2> QED
    BY <2>1, <2>2, <2>3
<1>5. ASSUME NEW i \in Containers, dict_client_threads'[i] = -1 PROVE ~ Named(i)'
  BY <1>0, <1>2, <1>3, <1>5, ListStep DEF ListNames
<1>6. ASSUME NEW i \in Containers, Listed(i)'
      PROVE  Named(i)' \/ (att'.pc = "registerName" /\ Registers(i)')
  <2>1. CASE ~ Listed(i)
    <3>1. RegisterStart /\ i = q
      BY <1>0, <1>6, <2>1, ListStep
    <3> QED
      BY <1>4, <3>1 DEF Registers
  <2>2. CASE Listed(i) /\ Named(i)
    <3>1. \A t \in Threads : ClientRemoveName(t) => t[1] # i
      BY <1>0, <2>2 DEF ThreadNames, ClientRemoveName
    <3> QED
      BY <1>0, <2>2, <3>1, ListStep, Closed
  <2>3. CASE att.pc = "registerName" /\ Registers(i)
    <3>1. UNCHANGED att \/ RegisterName
      BY <1>0, <2>3, AttTouches
    <3>2. CASE UNCHANGED att
      BY <2>3, <3>2 DEF Registers
    <3>3. CASE RegisterName
      BY <1>0, <2>3, <3>3, ListStep DEF Registers
    <3> QED
      BY <3>1, <3>2, <3>3
  <2> QED
    BY <1>0, <2>1, <2>2, <2>3 DEF ListNames
<1>7. ASSUME NEW i \in Containers, Registers(i)' PROVE ~ Named(i)'
  <2>1. att'.pc \in {"register", "registerName"} /\ att'.request.kind = "Start" /\ att'.request.id = i
    BY <1>7 DEF Registers
  <2>2. UNCHANGED att \/ Accept \/ RegisterStart
    BY <1>0, <2>1, AttTouches
  <2>3. CASE UNCHANGED att
    <3>1. ~ Named(i)
      BY <1>0, <2>1, <2>3 DEF Registers, ListNames
    <3>2. ~ RegisterName
      BY <1>3, <2>1
    <3> QED
      BY <1>0, <3>1, <3>2, ListStep
  <2>4. CASE Accept
    BY <1>0, <1>1, <2>1, <2>4 DEF ListNames, Named
  <2>5. CASE RegisterStart
    BY <1>0, <1>4, <2>1, <2>5 DEF ListNames, Named
  <2> QED
    BY <2>2, <2>3, <2>4, <2>5
<1>8. ASSUME att'.pc = "registerName", NEW i, i = att'.request.id
      PROVE  Registers(i)' /\ Listed(i)' /\ dict_client_threads'[i] # -1
  <2>1. UNCHANGED att \/ RegisterStart
    BY <1>0, <1>8, AttTouches
  <2>2. CASE UNCHANGED att
    <3>1. /\ att.pc = "registerName" /\ i = q /\ Registers(i) /\ Listed(i) /\ i \in Containers
          /\ dict_client_threads[i] # -1 /\ ~ Named(i)
      BY <1>0, <1>8, <2>2 DEF ListNames
    <3>2. dict_client_threads'[i] # -1
      BY <1>2, <3>1
    <3>3. Registers(i)'
      BY <2>2, <3>1 DEF Registers
    <3>4. ASSUME NEW t \in Threads, ClientExit(t), t[1] = i PROVE FALSE
      BY <1>0, <3>1, <3>4 DEF ClientExit, ThreadNames
    <3> QED
      BY <1>0, <3>1, <3>2, <3>3, <3>4, ListStep
  <2>3. CASE RegisterStart
    <3>1. i = q
      BY <1>4, <1>8, <2>3
    <3>2. Listed(i)' /\ dict_client_threads'[i] # -1
      BY <1>0, <1>4, <2>3, <3>1, ListStep
    <3> QED
      BY <1>4, <2>3, <3>1, <3>2 DEF Registers
  <2> QED
    BY <2>1, <2>2, <2>3
<1> QED
  BY <1>5, <1>6, <1>7, <1>8 DEF ListNames

LEMMA ThreadNamesStep ==
    ASSUME Before, NEW t \in Threads
    PROVE  ThreadNames(t)'
<1> DEFINE q == att.request.id
           i == t[1]
<1>0. /\ TypeOK /\ Orders /\ ListedLater /\ OrdersReady /\ OwnPeer /\ ListNames /\ Names /\ Timely
      /\ [Next]_vars
      /\ \A u \in Threads : ThreadNames(u) /\ cl[u].peer = u[1]
      /\ q \in Containers /\ i \in Containers /\ att \in AttentionLocals
      /\ cl \in [Threads -> ClientLocals]
      /\ docker \in [Containers -> {"none", "boot", "up", "finished", "leaving", "exited"}]
  BY Known, RequestFields DEF Before, Life, Names, TypeOK, Orders, OwnPeer, Threads
<1>1. ASSUME NEW u \in Threads, ClientExit(u)
      PROVE  /\ Working(u) /\ cl[u].pc = "loop" /\ cl'[u].pc = "removeName"
             /\ Listed(u[1]) /\ Named(u[1]) /\ docker[u[1]] = "finished"
             /\ UNCHANGED containerName_list
  <2>1. cl[u].pc = "loop" /\ docker[u[1]] = "finished"
    BY <1>0, <1>1 DEF ClientExit
  <2>2. Listed(u[1]) /\ Named(u[1])
    BY <1>0, <2>1 DEF ThreadNames
  <2>3. cl'[u].pc = "removeName" /\ UNCHANGED containerName_list
    BY <1>0, <1>1, <2>2 DEF ClientExit, ClientLocals
  <2> QED
    BY <2>1, <2>2, <2>3 DEF Working, WorkingPcs
<1>2. ASSUME NEW u \in Threads, ClientRemoveName(u)
      PROVE  Working(u) /\ cl[u].pc = "removeName" /\ cl'[u].pc = "end"
  BY <1>0, <1>2 DEF ClientRemoveName, ClientLocals, Working, WorkingPcs
\* While a thread keeps its place, what it knows stays known.
<1>3. ASSUME Working(t), cl'[t].pc = cl[t].pc
      PROVE  \A u \in Threads : u[1] = i => ~ ClientExit(u) /\ ~ ClientRemoveName(u)
  <2> SUFFICES ASSUME NEW u \in Threads, u[1] = i, ClientExit(u) \/ ClientRemoveName(u)
               PROVE  FALSE
    OBVIOUS
  <2>1. u = t
    BY <1>0, <1>1, <1>2, <1>3, OneWorks
  <2> QED
    BY <1>1, <1>2, <1>3, <2>1
<1>4. \/ cl'[t].pc = cl[t].pc
      \/ Client(t) \/ ClientFail(t)
      \/ Accept /\ cl'[t].pc = "init" /\ t[1] = q
  <2>1. CASE UNCHANGED clients
    BY <2>1 DEF clients
  <2>2. CASE Accept
    <3>1. PICK n \in 0 .. MaxFaults :
             cl' = [cl EXCEPT ![<<q, n>>].pc = "init", ![<<q, n>>].peer = Head(backlog)]
      BY <2>2 DEF Accept
    <3>2. <<q, n>> \in Threads
      BY <1>0 DEF Threads
    <3> QED
      BY <1>0, <2>2, <3>1, <3>2 DEF ClientLocals
  <2>3. CASE \E u \in Threads : Client(u) \/ ClientFail(u)
    BY <1>0, <2>3, ThreadStep
  <2> QED
    BY <1>0, <2>1, <2>2, <2>3, Touches
<1>5. cl'[t].pc \notin {"removeLost", "failLost"}
  <2> SUFFICES ASSUME cl'[t].pc \in {"removeLost", "failLost"} PROVE FALSE
    OBVIOUS
  <2>1. cl[t].pc \notin {"removeLost", "failLost"}
    BY <1>0 DEF ThreadNames
  <2>2. Client(t) \/ ClientFail(t)
    BY <1>4, <2>1
  <2>3. ClientExit(t) \/ FailRead(t)
    BY <1>0, <2>2, ThreadStep
  <2>4. CASE ClientExit(t)
    BY <1>1, <2>4
  <2>5. CASE FailRead(t)
    <3>1. Listed(i)
      BY <1>0, <2>5 DEF FailRead, ThreadNames, FailingPcs
    <3>2. cl'[t].pc = "failMark"
      BY <1>0, <2>5, <3>1 DEF FailRead, ClientLocals
    <3> QED
      BY <3>2
  <2> QED
    BY <2>3, <2>4, <2>5
<1>6. ASSUME cl'[t].pc \in {"init", "loop"}
      PROVE  \/ Listed(i)' /\ Named(i)'
             \/ Registers(i)' /\ docker'[i] \notin {"finished", "leaving"}
  <2>1. CASE Accept /\ i = q
    <3>1. /\ att.pc = "accept" /\ att'.pc = "register" /\ att'.request = att.request
          /\ UNCHANGED <<docker, execInfo_list, containerName_list>>
      BY <1>0, <2>1 DEF Accept, AttentionLocals, lists
    <3>2. Undertaken(q) /\ att.request \in Waiting /\ IsLaunch(att.request)
      BY <1>0, <3>1, OneWorks
    <3>3. CASE att.request.kind = "Start"
      BY <1>0, <2>1, <3>1, <3>3 DEF Registers, OrdersReady
    <3>4. CASE att.request.kind = "Restart"
      BY <1>0, <2>1, <3>1, <3>2, <3>4 DEF OrdersReady, Listed, Named
    <3> QED
      BY <3>2, <3>3, <3>4 DEF IsLaunch
  <2>2. CASE cl[t].pc \in {"init", "loop"} /\ ~ (Accept /\ i = q)
    <3>1. Working(t) /\ \A u \in Threads : u[1] = i => ~ ClientExit(u) /\ ~ ClientRemoveName(u)
      <4>1. Working(t)
        BY <2>2 DEF Working, WorkingPcs
      <4>2. ASSUME NEW u \in Threads, u[1] = i, ClientExit(u) \/ ClientRemoveName(u) PROVE FALSE
        <5>1. u = t
          BY <1>0, <1>1, <1>2, <4>1, <4>2, OneWorks
        <5> QED
          BY <1>1, <1>2, <1>6, <4>2, <5>1
      <4> QED
        BY <4>1, <4>2
    <3>2. CASE Listed(i) /\ Named(i)
      BY <1>0, <3>1, <3>2, ListStep, Closed
    <3>3. CASE Registers(i) /\ docker[i] \notin {"finished", "leaving"}
      <4>1. docker'[i] \notin {"finished", "leaving"}
        <5>1. ~ TrainingEnds(i)
          BY <1>0, <3>3 DEF TrainingEnds, Timely, Registering, Registers
        <5> QED
          BY <1>0, <3>1, <3>3, <5>1, DockerStep
      <4>2. CASE UNCHANGED att
        BY <3>3, <4>1, <4>2 DEF Registers
      <4>3. CASE ~ UNCHANGED att
        <5>1. RegisterStart \/ RegisterName
          BY <1>0, <3>3, <4>3, AttTouches DEF Registers, RegisterRestart
        <5>2. CASE RegisterStart
          <6>1. att'.pc = "registerName" /\ att'.request = att.request
            BY <1>0, <5>2 DEF RegisterStart, AttentionLocals
          <6> QED
            BY <3>3, <4>1, <6>1 DEF Registers
        <5>3. CASE RegisterName
          <6>1. Listed(i) /\ i = q
            BY <1>0, <3>3, <5>3 DEF RegisterName, ListNames, Registers
          <6> QED
            BY <1>0, <3>1, <5>3, <6>1, ListStep
        <5> QED
          BY <5>1, <5>2, <5>3
      <4> QED
        BY <4>2, <4>3
    <3> QED
      BY <1>0, <2>2, <3>2, <3>3 DEF ThreadNames
  <2>3. CASE cl[t].pc \notin {"init", "loop"} /\ ~ (Accept /\ i = q)
    <3>1. Client(t) \/ ClientFail(t)
      BY <1>4, <1>6, <2>3
    <3>2. ClientInit(t)
      BY <1>0, <1>6, <3>1, ThreadStep, Closed
    <3> QED
      BY <2>3, <3>2 DEF ClientInit
  <2> QED
    BY <2>1, <2>2, <2>3
<1>7. ASSUME cl'[t].pc \in FailingPcs
      PROVE  Listed(i)' /\ Named(i)' /\ docker'[i] = "none"
  <2>1. CASE ClientFail(t)
    <3>1. Listed(i) /\ Named(i)
      BY <1>0, <2>1 DEF ClientFail, Watching, ThreadNames, Timely, Registering, Registers
    <3>2. UNCHANGED <<execInfo_list, containerName_list>>
          /\ docker' = Pruned([docker EXCEPT ![i] = "none"])
      BY <2>1 DEF ClientFail, StopContainer, lists
    <3>3. docker'[i] = "none"
      BY <1>0, <3>2 DEF Pruned
    <3> QED
      BY <3>1, <3>2, <3>3 DEF Listed, Named
  <2>2. CASE ~ ClientFail(t)
    <3>1. cl[t].pc \in FailingPcs
      BY <1>0, <1>4, <1>7, <2>2, ThreadStep DEF FailingPcs
    <3>2. Working(t) /\ Listed(i) /\ Named(i) /\ docker[i] = "none"
      BY <1>0, <3>1 DEF ThreadNames, Working, WorkingPcs, FailingPcs
    <3>3. ASSUME NEW u \in Threads, u[1] = i, ClientExit(u) \/ ClientRemoveName(u) PROVE FALSE
      <4>1. u = t
        BY <1>0, <1>1, <1>2, <3>2, <3>3, OneWorks
      <4> QED
        BY <1>1, <1>2, <3>1, <3>3, <4>1 DEF FailingPcs
    <3>4. ~ Launched(i)
      BY <1>0, <3>2, OneWorks DEF Launched, ScheduleLaunch, Undertaken, Launches
    <3> QED
      BY <1>0, <3>2, <3>3, <3>4, ListStep, DockerStep, Closed
  <2> QED
    BY <2>1, <2>2
<1>8. ASSUME cl'[t].pc = "removeName"
      PROVE  Named(i)' /\ ~ Listed(i)'
  <2>1. CASE ClientExit(t)
    <3>1. Named(i) /\ Listed(i) /\ UNCHANGED containerName_list
      BY <1>1, <2>1
    <3>2. ~ Listed(i)'
      BY <1>0, <2>1, <3>1, ExitList
    <3> QED
      BY <3>1, <3>2 DEF Named
  <2>2. CASE ~ ClientExit(t)
    <3>1. cl[t].pc = "removeName"
      BY <1>0, <1>4, <1>8, <2>2, ThreadStep
    <3>2. Working(t) /\ Named(i) /\ ~ Listed(i)
      BY <1>0, <3>1 DEF ThreadNames, Working, WorkingPcs
    <3>3. \A u \in Threads : u[1] = i => ~ ClientRemoveName(u)
      BY <1>3, <1>8, <3>1, <3>2
    <3>4. ~ (RegisterStart /\ i = q)
      BY <1>0, <3>2 DEF RegisterStart, Registers, ListNames
    <3> QED
      BY <1>0, <3>2, <3>3, <3>4, ListStep, Closed
  <2> QED
    BY <2>1, <2>2
<1> QED
  BY <1>5, <1>6, <1>7, <1>8 DEF ThreadNames

LEMMA EndsStep == Before => EndsOnce'
<1> SUFFICES ASSUME Before PROVE EndsOnce'
  OBVIOUS
<1>0. /\ TypeOK /\ Orders /\ Names /\ EndsOnce /\ Timely /\ [Next]_vars
      /\ att.request.id \in Containers /\ att \in AttentionLocals
      /\ cl \in [Threads -> ClientLocals]
      /\ dict_client_threads \in [Containers -> -1 .. MaxFaults]
      /\ \A u \in Threads : ThreadNames(u) /\ cl[u].peer = u[1]
  BY Known, RequestFields DEF Before, Life, Names, TypeOK, OwnPeer
<1>1. ASSUME NEW t \in Threads, ClientExit(t)
      PROVE  /\ Working(t) /\ cl[t].pc = "loop" /\ cl'[t].pc = "removeName"
             /\ UNCHANGED <<att, dict_client_threads>>
             /\ \A i : Ending(i)' => Ending(i) \/ i = t[1]
  <2>1. cl[t].pc = "loop" /\ Listed(t[1])
    BY <1>0, <1>1 DEF ClientExit, ThreadNames
  <2>2. /\ cl'[t].pc = "removeName" /\ UNCHANGED <<att, dict_client_threads>>
        /\ q_finish_container' =
              Append(q_finish_container, [cores |-> Parallelism(info[t[1]]), id |-> t[1]])
    BY <1>0, <1>1, <2>1 DEF ClientExit, ClientLocals
  <2> DEFINE l == q_finish_container
             S == [cores : Nat, id : Containers]
             f == [cores |-> Parallelism(info[t[1]]), id |-> t[1]]
  <2>3. l \in Seq(S) /\ f.id = t[1]
    BY <1>0 DEF TypeOK
  <2>4. \A k \in 1 .. Len(Append(l, f)) : \/ k \in 1 .. Len(l) /\ Append(l, f)[k] = l[k]
                                          \/ Append(l, f)[k] = f
    <3> HIDE DEF l, f, S
    <3> QED
      BY <2>3
  <2>5. \A i : Ending(i)' => Ending(i) \/ i = t[1]
    BY <2>2, <2>3, <2>4 DEF Ending
  <2> QED
    BY <2>1, <2>2, <2>5 DEF Working, WorkingPcs
<1>2. ASSUME FinishRequest PROVE \A i : Ending(i)' => Ending(i)
  <2> DEFINE l == q_finish_container
             S == [cores : Nat, id : Containers]
  <2>1. l \in Seq(S) /\ l # <<>> /\ q_finish_container' = Tail(l) /\ att'.joining = Head(l).id
    BY <1>0, <1>2 DEF TypeOK, FinishRequest, AttentionLocals
  <2>2. /\ 1 \in 1 .. Len(l) /\ Head(l) = l[1]
        /\ \A k \in 1 .. Len(Tail(l)) : k + 1 \in 1 .. Len(l) /\ Tail(l)[k] = l[k + 1]
    <3> HIDE DEF l, S
    <3> QED
      BY <2>1
  <2> QED
    BY <2>1, <2>2 DEF Ending
<1>3. ASSUME NEW i \in Containers, Ending(i)'
      PROVE  Ending(i) \/ \E t \in Threads : ClientExit(t) /\ t[1] = i
  <2>1. CASE \E t \in Threads : ClientExit(t)
    BY <1>1, <1>3, <2>1
  <2>2. CASE FinishRequest
    BY <1>2, <1>3, <2>2
  <2>3. CASE UNCHANGED q_finish_container /\ ~ FinishRequest
    <3>1. att'.pc = "join" => UNCHANGED att
      BY <1>0, <2>3, AttTouches
    <3> QED
      BY <1>3, <2>3, <3>1 DEF Ending
  <2> QED
    BY <1>0, <2>1, <2>2, <2>3, Touches
<1>4. ASSUME NEW i \in Containers, Ordered(i)'
      PROVE  Ordered(i) \/ \E t \in Threads : FailQueue(t) /\ t[1] = i
  <2>1. CASE InRows(i)'
    BY <1>0, <2>1, WaitingStep DEF Ordered
  <2>2. CASE \E r \in Waiting' : Launches(r, i)
    BY <1>0, <2>2, WaitingStep DEF Ordered, Launches
  <2>3. InRows(i)' \/ \E r \in Waiting' : Launches(r, i)
    BY <1>4 DEF Ordered
  <2> QED
    BY <2>1, <2>2, <2>3
<1>5. \A t \in Threads : FailQueue(t) => cl[t].pc = "failQueue" /\ Working(t)
  BY DEF FailQueue, Working, WorkingPcs
<1>6. ASSUME NEW t \in Threads, ClientExit(t)
      PROVE  /\ ~ Ordered(t[1])'
             /\ dict_client_threads'[t[1]] \in 0 .. MaxFaults
             /\ cl'[<<t[1], dict_client_threads'[t[1]]>>].pc = "removeName"
  <2>1. /\ ~ Ordered(t[1]) /\ dict_client_threads[t[1]] = t[2] /\ t[2] \in 0 .. MaxFaults
        /\ t = <<t[1], t[2]>> /\ t[1] \in Containers
    BY <1>0, <1>1, <1>6, OneWorks
  <2>2. \A u \in Threads : FailQueue(u) => u[1] # t[1]
    BY <1>0, <1>1, <1>5, <1>6, OneWorks
  <2>3. ~ Ordered(t[1])'
    <3>1. ASSUME NEW i \in Containers, i = t[1], Ordered(i)' PROVE FALSE
      BY <1>4, <2>1, <2>2, <3>1
    <3> QED
      BY <2>1, <3>1
  <2> QED
    BY <1>1, <1>6, <2>1, <2>3
<1>7. ASSUME NEW i \in Containers, Ending(i)
      PROVE  /\ ~ Ordered(i)'
             /\ dict_client_threads'[i] \in 0 .. MaxFaults
             /\ cl'[<<i, dict_client_threads'[i]>>].pc \in {"removeName", "end", "done"}
  <2> DEFINE n == dict_client_threads[i]
             t == <<i, n>>
  <2>1. /\ ~ Ordered(i) /\ n \in 0 .. MaxFaults /\ t \in Threads
        /\ cl[t].pc \in {"removeName", "end", "done"}
    BY <1>0, <1>7 DEF EndsOnce, Threads
  <2>2. ASSUME NEW u \in Threads, FailQueue(u), u[1] = i PROVE FALSE
    <3>1. u = t
      BY <1>0, <1>5, <2>2, OneWorks
    <3> QED
      BY <1>5, <2>1, <2>2, <3>1
  <2>3. ~ Ordered(i)'
    BY <1>4, <2>1, <2>2
  <2> HIDE DEF t
  <2>4. dict_client_threads'[i] = n /\ cl'[t].pc \in {"removeName", "end", "done"}
    <3>1. CASE UNCHANGED clients
      BY <2>1, <3>1 DEF clients
    <3>2. CASE Accept
      <4>1. att.request.id # i
        BY <1>0, <2>1, <3>2, OneWorks DEF Accept
      <4>2. PICK m \in 0 .. MaxFaults :
               /\ dict_client_threads' = [dict_client_threads EXCEPT ![att.request.id] = m]
               /\ cl' = [cl EXCEPT ![<<att.request.id, m>>].pc = "init",
                                   ![<<att.request.id, m>>].peer = Head(backlog)]
        BY <3>2 DEF Accept
      <4>3. <<att.request.id, m>> # t
        BY <4>1 DEF t
      <4>4. cl'[t] = cl[t]
        BY <1>0, <2>1, <4>2, <4>3
      <4> QED
        BY <1>0, <2>1, <4>1, <4>2, <4>4
    <3>3. CASE \E u \in Threads : Client(u) \/ ClientFail(u)
      <4>1. PICK u \in Threads : Client(u) \/ ClientFail(u)
        BY <3>3
      <4>2. CASE u # t
        BY <1>0, <2>1, <4>1, <4>2, ThreadStep
      <4>3. CASE u = t
        BY <1>0, <2>1, <4>1, <4>3, ThreadStep, Closed
      <4> QED
        BY <4>2, <4>3
    <3> QED
      BY <1>0, <3>1, <3>2, <3>3, Touches
  <2> QED
    BY <2>1, <2>3, <2>4 DEF t
<1>8. ASSUME NEW i \in Containers, Ending(i)'
      PROVE  /\ ~ Ordered(i)'
             /\ dict_client_threads'[i] \in 0 .. MaxFaults
             /\ cl'[<<i, dict_client_threads'[i]>>].pc \in {"removeName", "end", "done"}
  <2>1. CASE Ending(i)
    BY <1>7, <2>1
  <2>2. CASE \E t \in Threads : ClientExit(t) /\ t[1] = i
    <3>1. PICK t \in Threads : ClientExit(t) /\ t[1] = i
      BY <2>2
    <3>2. ASSUME NEW j \in Containers, j = t[1], ~ Ordered(t[1])' PROVE ~ Ordered(j)'
      BY <3>2
    <3> QED
      BY <1>6, <3>1, <3>2
  <2> QED
    BY <1>3, <1>8, <2>1, <2>2
<1> QED
  BY <1>8 DEF EndsOnce

LEMMA EmptyStep == Before => EndIsEmpty'
<1> SUFFICES ASSUME Before PROVE EndIsEmpty'
  OBVIOUS
<1>0. /\ TypeOK /\ Orders /\ ListedLater /\ EndIsEmpty /\ [Next]_vars
      /\ containerName_list \subseteq Containers
  BY DEF Before, Life, Orders, TypeOK
<1>1. ASSUME att'.pc = "check2"
      PROVE  queue_empty(queue_pending_array')
  <2>1. CASE IsFinishQueues
    <3>1. att \in AttentionLocals
      BY <1>0, Known
    <3> QED
      BY <1>1, <2>1, <3>1 DEF IsFinishQueues, AttentionLocals, queues
  <2>2. CASE UNCHANGED att
    <3>1. UNCHANGED queue_pending_array
      BY <1>0, <1>1, <2>2, Touches DEF PendingEnd, TakeRequest, PostNew
    <3> QED
      BY <1>0, <1>1, <2>2, <3>1 DEF EndIsEmpty
  <2> QED
    BY <1>0, <1>1, <2>1, <2>2, AttTouches
<1>2. ASSUME att'.pc = "done"
      PROVE  queue_empty(queue_pending_array') /\ containerName_list' = {}
  <2>1. CASE IsFinishRest
    <3>1. att \in AttentionLocals
      BY <1>0, Known
    <3>2. att.pc = "check2" /\ AllFinished
      BY <1>2, <2>1, <3>1 DEF IsFinishRest, AttentionLocals
    <3> QED
      BY <1>0, <2>1, <3>2 DEF IsFinishRest, AllFinished, EndIsEmpty, queues, lists
  <2>2. CASE UNCHANGED att
    <3>1. UNCHANGED queue_pending_array
      BY <1>0, <1>2, <2>2, Touches DEF PendingEnd, TakeRequest, PostNew
    <3>2. containerName_list = {} /\ queue_empty(queue_pending_array)
      BY <1>0, <1>2, <2>2 DEF EndIsEmpty
    <3>3. containerName_list' = {}
      <4>1. CASE RegisterName
        BY <1>2, <2>2, <4>1 DEF RegisterName
      <4>2. CASE \E t \in Threads : ClientRemoveName(t)
        BY <3>2, <4>2 DEF ClientRemoveName
      <4>3. CASE \E t \in Threads : ClientRemoveRaises(t)
        BY <3>2, <4>3 DEF ClientRemoveRaises
      <4> QED
        BY <1>0, <3>2, <4>1, <4>2, <4>3, Touches
    <3> QED
      BY <3>1, <3>2, <3>3
  <2> QED
    BY <1>0, <1>2, <2>1, <2>2, AttTouches
<1> QED
  BY <1>1, <1>2 DEF EndIsEmpty

LEMMA LifeStep == TypeOK /\ Orders /\ Life /\ Timely /\ [Next]_vars => Life'
BY ReadyStep, PeerStep, ListNamesStep, ThreadNamesStep, EndsStep, EmptyStep
   DEF Before, Life, Names

LEMMA LifeInit == Init => Life
<1> SUFFICES ASSUME Init PROVE Life
  OBVIOUS
<1>1. /\ Elements(queue_array) = {} /\ Elements(queue_pending_array) = {} /\ Elements(att.q_aux) = {}
      /\ queue_empty(queue_pending_array)
  BY NoOrder DEF Init, AttentionAt, queue_empty
<1>2. att.pc = "check" /\ \A i : ~ Undertaken(i) /\ ~ Registers(i)
  BY DEF Init, AttentionAt, Undertaken, Registers
<1>3. Waiting = {}
  BY <1>1, <1>2 DEF Waiting
<1>4. \A t \in Threads : cl[t].pc = "none" /\ cl[t].peer = t[1]
  BY DEF Init
<1>5. /\ \A i \in Containers : docker[i] = "none" /\ ~ Named(i) /\ ~ Listed(i)
      /\ backlog = <<>> /\ q_finish_container = <<>>
  BY DEF Init, Named, Listed
<1>6. OrdersReady
  BY <1>2, <1>3, <1>5 DEF OrdersReady
<1>7. OwnPeer
  BY <1>4, <1>5 DEF OwnPeer
<1>8. Names
  BY <1>2, <1>4, <1>5 DEF Names, ListNames, ThreadNames, FailingPcs
<1>9. EndsOnce
  BY <1>2, <1>5 DEF EndsOnce, Ending
<1>10. EndIsEmpty
  BY <1>2 DEF EndIsEmpty
<1> QED
  BY <1>6, <1>7, <1>8, <1>9, <1>10 DEF Life

-----------------------------------------------------------------------------
(* What follows for the runs' properties.                                  *)

\* The life of a container is in order if no connection comes late and no
\* container ends or is given up before its launch is registered.
THEOREM OrderlyLife ==
    ASSUME Timely
    PROVE  Spec => []Life
<1>1. Init => Life
  BY LifeInit
<1>2. TypeOK /\ Orders /\ Life /\ [Next]_vars => Life'
  BY LifeStep
<1> QED
  BY <1>1, <1>2, TypeCorrect, OneOrder, PTL DEF Spec

\* Under the same conditions the attention thread joins a thread that is past the
\* removal of its container, so that join() returns.
THEOREM JoinsWhoEnds ==
    ASSUME Timely
    PROVE  Spec => []JoinOnlyFinishing
<1>1. TypeOK /\ Life => JoinOnlyFinishing
  <2> SUFFICES ASSUME TypeOK, Life, att.pc = "join" PROVE JoinOnlyFinishing
    BY DEF JoinOnlyFinishing
  <2>1. att.joining \in Containers /\ Ending(att.joining)
    BY Known DEF AttentionLocals, Ending
  <2> DEFINE t == <<att.joining, dict_client_threads[att.joining]>>
  <2>2. t \in Threads /\ cl[t].pc \in {"removeName", "end", "done"}
    BY <2>1 DEF Life, EndsOnce, Threads
  <2> QED
    BY <2>2 DEF JoinOnlyFinishing
<1> QED
  BY <1>1, TypeCorrect, OrderlyLife, PTL

\* Under the same conditions docker run finds the name of the container free, at
\* its first launch and at every restart.
THEOREM NamesFree ==
    ASSUME Timely
    PROVE  Spec => []NameIsFree
<1>1. TypeOK /\ Life => NameIsFree
  <2> SUFFICES ASSUME TypeOK, Life, att.pc = "schedule", IsLaunch(att.request)
               PROVE  docker[att.request.id] = "none"
    BY DEF NameIsFree
  <2>1. att.request \in Waiting
    BY DEF Undertaken, Launches, Waiting
  <2> QED
    BY <2>1 DEF Life, OrdersReady
<1> QED
  BY <1>1, TypeCorrect, OrderlyLife, PTL

\* Under the same conditions the attention thread ends when nothing is left of the
\* workload that it has seen.
THEOREM NothingLeft ==
    ASSUME Timely
    PROVE  Spec => []NothingLeftAtEnd
<1>1. TypeOK /\ Life => NothingLeftAtEnd
  <2> SUFFICES ASSUME TypeOK, Life, att.pc = "done" PROVE NothingLeftAtEnd
    BY DEF NothingLeftAtEnd
  <2>1. queue_empty(queue_pending_array) /\ \A i : ~ Named(i) /\ ~ Registers(i)
    BY DEF Life, EndIsEmpty, Named, Registers
  <2>2. \A i \in Containers : ~ Listed(i)
    BY <2>1 DEF Life, Names, ListNames
  <2>3. execInfo_list = <<>>
    <3>1. execInfo_list \in Seq(Containers)
      BY DEF TypeOK
    <3>2. \A k \in DOMAIN execInfo_list : FALSE
      BY <2>2, <3>1 DEF Listed
    <3> DEFINE l == execInfo_list
    <3>3. l \in Seq(Containers) /\ \A k \in DOMAIN l : FALSE
      BY <3>1, <3>2
    <3> HIDE DEF l
    <3>4. Len(l) \in Nat /\ DOMAIN l = 1 .. Len(l)
      BY <3>3
    <3>5. 1 \notin 1 .. Len(l)
      BY <3>3, <3>4
    <3>6. Len(l) = 0
      BY <3>4, <3>5
    <3>7. l = <<>>
      BY <3>3, <3>6
    <3> QED
      BY <3>7 DEF l
  <2>4. ASSUME NEW t \in Threads
        PROVE  cl[t].pc \notin {"init", "loop", "failRead", "failMark", "failLock", "failFree",
                                "failQueue"}
    BY <2>1 DEF Life, Names, ThreadNames, FailingPcs
  <2>5. ASSUME NEW i \in Containers PROVE docker[i] \notin {"boot", "up", "finished"}
    <3>1. \A n \in 0 .. MaxFaults : <<i, n>> \in Threads
      BY DEF Threads
    <3> QED
      BY <2>4, <3>1 DEF Life, OwnPeer
  <2> QED
    BY <2>1, <2>3, <2>4, <2>5 DEF NothingLeftAtEnd
<1> QED
  BY <1>1, TypeCorrect, OrderlyLife, PTL
=============================================================================
