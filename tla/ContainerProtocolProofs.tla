----------------------- MODULE ContainerProtocolProofs -----------------------
(* Proofs about the conversation of a container with the scheduler: what      *)
(* holds for any number of updates and probes, whatever they say.             *)
EXTENDS ContainerProtocolProperties, TLAPS, SequenceTheorems

\* The three messages of the client thread and the updates of the attention thread
\* are different, and an update has no negative number of threads.
LEMMA MessagesType ==
    /\ Ack \in Messages /\ Probe \in Messages /\ Start \in Messages /\ Updates \subseteq Messages
    /\ Ack # Probe /\ Ack # Start /\ Ack \notin Updates /\ Probe \notin Updates /\ Probe # Start
    /\ \A m \in Messages : m.inter \in Int /\ m.intra \in Int
    /\ \A m \in Messages : m \in {Ack, Probe, Start} => m.inter < 0 /\ m.intra < 0
BY ProtocolAssumption DEF Messages, Ack, Probe, Start

\* The first element of a stream and the rest of it.
LEMMA HeadAndTail ==
    ASSUME NEW S, NEW s \in Seq(S), s # <<>>
    PROVE  Head(s) \in S /\ Tail(s) \in Seq(S)
OBVIOUS

\* The stream without a whole message, as main takes it.
LEMMA TwoFewer ==
    ASSUME NEW S, NEW s \in Seq(S), Len(s) > 1
    PROVE  Tail(Tail(s)) \in Seq(S)
<1> DEFINE t == Tail(s)
<1>1. t \in Seq(S) /\ Len(t) > 0
  OBVIOUS
<1> HIDE DEF t
<1>2. Tail(t) \in Seq(S)
  BY <1>1
<1> QED
  BY <1>2 DEF t

\* progressive_update_threads sends no negative number.
LEMMA NextThreadsType ==
    ASSUME NEW old \in Nat, NEW new \in Nat
    PROVE  NextThreads(old, new) \in Nat
<1>1. old \div 2 \in Nat
  OBVIOUS
<1> QED
  BY <1>1 DEF NextThreads

\* _send adds a part to a stream.
LEMMA PartToClient ==
    ASSUME NEW s \in Seq(ToClient), NEW part \in {"len", "data"}, NEW msg \in Messages
    PROVE  Part(s, part, msg) \in Seq(ToClient)
<1>1. [part |-> part, msg |-> msg] \in ToClient
  BY DEF ToClient
<1> QED
  BY <1>1 DEF Part

\* The same for the other direction.
LEMMA PartToScheduler ==
    ASSUME NEW s \in Seq(ToScheduler), NEW part \in {"len", "data"}, NEW msg \in Answer
    PROVE  Part(s, part, msg) \in Seq(ToScheduler)
<1>1. [part |-> part, msg |-> msg] \in ToScheduler
  BY DEF ToScheduler
<1> QED
  BY <1>1 DEF Part

\* What a stream holds after a part was added to it.
LEMMA PartElements ==
    ASSUME NEW s \in Seq(ToClient), NEW part, NEW msg
    PROVE  /\ Len(Part(s, part, msg)) = Len(s) + 1
           /\ \A i \in 1..Len(s) : Part(s, part, msg)[i] = s[i]
           /\ Part(s, part, msg)[Len(s) + 1] = [part |-> part, msg |-> msg]
BY DEF Part

\* What a stream holds after a part was read.
LEMMA TailElements ==
    ASSUME NEW s \in Seq(ToClient), s # <<>>
    PROVE  /\ Tail(s) \in Seq(ToClient) /\ Len(Tail(s)) = Len(s) - 1 /\ Len(s) > 0
           /\ \A i \in 1..(Len(s) - 1) : Tail(s)[i] = s[i + 1]
           /\ Head(s) = s[1]
OBVIOUS

\* The same when a whole message was read.
LEMMA TwoFewerElements ==
    ASSUME NEW s \in Seq(ToClient), Len(s) > 1
    PROVE  /\ Len(Tail(Tail(s))) = Len(s) - 2
           /\ \A i \in 1..(Len(s) - 2) : Tail(Tail(s))[i] = s[i + 2]
<1> DEFINE t == Tail(s)
<1>1. /\ t \in Seq(ToClient) /\ Len(t) = Len(s) - 1 /\ Len(t) > 0
      /\ \A i \in 1..(Len(s) - 1) : t[i] = s[i + 1]
  OBVIOUS
<1> HIDE DEF t
<1>2. Len(Tail(t)) = Len(t) - 1 /\ \A i \in 1..(Len(t) - 1) : Tail(t)[i] = t[i + 1]
  BY <1>1
<1> QED
  BY <1>1, <1>2 DEF t

\* A part is one that was there, or the one that was added.
LEMMA NewPart ==
    ASSUME NEW s \in Seq(ToClient), NEW part, NEW msg, NEW i \in 1..Len(Part(s, part, msg))
    PROVE  \/ i \in 1..Len(s) /\ Part(s, part, msg)[i] = s[i]
           \/ i = Len(s) + 1 /\ Part(s, part, msg)[i].part = part /\ Part(s, part, msg)[i].msg = msg
<1>1. Len(s) \in Nat
  OBVIOUS
<1>2. /\ Len(Part(s, part, msg)) = Len(s) + 1
      /\ \A j \in 1..Len(s) : Part(s, part, msg)[j] = s[j]
      /\ Part(s, part, msg)[Len(s) + 1] = [part |-> part, msg |-> msg]
  BY PartElements
<1>3. i \in 1..Len(s) \/ i = Len(s) + 1
  BY <1>1, <1>2
<1> QED
  BY <1>2, <1>3


\* The parts under way are those of messages.
LEMMA StreamsStep == TypeOK /\ [Next]_vars => StreamsOK'
<1> SUFFICES ASSUME TypeOK, [Next]_vars PROVE StreamsOK'
  OBVIOUS
<1> USE DEF TypeOK
<1>1. CASE SendFirst
  BY <1>1, MessagesType, PartToClient DEF SendFirst, SchedSend, StreamsOK
<1>2. CASE SendProbe
  BY <1>2, MessagesType, PartToClient DEF SendProbe, SchedSend, StreamsOK
<1>3. CASE SendAck
  BY <1>3, MessagesType, PartToClient DEF SendAck, SchedSend, StreamsOK
<1>4. CASE Read
  BY <1>4, HeadAndTail DEF Read, StreamsOK
<1>5. CASE SendUpdate
  <2>1. CASE att.pc = "idle"
    BY <1>5, <2>1, MessagesType, PartToClient DEF SendUpdate, StreamsOK
  <2>2. CASE att.pc = "data"
    <3>1. att.msg \in Messages
      BY DEF SchedulerOK, AttentionThread
    <3> QED
      BY <1>5, <2>2, <3>1, PartToClient DEF SendUpdate, StreamsOK
  <2> QED
    BY <1>5, <2>1, <2>2 DEF SendUpdate
<1>6. CASE MainStart
  <2>1. CASE main.pc = "first"
    BY <1>6, <2>1, TwoFewer DEF MainStart, StreamsOK
  <2>2. CASE main.pc = "init1"
    BY <1>6, <2>2, PartToScheduler DEF MainStart, StreamsOK, Answer
  <2>3. CASE main.pc = "init2"
    BY <1>6, <2>3, PartToScheduler DEF MainStart, StreamsOK, Answer
  <2>4. CASE main.pc = "start"
    BY <1>6, <2>4 DEF MainStart, StreamsOK, streams
  <2> QED
    BY <1>6, <2>1, <2>2, <2>3, <2>4 DEF MainStart
<1>7. CASE Handler
  <2>1. CASE main.pc = "join"
    BY <1>7, <2>1, PartToScheduler DEF Handler, StreamsOK, Answer
  <2>2. CASE main.pc = "exit2"
    BY <1>7, <2>2, PartToScheduler DEF Handler, StreamsOK, Answer
  <2>3. CASE main.pc = "finalize"
    BY <1>7, <2>3 DEF Handler, StreamsOK
  <2> QED
    BY <1>7, <2>1, <2>2, <2>3 DEF Handler
<1>8. CASE SockRead
  BY <1>8, HeadAndTail DEF SockRead, StreamsOK
<1>9. CASE LiveAnswer
  <2>1. CASE live.pc = "stat"
    BY <1>9, <2>1, PartToScheduler DEF LiveAnswer, StreamsOK, Answer
  <2>2. CASE live.pc = "send"
    <3>1. live.msg \in Answer
      BY <2>2 DEF ThreadsOK, Live
    <3> QED
      BY <1>9, <2>2, <3>1, PartToScheduler DEF LiveAnswer, StreamsOK
  <2> QED
    BY <1>9, <2>1, <2>2 DEF LiveAnswer
<1>10. CASE \/ Remove
            \/ EndOfStream
            \/ Timeout
            \/ MainEnd
            \/ SockInter
            \/ SockIntra
            \/ SockWake
            \/ UpdTest
            \/ UpdWait
            \/ UpdTake
            \/ UpdProgress
            \/ LiveTest
            \/ LiveWait
            \/ Training
            \/ Crash
  BY <1>10 DEF Remove, EndOfStream, Timeout, MainEnd, SockInter, SockIntra, SockWake, UpdTest, UpdWait, UpdTake, UpdProgress, LiveTest, LiveWait, Training, Crash, StreamsOK, streams
<1>11. CASE UNCHANGED vars
  BY <1>11 DEF vars, StreamsOK, streams
<1> QED
  BY <1>1, <1>2, <1>3, <1>4, <1>5, <1>6, <1>7, <1>8, <1>9, <1>10, <1>11
     DEF Next, SchedulerThread, SocketThread, UpdateThread, LiveThread, MainThread

\* The threads of the scheduler keep their types.
LEMMA SchedulerStep == TypeOK /\ [Next]_vars => SchedulerOK'
<1> SUFFICES ASSUME TypeOK, [Next]_vars PROVE SchedulerOK'
  OBVIOUS
<1> USE DEF TypeOK
<1>1. CASE SendFirst
  BY <1>1 DEF SendFirst, SchedSend, SchedulerOK, ClientThread
<1>2. CASE SendProbe
  BY <1>2 DEF SendProbe, SchedSend, SchedulerOK, ClientThread
<1>3. CASE SendAck
  BY <1>3 DEF SendAck, SchedSend, SchedulerOK, ClientThread
<1>4. CASE Read
  <2> DEFINE msg == Head(to_scheduler).msg
  <2>1. Head(to_scheduler) \in ToScheduler
    BY <1>4, HeadAndTail DEF Read, StreamsOK
  <2>5. msg \in Answer
    BY <2>1 DEF ToScheduler
  <2> HIDE DEF msg
  <2>2. CASE Received(msg)
    <3>1. sched' \in ClientThread /\ alive' \in BOOLEAN
      <4>1. CASE sched.probing /\ ~ Answers(msg)
        BY <2>2, <4>1 DEF Received, Fail, SchedulerOK, ClientThread
      <4>2. CASE ~ (sched.probing /\ ~ Answers(msg))
        <5> DEFINE next == IF ~ sched.probing /\ msg = "exit" /\ ~ world.no_epochs
                           THEN "remove" ELSE "len"
        <5>1. sched' = [pc |-> next, msg |-> msg, probing |-> FALSE] /\ alive' = alive
          BY <2>2, <4>2 DEF Received
        <5>2. next \in {"remove", "len"}
          OBVIOUS
        <5> HIDE DEF next
        <5> QED
          BY <2>5, <5>1, <5>2 DEF SchedulerOK, ClientThread
      <4> QED
        BY <4>1, <4>2
    <3> QED
      BY <1>4, <3>1 DEF Read, SchedulerOK
  <2>3. CASE ~ Received(msg)
    BY <1>4, <2>3 DEF Read, SchedulerOK, ClientThread, msg
  <2> QED
    BY <2>2, <2>3
<1>5. CASE Remove
  BY <1>5 DEF Remove, SchedulerOK, ClientThread
<1>6. CASE EndOfStream
  BY <1>6 DEF EndOfStream, SchedulerOK, ClientThread
<1>7. CASE Timeout
  <2>1. sched' \in ClientThread /\ alive' \in BOOLEAN
    BY <1>7 DEF Timeout, NoAnswer, Fail, SchedulerOK, ClientThread
  <2>2. probes' \in 0..MaxProbes
    <3>1. MaxProbes \in Nat /\ probes \in 0..MaxProbes
      BY ProtocolAssumption DEF SchedulerOK
    <3>2. probes' = probes \/ (probes < MaxProbes /\ probes' = probes + 1)
      BY <1>7 DEF Timeout
    <3> QED
      BY <3>1, <3>2
  <2> QED
    BY <1>7, <2>1, <2>2 DEF Timeout, SchedulerOK
<1>8. CASE SendUpdate
  <2>1. CASE att.pc = "idle"
    <3>1. PICK u \in Updates : att' = [pc |-> "data", msg |-> u, sent |-> att.sent + 1]
      BY <1>8, <2>1 DEF SendUpdate
    <3>2. u \in Messages
      BY MessagesType
    <3>3. att.sent \in Nat /\ att.sent < world.updates /\ world.updates \in Nat
      BY <1>8, <2>1, ProtocolAssumption DEF SendUpdate, SchedulerOK, AttentionThread
    <3>4. att' \in AttentionThread /\ att'.sent <= world.updates
      BY <3>1, <3>2, <3>3 DEF AttentionThread
    <3> QED
      BY <1>8, <2>1, <3>4 DEF SendUpdate, SchedulerOK
  <2>2. CASE att.pc = "data"
    <3>1. att.msg.inter \in Int /\ att.msg.intra \in Int
      BY MessagesType DEF SchedulerOK, AttentionThread
    <3>2. last' \in Parallelism
      BY <1>8, <2>2, <3>1 DEF SendUpdate, SchedulerOK, Parallelism
    <3>3. att' \in AttentionThread /\ att'.sent <= world.updates
      BY <1>8, <2>2 DEF SendUpdate, SchedulerOK, AttentionThread
    <3> QED
      BY <1>8, <2>2, <3>2, <3>3 DEF SendUpdate, SchedulerOK
  <2> QED
    BY <1>8, <2>1, <2>2 DEF SendUpdate
<1>9. CASE Crash
  BY <1>9 DEF Crash, SchedulerOK, scheduler
<1>10. CASE \/ MainStart
            \/ Handler
            \/ MainEnd
            \/ SockRead
            \/ SockInter
            \/ SockIntra
            \/ SockWake
            \/ UpdTest
            \/ UpdWait
            \/ UpdTake
            \/ UpdProgress
            \/ LiveTest
            \/ LiveWait
            \/ LiveAnswer
            \/ Training
  BY <1>10 DEF MainStart, Handler, MainEnd, SockRead, SockInter, SockIntra, SockWake, UpdTest, UpdWait, UpdTake, UpdProgress, LiveTest, LiveWait, LiveAnswer, Training, SchedulerOK, scheduler
<1>11. CASE UNCHANGED vars
  BY <1>11 DEF vars, SchedulerOK, scheduler
<1> QED
  BY <1>1, <1>2, <1>3, <1>4, <1>5, <1>6, <1>7, <1>8, <1>9, <1>10, <1>11
     DEF Next, SchedulerThread, SocketThread, UpdateThread, LiveThread, MainThread

\* The threads of the container keep their types.
LEMMA ThreadsStep == TypeOK /\ [Next]_vars => ThreadsOK'
<1> SUFFICES ASSUME TypeOK, [Next]_vars PROVE ThreadsOK'
  OBVIOUS
<1> USE DEF TypeOK
<1>1. CASE MainStart
  <2>1. main' \in Main /\ train' \in {"off", "running", "hung", "ended"}
    BY <1>1 DEF MainStart, ThreadsOK, Main
  <2>2. sock' \in Socket
    BY <1>1 DEF MainStart, ThreadsOK, Socket
  <2>3. live' \in Live /\ (live'.pc = "send" => live'.msg # "")
    BY <1>1 DEF MainStart, ThreadsOK, Live
  <2>4. upd' \in Update
    BY <1>1, ProtocolAssumption DEF MainStart, ThreadsOK, FlagsOK, Parallelism, Update
  <2> QED
    BY <1>1, <2>1, <2>2, <2>3, <2>4 DEF ThreadsOK
<1>2. CASE Handler
  <2>1. \/ main' = [pc |-> "exit2", handled |-> TRUE]
        \/ main' = [main EXCEPT !.pc = "finalize"]
        \/ main' = [main EXCEPT !.pc = "join"]
    BY <1>2 DEF Handler
  <2>2. main' \in Main
    <3>1. CASE main' = [pc |-> "exit2", handled |-> TRUE]
      BY <3>1 DEF Main
    <3>2. CASE main' = [main EXCEPT !.pc = "finalize"]
      BY <3>2 DEF ThreadsOK, Main
    <3>3. CASE main' = [main EXCEPT !.pc = "join"]
      BY <3>3 DEF ThreadsOK, Main
    <3> QED
      BY <2>1, <3>1, <3>2, <3>3
  <2> QED
    BY <1>2, <2>2 DEF Handler, ThreadsOK
<1>3. CASE MainEnd
  BY <1>3 DEF MainEnd, ThreadsOK, Main
<1>4. CASE SockRead
  <2>1. Head(to_client) \in ToClient
    BY <1>4, HeadAndTail DEF SockRead, StreamsOK
  <2>2. sock' \in Socket
    BY <1>4, <2>1 DEF SockRead, ThreadsOK, ToClient, Socket
  <2> QED
    BY <1>4, <2>2 DEF SockRead, ThreadsOK
<1>5. CASE SockInter
  BY <1>5 DEF SockInter, ThreadsOK, Socket
<1>6. CASE SockIntra
  BY <1>6 DEF SockIntra, ThreadsOK, Socket
<1>7. CASE SockWake
  <2>1. sock' \in Socket
    BY <1>7 DEF SockWake, ThreadsOK, Socket
  <2>2. live' \in Live /\ (live'.pc = "send" => live'.msg # "")
    BY <1>7 DEF SockWake, NotifyLive, ThreadsOK, Live
  <2> QED
    BY <1>7, <2>1, <2>2 DEF SockWake, ThreadsOK
<1>8. CASE UpdTest
  <2>1. upd' \in Update
    BY <1>8 DEF UpdTest, ThreadsOK, Update
  <2>2. live' \in Live /\ (live'.pc = "send" => live'.msg # "")
    BY <1>8 DEF UpdTest, NotifyLive, ThreadsOK, Live
  <2> QED
    BY <1>8, <2>1, <2>2 DEF UpdTest, ThreadsOK
<1>9. CASE UpdWait
  BY <1>9 DEF UpdWait, ThreadsOK, Update
<1>10. CASE UpdTake
  BY <1>10 DEF UpdTake, ThreadsOK, FlagsOK, Parallelism, Update
<1>11. CASE UpdProgress
  <2>1. NextThreads(upd.old, upd.new) \in Nat
    BY NextThreadsType DEF ThreadsOK, Update
  <2> DEFINE n == NextThreads(upd.old, upd.new)
  <2>2. \/ upd' = [upd EXCEPT !.old = n]
        \/ upd' = [pc |-> "intra", kind |-> "none", old |-> 0, new |-> 0]
        \/ upd' = [pc |-> "test", kind |-> "none", old |-> 0, new |-> 0]
    BY <1>11 DEF UpdProgress
  <2> HIDE DEF n
  <2>3. n \in Nat
    BY <2>1 DEF n
  <2>4. upd' \in Update
    <3>1. CASE upd' = [upd EXCEPT !.old = n]
      BY <2>3, <3>1 DEF ThreadsOK, Update
    <3>2. CASE upd' = [pc |-> "intra", kind |-> "none", old |-> 0, new |-> 0]
      BY <3>2 DEF Update
    <3>3. CASE upd' = [pc |-> "test", kind |-> "none", old |-> 0, new |-> 0]
      BY <3>3 DEF Update
    <3> QED
      BY <2>2, <3>1, <3>2, <3>3
  <2> QED
    BY <1>11, <2>4 DEF UpdProgress, ThreadsOK
<1>12. CASE LiveTest
  BY <1>12 DEF LiveTest, ThreadsOK, Live
<1>13. CASE LiveWait
  BY <1>13 DEF LiveWait, ThreadsOK, threads
<1>14. CASE LiveAnswer
  <2>1. \/ live' = [pc |-> "send", msg |-> "live"]
        \/ live' = [pc |-> "send", msg |-> "error"]
        \/ live' = [pc |-> "test", msg |-> ""]
    BY <1>14 DEF LiveAnswer
  <2>2. live' \in Live /\ (live'.pc = "send" => live'.msg # "")
    <3>1. CASE live' = [pc |-> "send", msg |-> "live"]
      BY <3>1 DEF Live, Answer
    <3>2. CASE live' = [pc |-> "send", msg |-> "error"]
      BY <3>2 DEF Live, Answer
    <3>3. CASE live' = [pc |-> "test", msg |-> ""]
      BY <3>3 DEF Live, Answer
    <3> QED
      BY <2>1, <3>1, <3>2, <3>3
  <2> QED
    BY <1>14, <2>2 DEF LiveAnswer, ThreadsOK
<1>15. CASE Training
  BY <1>15 DEF Training, ThreadsOK, threads
<1>16. CASE \/ SendFirst
            \/ SendProbe
            \/ SendAck
            \/ Read
            \/ Remove
            \/ EndOfStream
            \/ Timeout
            \/ SendUpdate
            \/ Crash
  BY <1>16 DEF SendFirst, SendProbe, SendAck, Read, Remove, EndOfStream, Timeout, SendUpdate, Crash, ThreadsOK, threads
<1>17. CASE UNCHANGED vars
  BY <1>17 DEF vars, ThreadsOK, threads
<1> QED
  BY <1>1, <1>2, <1>3, <1>4, <1>5, <1>6, <1>7, <1>8, <1>9, <1>10, <1>11, <1>12, <1>13, <1>14, <1>15, <1>16, <1>17
     DEF Next, SchedulerThread, SocketThread, UpdateThread, LiveThread, MainThread

\* The flags and the file of the container keep their types.
LEMMA FlagsStep == TypeOK /\ [Next]_vars => FlagsOK'
<1> SUFFICES ASSUME TypeOK, [Next]_vars PROVE FlagsOK'
  OBVIOUS
<1> USE DEF TypeOK
<1>1. CASE MainStart
  BY <1>1, ProtocolAssumption DEF MainStart, FlagsOK, flags, Parallelism
<1>2. CASE Handler
  BY <1>2 DEF Handler, FlagsOK, updates
<1>3. CASE SockInter
  <2>1. sock.msg.inter \in Int
    BY MessagesType DEF ThreadsOK, Socket
  <2> QED
    BY <1>3, <2>1 DEF SockInter, FlagsOK, flags
<1>4. CASE SockIntra
  <2>1. sock.msg.intra \in Int
    BY MessagesType DEF ThreadsOK, Socket
  <2> QED
    BY <1>4, <2>1 DEF SockIntra, FlagsOK, flags
<1>5. CASE SockWake
  <2>1. cv_update' \in Nat
    BY <1>5 DEF SockWake, NotifyLive, Release, FlagsOK
  <2>2. waiting' \in BOOLEAN
    BY <1>5 DEF SockWake, NotifyLive, Release, FlagsOK
  <2> QED
    BY <1>5, <2>1, <2>2 DEF SockWake, FlagsOK, updates
<1>6. CASE UpdTest
  BY <1>6 DEF UpdTest, NotifyLive, FlagsOK, updates
<1>7. CASE UpdWait
  BY <1>7 DEF UpdWait, FlagsOK, updates
<1>8. CASE UpdProgress
  <2>1. NextThreads(upd.old, upd.new) \in Nat
    BY NextThreadsType DEF ThreadsOK, Update
  <2> DEFINE n == NextThreads(upd.old, upd.new)
  <2>2. file' = file \/ file' = Written(n)
    BY <1>8 DEF UpdProgress
  <2> HIDE DEF n
  <2>3. file' \in Parallelism
    BY <2>1, <2>2 DEF n, Written, FlagsOK, Parallelism
  <2>4. inter_up' \in Nat /\ intra_up' \in Nat
    BY <1>8 DEF UpdProgress, FlagsOK
  <2> QED
    BY <1>8, <2>3, <2>4 DEF UpdProgress, FlagsOK, flags
<1>9. CASE LiveWait
  BY <1>9 DEF LiveWait, FlagsOK, updates
<1>10. CASE \/ SendFirst
            \/ SendProbe
            \/ SendAck
            \/ Read
            \/ Remove
            \/ EndOfStream
            \/ Timeout
            \/ SendUpdate
            \/ MainEnd
            \/ SockRead
            \/ UpdTake
            \/ LiveTest
            \/ LiveAnswer
            \/ Training
            \/ Crash
  BY <1>10 DEF SendFirst, SendProbe, SendAck, Read, Remove, EndOfStream, Timeout, SendUpdate, MainEnd, SockRead, UpdTake, LiveTest, LiveAnswer, Training, Crash, FlagsOK, flags, updates
<1>11. CASE UNCHANGED vars
  BY <1>11 DEF vars, FlagsOK, flags, updates
<1> QED
  BY <1>1, <1>2, <1>3, <1>4, <1>5, <1>6, <1>7, <1>8, <1>9, <1>10, <1>11
     DEF Next, SchedulerThread, SocketThread, UpdateThread, LiveThread, MainThread

\* The semaphore counts what the update thread has still to look at.
LEMMA SemaphoreStep == IInv /\ [Next]_vars => SemaphoreCounts'
<1> SUFFICES ASSUME IInv, [Next]_vars PROVE SemaphoreCounts'
  OBVIOUS
<1> USE DEF IInv, TypeOK
<1>1. CASE MainStart
  <2>1. CASE main.pc = "first"
    BY <1>1, <2>1 DEF MainStart, SemaphoreCounts, Passed, Announced, flags
  <2>2. CASE main.pc \in {"init1", "init2"}
    BY <1>1, <2>2 DEF MainStart, SemaphoreCounts, Passed, Announced, flags
  <2>3. CASE main.pc = "start"
    <3>1. /\ main'.pc = "join" /\ sock'.pc = "len" /\ upd'.kind = "start"
          /\ upd'.pc = IF world.malleable THEN "progress" ELSE "test"
      BY <1>1, <2>3 DEF MainStart, SemaphoreCounts, ThreadsOK, Main, Socket, Update
    <3>2. world.malleable /\ cv_update = 0 => inter_up = 0 /\ intra_up = 0
      BY <2>3 DEF SemaphoreCounts, Passed, Announced
    <3> QED
      BY <1>1, <2>3, <3>1, <3>2 DEF MainStart, SemaphoreCounts, Passed, flags
  <2> QED
    BY <1>1, <2>1, <2>2, <2>3 DEF MainStart
<1>2. CASE Handler
  <2>1. main'.pc \in {"exit2", "finalize", "join"}
    <3>1. main \in Main
      BY DEF ThreadsOK
    <3>2. \/ main' = [pc |-> "exit2", handled |-> TRUE]
          \/ main' = [main EXCEPT !.pc = "finalize"]
          \/ main' = [main EXCEPT !.pc = "join"]
      BY <1>2 DEF Handler
    <3> QED
      BY <3>1, <3>2 DEF Main
  <2> QED
    BY <1>2, <2>1 DEF Handler, updates, SemaphoreCounts, Passed, Announced
<1>3. CASE MainEnd
  <2>1. main'.pc = "closed"
    BY <1>3 DEF MainEnd, ThreadsOK, Main
  <2> QED
    BY <1>3, <2>1 DEF MainEnd, flags, updates, SemaphoreCounts, Passed, Announced
<1>4. CASE SockRead
  <2>1. sock'.pc \in {"dead", "data", "inter"} /\ Announced
    BY <1>4 DEF SockRead, Announced
  <2> QED
    BY <1>4, <2>1 DEF SockRead, flags, updates, SemaphoreCounts, Passed, Announced
<1>5. CASE SockInter
  <2>1. sock'.pc = "intra" /\ sock'.msg = sock.msg /\ Announced
    BY <1>5 DEF SockInter, ThreadsOK, Socket, Announced
  <2>2. sock.msg = Probe => UNCHANGED inter_up
    BY <1>5, MessagesType DEF SockInter
  <2> QED
    BY <1>5, <2>1, <2>2 DEF SockInter, flags, SemaphoreCounts, Passed, Announced
<1>6. CASE SockIntra
  <2>1. sock'.pc = "wake" /\ sock'.msg = sock.msg
    BY <1>6 DEF SockIntra, ThreadsOK, Socket
  <2>2. sock.msg = Probe => UNCHANGED intra_up
    BY <1>6, MessagesType DEF SockIntra
  <2> QED
    BY <1>6, <2>1, <2>2 DEF SockIntra, flags, SemaphoreCounts, Passed, Announced
<1>7. CASE SockWake
  <2>1. CASE sock.msg = Probe
    BY <1>7, <2>1 DEF SockWake, updates, SemaphoreCounts, Passed, Announced
  <2>2. CASE sock.msg # Probe
    <3>1. cv_update' # 0
      BY <1>7, <2>2 DEF SockWake, Release, FlagsOK
    <3> QED
      BY <1>7, <3>1 DEF SockWake, SemaphoreCounts
  <2> QED
    BY <2>1, <2>2
<1>8. CASE UpdTest
  <2>1. upd'.pc \in {"done", "wait"} /\ Passed("inter") /\ Passed("intra")
    BY <1>8 DEF UpdTest, ThreadsOK, Update, Passed
  <2>2. main.pc \notin {"first", "init1", "init2", "start"}
    BY <1>8 DEF UpdTest, SemaphoreCounts
  <2> QED
    BY <1>8, <2>1, <2>2 DEF UpdTest, updates, SemaphoreCounts, Passed, Announced
<1>9. CASE UpdWait
  <2>1. upd'.pc = IF world.malleable THEN "inter" ELSE "test"
    BY <1>9 DEF UpdWait, ThreadsOK, Update
  <2>2. main.pc \notin {"first", "init1", "init2", "start"}
    BY <1>9 DEF UpdWait, SemaphoreCounts
  <2> QED
    BY <1>9, <2>1, <2>2 DEF UpdWait, updates, SemaphoreCounts, Passed
<1>10. CASE UpdTake
  <2>1. main.pc \notin {"first", "init1", "init2", "start"}
    BY <1>10 DEF UpdTake, SemaphoreCounts
  <2>2. CASE upd.pc = "inter"
    <3>1. CASE inter_up = 0
      <4>1. upd'.pc = "intra"
        BY <1>10, <2>2, <3>1 DEF UpdTake, ThreadsOK, Update
      <4> QED
        BY <1>10, <2>1, <3>1, <4>1 DEF UpdTake, flags, updates, SemaphoreCounts, Passed
    <3>2. CASE inter_up # 0
      <4>1. upd'.pc = "progress" /\ upd'.kind = "inter"
        BY <1>10, <2>2, <3>2 DEF UpdTake
      <4> QED
        BY <1>10, <2>1, <4>1 DEF UpdTake, flags, updates, SemaphoreCounts, Passed
    <3> QED
      BY <3>1, <3>2
  <2>3. CASE upd.pc = "intra"
    <3>1. Passed("inter")
      BY <2>3 DEF Passed
    <3>2. CASE intra_up = 0
      <4>1. upd'.pc = "test"
        BY <1>10, <2>3, <3>2 DEF UpdTake, ThreadsOK, Update
      <4> QED
        BY <1>10, <2>1, <3>1, <3>2, <4>1 DEF UpdTake, flags, updates, SemaphoreCounts, Announced
    <3>3. CASE intra_up # 0
      <4>1. upd'.pc = "progress" /\ upd'.kind = "intra"
        BY <1>10, <2>3, <3>3 DEF UpdTake
      <4>2. ~ Passed("intra")'
        BY <4>1 DEF Passed
      <4> QED
        BY <1>10, <2>1, <3>1, <4>1, <4>2 DEF UpdTake, flags, updates, SemaphoreCounts, Announced
    <3> QED
      BY <3>2, <3>3
  <2> QED
    BY <1>10, <2>2, <2>3 DEF UpdTake
<1>11. CASE UpdProgress
  <2>1. main.pc \notin {"first", "init1", "init2", "start"} /\ upd.kind \in {"start", "inter", "intra"}
    BY <1>11 DEF UpdProgress, SemaphoreCounts, ThreadsOK, Update
  <2>2. CASE upd.old # upd.new
    <3>1. upd'.pc = "progress" /\ upd'.kind = upd.kind
      BY <1>11, <2>2 DEF UpdProgress, ThreadsOK, Update
    <3> QED
      BY <1>11, <2>1, <2>2, <3>1 DEF UpdProgress, flags, SemaphoreCounts, Passed, Announced
  <2>3. CASE upd.old = upd.new /\ upd.kind = "inter"
    <3>1. upd'.pc = "intra" /\ inter_up' = 0
      BY <1>11, <2>3 DEF UpdProgress
    <3> QED
      BY <1>11, <2>1, <3>1 DEF UpdProgress, SemaphoreCounts, Passed
  <2>4. CASE upd.old = upd.new /\ upd.kind = "intra"
    <3>1. upd'.pc = "test" /\ inter_up' = inter_up /\ intra_up' = 0 /\ Passed("inter")
      BY <1>11, <2>4 DEF UpdProgress, Passed
    <3> QED
      BY <1>11, <2>1, <3>1 DEF UpdProgress, flags, SemaphoreCounts, Announced
  <2>5. CASE upd.old = upd.new /\ upd.kind = "start"
    <3>1. upd'.pc = "test" /\ UNCHANGED <<inter_up, intra_up>> /\ Passed("inter") /\ Passed("intra")
      BY <1>11, <2>5 DEF UpdProgress, Passed
    <3> QED
      BY <1>11, <2>1, <3>1 DEF UpdProgress, flags, SemaphoreCounts, Announced
  <2> QED
    BY <2>1, <2>2, <2>3, <2>4, <2>5
<1>12. CASE \/ SendFirst
            \/ SendProbe
            \/ SendAck
            \/ Read
            \/ Remove
            \/ EndOfStream
            \/ Timeout
            \/ SendUpdate
            \/ LiveTest
            \/ LiveWait
            \/ LiveAnswer
            \/ Training
            \/ Crash
  BY <1>12 DEF SendFirst, SendProbe, SendAck, Read, Remove, EndOfStream, Timeout, SendUpdate, LiveTest, LiveWait, LiveAnswer, Training, Crash, SemaphoreCounts, Passed, Announced, threads, flags, updates
<1>13. CASE UNCHANGED vars
  BY <1>13 DEF vars, SemaphoreCounts, Passed, Announced, threads, flags, updates
<1> QED
  BY <1>1, <1>2, <1>3, <1>4, <1>5, <1>6, <1>7, <1>8, <1>9, <1>10, <1>11, <1>12, <1>13
     DEF Next, SchedulerThread, SocketThread, UpdateThread, LiveThread, MainThread

\* The acknowledgement comes after the removal.
LEMMA RemovedStep == IInv /\ [Next]_vars => RemovedFirst'
<1> SUFFICES ASSUME IInv, [Next]_vars PROVE RemovedFirst'
  OBVIOUS
<1> USE DEF IInv, TypeOK
<1>1. CASE SendFirst
  <2>1. sched'.pc \in {"first2", "len"}
    BY <1>1 DEF SendFirst, SchedSend, SchedulerOK, ClientThread
  <2>2. PICK part : to_client' = Part(to_client, part, Start)
    BY <1>1 DEF SendFirst, SchedSend
  <2>3. \A i \in 1..Len(to_client') : to_client'[i].msg = Ack =>
           i \in 1..Len(to_client) /\ to_client'[i] = to_client[i]
    BY <2>2, MessagesType, NewPart DEF StreamsOK
  <2> QED
    BY <1>1, <2>1, <2>3 DEF SendFirst, threads, RemovedFirst
<1>2. CASE SendProbe
  <2>1. sched'.pc \in {"probe2", "len"}
    BY <1>2 DEF SendProbe, SchedSend, SchedulerOK, ClientThread
  <2>2. PICK part : to_client' = Part(to_client, part, Probe)
    BY <1>2 DEF SendProbe, SchedSend
  <2>3. \A i \in 1..Len(to_client') : to_client'[i].msg = Ack =>
           i \in 1..Len(to_client) /\ to_client'[i] = to_client[i]
    BY <2>2, MessagesType, NewPart DEF StreamsOK
  <2> QED
    BY <1>2, <2>1, <2>3 DEF SendProbe, threads, RemovedFirst
<1>3. CASE SendAck
  <2>1. sched.pc \in {"ack1", "ack2"} /\ UNCHANGED listed /\ ~ listed
    BY <1>3 DEF SendAck, SchedSend, RemovedFirst
  <2> QED
    BY <1>3, <2>1 DEF SendAck, threads, RemovedFirst
<1>4. CASE Read
  <2> DEFINE msg == Head(to_scheduler).msg
  <2>1. sched'.pc \notin {"ack1", "ack2", "done"}
    <3>1. CASE Received(msg)
      <4> HIDE DEF msg
      <4>1. CASE sched' = [sched EXCEPT !.pc = "failed", !.probing = FALSE]
        BY <4>1 DEF SchedulerOK, ClientThread
      <4>2. CASE sched'.pc \in {"remove", "len"}
        BY <4>2
      <4> QED
        BY <3>1, <4>1, <4>2 DEF Received, Fail
    <3>2. CASE ~ Received(msg)
      BY <1>4, <3>2 DEF Read, SchedulerOK, ClientThread
    <3> QED
      BY <3>1, <3>2
  <2> QED
    BY <1>4, <2>1 DEF Read, threads, RemovedFirst
<1>5. CASE Remove
  BY <1>5 DEF Remove, streams, threads, RemovedFirst
<1>6. CASE EndOfStream
  <2>1. sched'.pc \in {"spin", "dead"}
    BY <1>6 DEF EndOfStream, SchedulerOK, ClientThread
  <2> QED
    BY <1>6, <2>1 DEF EndOfStream, streams, threads, RemovedFirst
<1>7. CASE Timeout
  <2>1. sched'.pc \in {"spin", "failed", "probe1"}
    BY <1>7 DEF Timeout, NoAnswer, Fail, SchedulerOK, ClientThread
  <2> QED
    BY <1>7, <2>1 DEF Timeout, streams, threads, RemovedFirst
<1>8. CASE SendUpdate
  <2>1. listed /\ UNCHANGED listed
    BY <1>8 DEF SendUpdate, RemovedFirst
  <2>2. att'.msg # Ack
    BY <1>8, MessagesType DEF SendUpdate, RemovedFirst, SchedulerOK, AttentionThread
  <2>3. \A i \in 1..Len(to_client') : to_client'[i].msg # Ack
    <3>1. PICK part, msg : to_client' = Part(to_client, part, msg) /\ msg # Ack
      BY <1>8, MessagesType DEF SendUpdate, RemovedFirst
    <3> QED
      BY <2>1, <3>1, NewPart DEF RemovedFirst, StreamsOK
  <2> QED
    BY <1>8, <2>1, <2>2, <2>3 DEF SendUpdate, threads, RemovedFirst
<1>9. CASE MainStart
  <2>1. sock'.msg = sock.msg /\ sock'.pc # "done"
    BY <1>9 DEF MainStart, SemaphoreCounts, ThreadsOK, Socket
  <2>2. \A i \in 1..Len(to_client') : \E j \in 1..Len(to_client) : to_client'[i] = to_client[j]
    <3>1. CASE main.pc = "first"
      <4>1. Len(to_client) > 1 /\ to_client' = Tail(Tail(to_client))
        BY <1>9, <3>1 DEF MainStart
      <4> SUFFICES ASSUME NEW i \in 1..Len(to_client')
                   PROVE  i + 2 \in 1..Len(to_client) /\ to_client'[i] = to_client[i + 2]
        OBVIOUS
      <4> QED
        BY <4>1, TwoFewerElements DEF StreamsOK
    <3>2. CASE main.pc # "first"
      BY <1>9, <3>2 DEF MainStart, streams
    <3> QED
      BY <3>1, <3>2
  <2> QED
    BY <1>9, <2>1, <2>2 DEF MainStart, scheduler, RemovedFirst
<1>10. CASE SockRead
  <2>1. sock'.pc # "done" /\ sock'.msg = to_client[1].msg /\ 1 \in 1..Len(to_client)
    BY <1>10, TailElements DEF SockRead, StreamsOK
  <2>2. \A i \in 1..Len(to_client') : \E j \in 1..Len(to_client) : to_client'[i] = to_client[j]
    <3> SUFFICES ASSUME NEW i \in 1..Len(to_client') PROVE i + 1 \in 1..Len(to_client) /\ to_client'[i] = to_client[i + 1]
      OBVIOUS
    <3> QED
      BY <1>10, TailElements DEF SockRead, StreamsOK
  <2> QED
    BY <1>10, <2>1, <2>2 DEF SockRead, scheduler, RemovedFirst
<1>11. CASE SockInter
  <2>1. sock'.pc = "intra" /\ sock'.msg = sock.msg
    BY <1>11 DEF SockInter, ThreadsOK, Socket
  <2> QED
    BY <1>11, <2>1 DEF SockInter, streams, scheduler, RemovedFirst
<1>12. CASE SockIntra
  <2>1. sock'.pc = "wake" /\ sock'.msg = sock.msg
    BY <1>12 DEF SockIntra, ThreadsOK, Socket
  <2> QED
    BY <1>12, <2>1 DEF SockIntra, streams, scheduler, RemovedFirst
<1>13. CASE SockWake
  <2>1. sock'.msg = sock.msg /\ (sock'.pc = "done" => sock.msg = Ack)
    BY <1>13 DEF SockWake, ThreadsOK, Socket
  <2> QED
    BY <1>13, <2>1 DEF SockWake, streams, scheduler, RemovedFirst
<1>14. CASE \/ Handler
            \/ MainEnd
            \/ UpdTest
            \/ UpdWait
            \/ UpdTake
            \/ UpdProgress
            \/ LiveTest
            \/ LiveWait
            \/ LiveAnswer
            \/ Training
            \/ Crash
  <2>1. UNCHANGED <<sched, listed, att, to_client, sock>>
    BY <1>14 DEF Handler, MainEnd, UpdTest, UpdWait, UpdTake, UpdProgress, LiveTest, LiveWait, LiveAnswer, Training, Crash, streams, scheduler, threads
  <2> QED
    BY <2>1 DEF RemovedFirst
<1>15. CASE UNCHANGED vars
  BY <1>15 DEF vars, RemovedFirst, streams, scheduler, threads
<1> QED
  BY <1>1, <1>2, <1>3, <1>4, <1>5, <1>6, <1>7, <1>8, <1>9, <1>10, <1>11, <1>12, <1>13, <1>14, <1>15
     DEF Next, SchedulerThread, SocketThread, UpdateThread, LiveThread, MainThread

\* The two parts of the acknowledgement follow each other.
LEMMA AckStep == IInv /\ [Next]_vars => AckParts'
<1> SUFFICES ASSUME IInv, [Next]_vars PROVE AckParts'
  OBVIOUS
<1> USE DEF IInv, TypeOK
<1>1. CASE SendFirst
  <2>1. PICK part : to_client' = Part(to_client, part, Start)
    BY <1>1 DEF SendFirst, SchedSend
  <2>2. \A i \in 1..Len(to_client) : to_client[i] = [part |-> "len", msg |-> Ack] => i # Len(to_client)
    BY <1>1 DEF SendFirst, SchedSend, AckParts
  <2>3. \A i \in 1..Len(to_client') : to_client'[i].msg = Ack =>
           i \in 1..Len(to_client) /\ to_client'[i] = to_client[i]
    BY <2>1, MessagesType, NewPart DEF StreamsOK
  <2>4. Len(to_client') = Len(to_client) + 1 /\ Len(to_client) \in Nat
    <3>1. to_client \in Seq(ToClient) /\ Len(to_client) \in Nat
      BY DEF StreamsOK
    <3> QED
      BY ONLY <2>1, <3>1, PartElements
  <2>5. \A i \in 1..Len(to_client) : i \in 1..Len(to_client') /\ to_client'[i] = to_client[i]
    <3>1. to_client \in Seq(ToClient)
      BY DEF StreamsOK
    <3>2. \A i \in 1..Len(to_client) : to_client'[i] = to_client[i]
      BY ONLY <2>1, <3>1 DEF Part
    <3> QED
      BY <2>4, <3>2
  <2>6. ASSUME NEW i \in 1..Len(to_client'), to_client'[i] = [part |-> "len", msg |-> Ack]
        PROVE  i # Len(to_client') /\ to_client'[i + 1] = [part |-> "data", msg |-> Ack]
    <3>1. i \in 1..Len(to_client) /\ to_client[i] = [part |-> "len", msg |-> Ack]
      BY <2>3, <2>6
    <3>2. i # Len(to_client) /\ i + 1 \in 1..Len(to_client)
      BY <2>2, <2>4, <3>1
    <3>3. to_client[i + 1] = [part |-> "data", msg |-> Ack]
      BY <3>1, <3>2 DEF AckParts
    <3> QED
      BY <2>4, <2>5, <3>1, <3>2, <3>3
  <2> QED
    BY <2>6 DEF AckParts
<1>2. CASE SendProbe
  <2>1. PICK part : to_client' = Part(to_client, part, Probe)
    BY <1>2 DEF SendProbe, SchedSend
  <2>2. \A i \in 1..Len(to_client) : to_client[i] = [part |-> "len", msg |-> Ack] => i # Len(to_client)
    BY <1>2 DEF SendProbe, SchedSend, AckParts
  <2>3. \A i \in 1..Len(to_client') : to_client'[i].msg = Ack =>
           i \in 1..Len(to_client) /\ to_client'[i] = to_client[i]
    BY <2>1, MessagesType, NewPart DEF StreamsOK
  <2>4. Len(to_client') = Len(to_client) + 1 /\ Len(to_client) \in Nat
    <3>1. to_client \in Seq(ToClient) /\ Len(to_client) \in Nat
      BY DEF StreamsOK
    <3> QED
      BY ONLY <2>1, <3>1, PartElements
  <2>5. \A i \in 1..Len(to_client) : i \in 1..Len(to_client') /\ to_client'[i] = to_client[i]
    <3>1. to_client \in Seq(ToClient)
      BY DEF StreamsOK
    <3>2. \A i \in 1..Len(to_client) : to_client'[i] = to_client[i]
      BY ONLY <2>1, <3>1 DEF Part
    <3> QED
      BY <2>4, <3>2
  <2>6. ASSUME NEW i \in 1..Len(to_client'), to_client'[i] = [part |-> "len", msg |-> Ack]
        PROVE  i # Len(to_client') /\ to_client'[i + 1] = [part |-> "data", msg |-> Ack]
    <3>1. i \in 1..Len(to_client) /\ to_client[i] = [part |-> "len", msg |-> Ack]
      BY <2>3, <2>6
    <3>2. i # Len(to_client) /\ i + 1 \in 1..Len(to_client)
      BY <2>2, <2>4, <3>1
    <3>3. to_client[i + 1] = [part |-> "data", msg |-> Ack]
      BY <3>1, <3>2 DEF AckParts
    <3> QED
      BY <2>4, <2>5, <3>1, <3>2, <3>3
  <2> QED
    BY <2>6 DEF AckParts
<1>3. CASE SendAck
  <2>1. CASE sched.pc = "ack1"
    <3>1. to_client' = Part(to_client, "len", Ack) /\ sched'.pc = "ack2"
      BY <1>3, <2>1 DEF SendAck, SchedSend, SchedulerOK, ClientThread
    <3>2. \A i \in 1..Len(to_client) : to_client[i] = [part |-> "len", msg |-> Ack] => i # Len(to_client)
      BY <2>1 DEF AckParts
    <3> QED
      BY <3>1, <3>2, PartElements DEF AckParts, StreamsOK
  <2>2. CASE sched.pc = "ack2"
    <3>1. to_client' = Part(to_client, "data", Ack)
      BY <1>3, <2>2 DEF SendAck, SchedSend
    <3> QED
      BY <3>1, PartElements DEF AckParts, StreamsOK
  <2> QED
    BY <1>3, <2>1, <2>2 DEF SendAck, SchedSend
<1>4. CASE Read
  <2>1. sched.pc # "ack2" /\ UNCHANGED to_client
    BY <1>4 DEF Read, streams
  <2> QED
    BY <2>1 DEF AckParts
<1>5. CASE Remove
  <2>1. sched.pc # "ack2" /\ UNCHANGED to_client
    BY <1>5 DEF Remove, streams
  <2> QED
    BY <2>1 DEF AckParts
<1>6. CASE EndOfStream
  <2>1. sched.pc # "ack2" /\ UNCHANGED to_client
    BY <1>6 DEF EndOfStream, streams
  <2> QED
    BY <2>1 DEF AckParts
<1>7. CASE Timeout
  <2>1. sched.pc # "ack2" /\ UNCHANGED to_client
    BY <1>7 DEF Timeout, streams
  <2> QED
    BY <2>1 DEF AckParts
<1>8. CASE SendUpdate
  <2>1. listed /\ UNCHANGED listed
    BY <1>8 DEF SendUpdate, RemovedFirst
  <2>2. \A i \in 1..Len(to_client') : to_client'[i].msg # Ack
    <3>1. PICK part, msg : to_client' = Part(to_client, part, msg) /\ msg # Ack
      BY <1>8, MessagesType DEF SendUpdate, RemovedFirst
    <3> QED
      BY <2>1, <3>1, NewPart DEF RemovedFirst, StreamsOK
  <2> QED
    BY <2>2 DEF AckParts
<1>9. CASE MainStart
  <2>1. UNCHANGED sched
    BY <1>9 DEF MainStart, scheduler
  <2>2. CASE main.pc = "first"
    <3>1. Len(to_client) > 1 /\ to_client' = Tail(Tail(to_client))
      BY <1>9, <2>2 DEF MainStart
    <3> QED
      BY <2>1, <3>1, TwoFewerElements DEF AckParts, StreamsOK
  <2>3. CASE main.pc # "first"
    <3>1. UNCHANGED to_client
      BY <1>9, <2>3 DEF MainStart, streams
    <3> QED
      BY <2>1, <3>1 DEF AckParts
  <2> QED
    BY <2>2, <2>3
<1>10. CASE SockRead
  <2>1. UNCHANGED sched /\ to_client # <<>> /\ to_client' = Tail(to_client)
    BY <1>10 DEF SockRead, scheduler
  <2> QED
    BY <2>1, TailElements DEF AckParts, StreamsOK
<1>11. CASE \/ Handler
            \/ MainEnd
            \/ SockInter
            \/ SockIntra
            \/ SockWake
            \/ UpdTest
            \/ UpdWait
            \/ UpdTake
            \/ UpdProgress
            \/ LiveTest
            \/ LiveWait
            \/ LiveAnswer
            \/ Training
            \/ Crash
  BY <1>11 DEF Handler, MainEnd, SockInter, SockIntra, SockWake, UpdTest, UpdWait, UpdTake, UpdProgress, LiveTest, LiveWait, LiveAnswer, Training, Crash, AckParts, streams, scheduler
<1>12. CASE UNCHANGED vars
  BY <1>12 DEF vars, AckParts, streams, scheduler
<1> QED
  BY <1>1, <1>2, <1>3, <1>4, <1>5, <1>6, <1>7, <1>8, <1>9, <1>10, <1>11, <1>12
     DEF Next, SchedulerThread, SocketThread, UpdateThread, LiveThread, MainThread

\* Nothing has been sent and no thread of the container has started.
LEMMA InitIInv == Init => IInv
<1> SUFFICES ASSUME Init PROVE IInv
  OBVIOUS
<1> USE DEF Init
<1>1. to_client = <<>> /\ Len(to_client) = 0 /\ 1..Len(to_client) = {}
  <2>1. to_client = <<>>
    OBVIOUS
  <2> QED
    BY ONLY <2>1
<1>2. StreamsOK
  <2>1. to_client = <<>> /\ to_scheduler = <<>>
    OBVIOUS
  <2> QED
    BY ONLY <2>1 DEF StreamsOK
<1>3. SchedulerOK
  <2>1. world \in Worlds /\ last = First /\ probes = 0 /\ att = [pc |-> "idle", msg |-> Start, sent |-> 0]
    OBVIOUS
  <2>2. last \in Parallelism /\ probes \in 0..MaxProbes /\ world.updates \in Nat
    BY ONLY <2>1, ProtocolAssumption DEF Parallelism
  <2>3. att \in AttentionThread /\ att.sent <= world.updates
    BY ONLY <2>1, <2>2, MessagesType DEF AttentionThread
  <2> QED
    BY <2>2, <2>3 DEF SchedulerOK, ClientThread
<1>4. ThreadsOK
  BY MessagesType DEF ThreadsOK, Main, Socket, Update, Live
<1>5. FlagsOK
  BY DEF FlagsOK, Parallelism
<1>6. SemaphoreCounts
  BY DEF SemaphoreCounts
<1>7. RemovedFirst
  BY <1>1, MessagesType DEF RemovedFirst
<1>8. AckParts
  BY <1>1 DEF AckParts
<1> QED
  BY <1>2, <1>3, <1>4, <1>5, <1>6, <1>7, <1>8 DEF IInv, TypeOK

\* Every step of either side keeps the invariant.
LEMMA StepIInv == IInv /\ [Next]_vars => IInv'
BY StreamsStep, SchedulerStep, ThreadsStep, FlagsStep, SemaphoreStep, RemovedStep, AckStep
   DEF IInv, TypeOK

\* What the invariant says of the conversation.
LEMMA IInvImplies == IInv => NoUpdateForgotten /\ EndsAfterRemoval /\ AckInOnePiece
<1> SUFFICES ASSUME IInv PROVE NoUpdateForgotten /\ EndsAfterRemoval /\ AckInOnePiece
  OBVIOUS
<1>1. NoUpdateForgotten
  <2>1. cv_update \in Nat
    BY DEF IInv, TypeOK, FlagsOK
  <2> SUFFICES ASSUME world.malleable, upd.pc \in {"test", "wait"},
                      sock.pc \notin {"intra", "wake", "dead"}, cv_update = 0
               PROVE  inter_up = 0 /\ intra_up = 0
    BY <2>1 DEF NoUpdateForgotten
  <2> QED
    BY DEF IInv, SemaphoreCounts, Passed, Announced
<1>2. EndsAfterRemoval
  BY DEF IInv, RemovedFirst, EndsAfterRemoval
<1>3. AckInOnePiece
  <2>1. Len(to_client) \in Nat
    BY DEF IInv, TypeOK, StreamsOK
  <2> QED
    BY <2>1 DEF IInv, AckParts, AckInOnePiece
<1> QED
  BY <1>1, <1>2, <1>3

\* However many updates and probes are sent, and whenever the container ends, hangs
\* or dies: an update that was read is applied or announced, the acknowledgement of
\* the end follows the removal from execInfo_list, and its two parts follow each
\* other.
THEOREM ProtocolCorrect == Spec => [](TypeOK /\ NoUpdateForgotten /\ EndsAfterRemoval /\ AckInOnePiece)
<1>1. IInv => TypeOK /\ NoUpdateForgotten /\ EndsAfterRemoval /\ AckInOnePiece
  BY IInvImplies DEF IInv
<1>2. Init => IInv
  BY InitIInv
<1>3. IInv /\ [Next]_vars => IInv'
  BY StepIInv
<1> QED
  BY <1>1, <1>2, <1>3, PTL DEF Spec

\* No thread sends between the two parts of the acknowledgement: the sends of the
\* attention thread need a record in execInfo_list, and it is removed before.
THEOREM AcknowledgementWhole == Spec => []AckInOnePiece
BY ProtocolCorrect, PTL

----------------------------------------------------------------------------
(* An answer belongs to its probe.                                          *)

\* Adding a part adds its position if the part holds the data of such a message.
LEMMA PositionsPart ==
    ASSUME NEW S, NEW s \in Seq(S), NEW part, NEW msg, NEW M
    PROVE  /\ part = "data" /\ msg \in M =>
                 Positions(Part(s, part, msg), M) = Positions(s, M) \cup {Len(s) + 1}
           /\ ~ (part = "data" /\ msg \in M) => Positions(Part(s, part, msg), M) = Positions(s, M)
<1> DEFINE t == Part(s, part, msg)
<1>1. /\ Len(t) = Len(s) + 1 /\ Len(s) \in Nat
      /\ \A i \in 1..Len(s) : t[i] = s[i]
      /\ t[Len(s) + 1] = [part |-> part, msg |-> msg]
  BY DEF Part
<1> HIDE DEF t
<1>2. 1..Len(t) = (1..Len(s)) \cup {Len(s) + 1}
  BY <1>1
<1>3. \A i \in 1..Len(s) : i # Len(s) + 1
  BY <1>1
<1> QED
  BY <1>1, <1>2, <1>3 DEF Positions, t

\* Reading a part moves all positions by one.
LEMMA PositionsTail ==
    ASSUME NEW S, NEW s \in Seq(S), s # <<>>, NEW M
    PROVE  /\ \A i \in Positions(Tail(s), M) : i \in Nat /\ i + 1 \in Positions(s, M)
           /\ \A i \in Positions(s, M) : i \in Nat /\ (i # 1 => i - 1 \in Positions(Tail(s), M))
           /\ 1 \in Positions(s, M) <=> Head(s).part = "data" /\ Head(s).msg \in M
<1> DEFINE t == Tail(s)
<1>1. /\ Len(t) = Len(s) - 1 /\ Len(s) \in Nat /\ Len(s) > 0
      /\ \A i \in 1..(Len(s) - 1) : t[i] = s[i + 1]
      /\ Head(s) = s[1]
  OBVIOUS
<1> HIDE DEF t
<1>2. \A i \in 1..Len(t) : i \in Nat /\ i + 1 \in 1..Len(s) /\ t[i] = s[i + 1]
  BY <1>1
<1>3. \A i \in 1..Len(s) : i \in Nat /\ (i # 1 => i - 1 \in 1..Len(t) /\ t[i - 1] = s[i])
  <2> SUFFICES ASSUME NEW i \in 1..Len(s), i # 1 PROVE i - 1 \in 1..Len(t) /\ t[i - 1] = s[i]
    BY <1>1
  <2>1. i - 1 \in 1..(Len(s) - 1) /\ (i - 1) + 1 = i
    BY <1>1
  <2> QED
    BY <1>1, <2>1
<1>4. 1 \in 1..Len(s)
  BY <1>1
<1>5. \A i \in Positions(t, M) : i \in Nat /\ i + 1 \in Positions(s, M)
  BY <1>2 DEF Positions
<1>6. \A i \in Positions(s, M) : i \in Nat /\ (i # 1 => i - 1 \in Positions(t, M))
  BY <1>3 DEF Positions
<1>7. 1 \in Positions(s, M) <=> Head(s).part = "data" /\ Head(s).msg \in M
  BY <1>1, <1>4 DEF Positions
<1> QED
  BY <1>5, <1>6, <1>7 DEF t

\* Reading a part adds no position; the only one is gone when it is read.
LEMMA FewerPositions ==
    ASSUME NEW S, NEW s \in Seq(S), s # <<>>, NEW M
    PROVE  /\ Positions(s, M) = {} => Positions(Tail(s), M) = {}
           /\ AtMostOne(Positions(s, M)) => AtMostOne(Positions(Tail(s), M))
           /\ AtMostOne(Positions(s, M)) /\ Head(s).part = "data" /\ Head(s).msg \in M =>
                 Positions(Tail(s), M) = {}
<1> DEFINE P == Positions(s, M)
           T == Positions(Tail(s), M)
<1>1. /\ \A i \in T : i \in Nat /\ i + 1 \in P
      /\ 1 \in P <=> Head(s).part = "data" /\ Head(s).msg \in M
  BY PositionsTail
<1> HIDE DEF P, T
<1>2. P = {} => T = {}
  BY <1>1
<1>3. AtMostOne(P) => AtMostOne(T)
  <2> SUFFICES ASSUME AtMostOne(P), NEW i \in T, NEW j \in T PROVE i = j
    BY DEF AtMostOne
  <2>1. i + 1 = j + 1
    BY <1>1 DEF AtMostOne
  <2> QED
    BY <1>1, <2>1
<1>4. AtMostOne(P) /\ 1 \in P => T = {}
  <2> SUFFICES ASSUME AtMostOne(P), 1 \in P, NEW i \in T PROVE FALSE
    OBVIOUS
  <2>1. i \in Nat /\ i + 1 = 1 /\ i + 1 \in P
    BY <1>1 DEF AtMostOne
  <2>2. i = 0
    BY <2>1
  <2> QED
    BY <1>1, <2>1, <2>2 DEF T, Positions
<1> QED
  BY <1>1, <1>2, <1>3, <1>4 DEF P, T

\* The same for the two parts that main takes.
LEMMA TwoFewerPositions ==
    ASSUME NEW S, NEW s \in Seq(S), Len(s) > 1, NEW M
    PROVE  /\ Positions(s, M) = {} => Positions(Tail(Tail(s)), M) = {}
           /\ AtMostOne(Positions(s, M)) => AtMostOne(Positions(Tail(Tail(s)), M))
<1> DEFINE t == Tail(s)
<1>1. t \in Seq(S) /\ t # <<>> /\ s # <<>>
  <2>1. t \in Seq(S) /\ Len(t) > 0 /\ s # <<>>
    OBVIOUS
  <2> HIDE DEF t
  <2>2. t # <<>>
    BY <2>1
  <2> QED
    BY <2>1, <2>2
<1>2. /\ Positions(s, M) = {} => Positions(t, M) = {}
      /\ AtMostOne(Positions(s, M)) => AtMostOne(Positions(t, M))
  BY <1>1, FewerPositions
<1> HIDE DEF t
<1>3. /\ Positions(t, M) = {} => Positions(Tail(t), M) = {}
      /\ AtMostOne(Positions(t, M)) => AtMostOne(Positions(Tail(t), M))
  BY <1>1, FewerPositions
<1> QED
  BY <1>2, <1>3 DEF t

\* A container that is up was up before.
LEMMA AliveStep == [Next]_vars => (alive' => alive)
<1> SUFFICES ASSUME [Next]_vars, alive' PROVE alive
  OBVIOUS
<1>1. CASE Read
  <2>1. CASE Received(Head(to_scheduler).msg)
    BY <2>1 DEF Received, Fail
  <2>2. CASE ~ Received(Head(to_scheduler).msg)
    BY <1>1, <2>2 DEF Read
  <2> QED
    BY <2>1, <2>2
<1>2. CASE Timeout
  BY <1>2 DEF Timeout
<1>3. CASE SendFirst \/ SendProbe \/ SendAck \/ Remove \/ EndOfStream \/ SendUpdate
  BY <1>3 DEF SendFirst, SendProbe, SendAck, Remove, EndOfStream, SendUpdate
<1>4. CASE \/ MainStart \/ Handler \/ MainEnd \/ SockRead \/ SockInter \/ SockIntra \/ SockWake
           \/ UpdTest \/ UpdWait \/ UpdTake \/ UpdProgress \/ LiveTest \/ LiveWait \/ LiveAnswer
           \/ Training \/ Crash
  BY <1>4 DEF MainStart, Handler, MainEnd, SockRead, SockInter, SockIntra, SockWake, UpdTest,
              UpdWait, UpdTake, UpdProgress, LiveTest, LiveWait, LiveAnswer, Training, Crash
<1>5. CASE UNCHANGED vars
  BY <1>5 DEF vars
<1> QED
  BY <1>1, <1>2, <1>3, <1>4, <1>5
     DEF Next, SchedulerThread, SocketThread, UpdateThread, LiveThread, MainThread

\* A step that puts nothing into a place keeps what is said of the places.
LEMMA FewerPlaces ==
    ASSUME OneProbe, ~ sched.probing => NoProbe, sched'.probing = sched.probing,
           ProbeSent' => ProbeSent, ProbeHeld' => ProbeHeld, LiveAsked' => LiveAsked,
           Asked = {} => Asked' = {}, AtMostOne(Asked) => AtMostOne(Asked'),
           Given = {} => Given' = {}, AtMostOne(Given) => AtMostOne(Given')
    PROVE  OneProbe' /\ (~ sched'.probing => NoProbe')
<1>1. OneProbe'
  BY DEF OneProbe
<1>2. ~ sched'.probing => NoProbe'
  BY DEF NoProbe
<1> QED
  BY <1>1, <1>2

\* A probe or its answer is in one place at most, and in none while the scheduler does
\* not wait for it.
LEMMA OneProbeStep ==
    IInv /\ Probes /\ [Next]_vars => (alive => OneProbe /\ (~ sched.probing => NoProbe))'
<1> SUFFICES ASSUME IInv, Probes, [Next]_vars, alive'
             PROVE  OneProbe' /\ (~ sched'.probing => NoProbe')
  OBVIOUS
<1>0. /\ OneProbe /\ (~ sched.probing => NoProbe) /\ AnswerParts
      /\ to_client \in Seq(ToClient) /\ to_scheduler \in Seq(ToScheduler)
      /\ sched \in ClientThread /\ sock \in Socket /\ live \in Live
  BY AliveStep DEF Probes, IInv, TypeOK, StreamsOK, SchedulerOK, ThreadsOK
<1>1. CASE SendFirst \/ SendAck
  <2>1. \E msg \in {Start, Ack} : to_client' \in {Part(to_client, "len", msg), Part(to_client, "data", msg)}
    <3>1. CASE SendFirst
      BY <3>1 DEF SendFirst, SchedSend
    <3>2. CASE SendAck
      BY <3>2 DEF SendAck, SchedSend
    <3> QED
      BY <1>1, <3>1, <3>2
  <2>2. Asked' = Asked
    <3>1. PICK msg \in {Start, Ack} : to_client' \in {Part(to_client, "len", msg), Part(to_client, "data", msg)}
      BY <2>1
    <3>2. msg \notin {Probe}
      BY <3>1, MessagesType
    <3>3. \A part : Positions(Part(to_client, part, msg), {Probe}) = Positions(to_client, {Probe})
      BY ONLY <1>0, <3>2, PositionsPart
    <3> QED
      BY ONLY <3>1, <3>3 DEF Asked
  <2>3. sched'.probing = sched.probing /\ ~ ProbeSent'
    BY <1>0, <1>1 DEF SendFirst, SendAck, SchedSend, ProbeSent, ClientThread
  <2>4. ProbeHeld' = ProbeHeld /\ LiveAsked' = LiveAsked /\ Given' = Given
    <3>1. UNCHANGED <<to_scheduler, sock, live, finalize>>
      <4>1. CASE SendFirst
        BY <4>1 DEF SendFirst, threads, flags
      <4>2. CASE SendAck
        BY <4>2 DEF SendAck, threads, flags
      <4> QED
        BY <1>1, <4>1, <4>2
    <3> QED
      BY <3>1 DEF ProbeHeld, LiveAsked, Given
  <2> QED
    BY ONLY <1>0, <2>2, <2>3, <2>4, FewerPlaces
<1>2. CASE SendProbe
  <2>1. ProbeSent /\ sched'.probing = sched.probing /\ sched.probing
    BY <1>0, <1>2 DEF SendProbe, SchedSend, ProbeSent, ClientThread, NoProbe
  <2>2. ~ ProbeHeld' /\ ~ LiveAsked' /\ Given' = {} /\ Asked = {}
    <3>1. ~ ProbeHeld /\ ~ LiveAsked /\ Given = {} /\ Asked = {}
      BY <1>0, <2>1 DEF OneProbe
    <3>2. ProbeHeld' = ProbeHeld /\ LiveAsked' = LiveAsked /\ Given' = Given
      BY <1>2 DEF SendProbe, threads, flags, ProbeHeld, LiveAsked, Given
    <3> QED
      BY <3>1, <3>2
  <2>3. CASE sched.pc = "probe1"
    <3>1. to_client' = Part(to_client, "len", Probe)
      BY <1>2, <2>3 DEF SendProbe, SchedSend
    <3>2. Positions(Part(to_client, "len", Probe), {Probe}) = Positions(to_client, {Probe})
      BY ONLY <1>0, PositionsPart
    <3>3. Asked' = {}
      BY <2>2, <3>1, <3>2 DEF Asked
    <3> QED
      BY <2>1, <2>2, <3>3 DEF OneProbe, AtMostOne
  <2>4. CASE sched.pc = "probe2"
    <3>1. to_client' = Part(to_client, "data", Probe) /\ sched'.pc = "len"
      BY <1>0, <1>2, <2>4 DEF SendProbe, SchedSend, ClientThread
    <3>2. Positions(Part(to_client, "data", Probe), {Probe}) = Positions(to_client, {Probe}) \cup {Len(to_client) + 1}
      BY ONLY <1>0, PositionsPart
    <3>3. Asked' = {Len(to_client) + 1}
      BY <2>2, <3>1, <3>2 DEF Asked
    <3> QED
      BY <2>1, <2>2, <3>1, <3>3 DEF OneProbe, AtMostOne, ProbeSent
  <2> QED
    BY <2>1, <2>3, <2>4 DEF ProbeSent
<1>3. CASE Read
  <2> DEFINE head == Head(to_scheduler)
  <2>1. /\ to_scheduler # <<>> /\ to_scheduler' = Tail(to_scheduler) /\ head \in ToScheduler
        /\ sched.pc \in {"len", "data", "garbled"}
    BY <1>0, <1>3, HeadAndTail DEF Read
  <2>2. /\ Given = {} => Given' = {}
        /\ AtMostOne(Given) => AtMostOne(Given')
        /\ AtMostOne(Given) /\ head.part = "data" /\ head.msg \in LiveAnswers => Given' = {}
    BY ONLY <1>0, <2>1, FewerPositions DEF Given
  <2>3. Asked' = Asked /\ ProbeHeld' = ProbeHeld /\ LiveAsked' = LiveAsked
    BY <1>3 DEF Read, threads, flags, ProbeHeld, LiveAsked, Asked
  <2> HIDE DEF head
  <2>4. CASE sched'.probing = sched.probing
    <3>1. ~ ProbeSent'
      <4>1. CASE head.part = "data" /\ sched.pc = "data"
        <5>1. Received(head.msg)
          BY <1>3, <4>1 DEF Read, head
        <5> HIDE DEF head
        <5>2. sched'.pc \in {"remove", "len"}
          <6>1. CASE sched.probing /\ ~ Answers(head.msg)
            BY <1>0, <5>1, <2>4, <6>1 DEF Received, Fail, ClientThread
          <6>2. CASE ~ (sched.probing /\ ~ Answers(head.msg))
            <7> DEFINE next == IF ~ sched.probing /\ head.msg = "exit" /\ ~ world.no_epochs
                               THEN "remove" ELSE "len"
            <7>1. sched' = [pc |-> next, msg |-> head.msg, probing |-> FALSE]
              BY <5>1, <6>2 DEF Received
            <7>2. next \in {"remove", "len"}
              OBVIOUS
            <7> HIDE DEF next
            <7> QED
              BY <7>1, <7>2
          <6> QED
            BY <6>1, <6>2
        <5> QED
          BY <5>2 DEF ProbeSent
      <4>2. CASE ~ (head.part = "data" /\ sched.pc = "data")
        BY <1>0, <1>3, <4>2 DEF Read, head, ClientThread, ProbeSent
      <4> QED
        BY <4>1, <4>2
    <3> QED
      BY ONLY <1>0, <2>2, <2>3, <2>4, <3>1, FewerPlaces
  <2>5. CASE sched'.probing # sched.probing
    <3>1. head.part = "data" /\ sched.pc = "data"
      BY <1>0, <1>3, <2>5 DEF Read, head, ClientThread
    <3>2. Received(head.msg)
      BY <1>3, <3>1 DEF Read, head
    <3>3. sched.probing /\ head.msg = "live" /\ sched'.pc = "len" /\ ~ sched'.probing
      <4>1. CASE sched.probing /\ ~ Answers(head.msg)
        BY <3>2, <4>1 DEF Received, Fail
      <4>2. CASE sched.probing /\ Answers(head.msg)
        <5>1. sched'.pc = "len" /\ ~ sched'.probing
          BY <3>2, <4>2 DEF Received
        <5> QED
          BY <4>2, <5>1 DEF Answers
      <4>3. CASE ~ sched.probing
        <5>1. sched'.probing = FALSE
          BY <3>2, <4>3 DEF Received
        <5> QED
          BY <1>0, <2>5, <4>3, <5>1 DEF ClientThread
      <4> QED
        BY <4>1, <4>2, <4>3
    <3>4. 1 \in Given /\ Given' = {}
      BY ONLY <1>0, <2>1, <2>2, <3>1, <3>3, PositionsTail DEF Given, head, OneProbe, LiveAnswers
    <3>5. ~ ProbeSent /\ Asked = {} /\ ~ ProbeHeld /\ ~ LiveAsked
      BY <1>0, <3>4 DEF OneProbe
    <3>6. NoProbe'
      BY <2>3, <3>3, <3>4, <3>5 DEF NoProbe, ProbeSent
    <3> QED
      BY <3>6 DEF NoProbe, OneProbe, AtMostOne
  <2> QED
    BY <2>4, <2>5
<1>4. CASE Remove \/ EndOfStream
  <2>1. Asked' = Asked /\ ProbeHeld' = ProbeHeld /\ LiveAsked' = LiveAsked /\ Given' = Given
    <3>1. UNCHANGED <<to_client, to_scheduler, sock, live, finalize>>
      BY <1>4 DEF Remove, EndOfStream, streams, threads, flags
    <3> QED
      BY <3>1 DEF ProbeHeld, LiveAsked, Asked, Given
  <2>2. sched'.probing = sched.probing /\ ~ ProbeSent'
    BY <1>0, <1>4 DEF Remove, EndOfStream, ProbeSent, ClientThread
  <2> QED
    BY ONLY <1>0, <2>1, <2>2, FewerPlaces
<1>5. CASE Timeout
  <2>1. ~ sched.probing /\ sched' = [sched EXCEPT !.pc = "probe1", !.probing = TRUE]
    BY <1>5 DEF Timeout, NoAnswer, Fail
  <2>2. NoProbe /\ sched'.probing
    BY <1>0, <2>1 DEF ClientThread
  <2>3. Asked' = Asked /\ ProbeHeld' = ProbeHeld /\ LiveAsked' = LiveAsked /\ Given' = Given
    BY <1>5 DEF Timeout, streams, threads, flags, ProbeHeld, LiveAsked, Asked, Given
  <2> QED
    BY <2>2, <2>3 DEF NoProbe, OneProbe, AtMostOne
<1>6. CASE SendUpdate
  <2>1. PICK part, msg : to_client' = Part(to_client, part, msg) /\ msg # Probe
    BY <1>0, <1>6, MessagesType DEF SendUpdate, AnswerParts
  <2>2. Asked' = Asked
    BY ONLY <1>0, <2>1, PositionsPart DEF Asked
  <2>3. /\ ProbeHeld' = ProbeHeld /\ LiveAsked' = LiveAsked /\ Given' = Given
        /\ ProbeSent' = ProbeSent /\ sched' = sched
    <3>1. UNCHANGED <<to_scheduler, sock, live, finalize, sched>>
      BY <1>6 DEF SendUpdate, threads, flags
    <3> QED
      BY <3>1 DEF ProbeHeld, LiveAsked, Given, ProbeSent
  <2> QED
    BY ONLY <1>0, <2>2, <2>3, FewerPlaces
<1>7. CASE MainStart
  <2>1. sched' = sched /\ ProbeSent' = ProbeSent
    BY <1>7 DEF MainStart, scheduler, ProbeSent
  <2>2. (Asked = {} => Asked' = {}) /\ (AtMostOne(Asked) => AtMostOne(Asked'))
    <3>1. CASE main.pc = "first"
      <4>1. Len(to_client) > 1 /\ to_client' = Tail(Tail(to_client))
        BY <1>7, <3>1 DEF MainStart
      <4> QED
        BY ONLY <1>0, <4>1, TwoFewerPositions DEF Asked
    <3>2. CASE main.pc # "first"
      BY <1>7, <3>2 DEF MainStart, streams, Asked
    <3> QED
      BY <3>1, <3>2
  <2>3. (ProbeHeld' => ProbeHeld) /\ (LiveAsked' => LiveAsked)
    <3>1. /\ sock' = sock \/ sock'.pc = "len"
          /\ live' = live \/ live'.pc = "test"
          /\ finalize' = finalize
      BY <1>0, <1>7 DEF MainStart, Socket, Live, flags
    <3> QED
      BY <3>1 DEF ProbeHeld, LiveAsked
  <2>4. Given' = Given
    <3>1. to_scheduler' = to_scheduler \/ \E part : to_scheduler' = Part(to_scheduler, part, "init")
      BY <1>7 DEF MainStart, streams
    <3>2. "init" \notin LiveAnswers
      BY DEF LiveAnswers
    <3> QED
      BY ONLY <1>0, <3>1, <3>2, PositionsPart DEF Given
  <2> QED
    BY ONLY <1>0, <2>1, <2>2, <2>3, <2>4, FewerPlaces
<1>8. CASE Handler
  <2>1. sched' = sched /\ ProbeSent' = ProbeSent /\ Asked' = Asked /\ ProbeHeld' = ProbeHeld
    BY <1>8 DEF Handler, scheduler, ProbeSent, Asked, ProbeHeld
  <2>2. LiveAsked' => LiveAsked
    BY <1>8 DEF Handler, LiveAsked
  <2>3. Given' = Given
    <3>1. to_scheduler' = to_scheduler \/ \E part : to_scheduler' = Part(to_scheduler, part, "exit")
      BY <1>8 DEF Handler
    <3>2. "exit" \notin LiveAnswers
      BY DEF LiveAnswers
    <3> QED
      BY ONLY <1>0, <3>1, <3>2, PositionsPart DEF Given
  <2> QED
    BY ONLY <1>0, <2>1, <2>2, <2>3, FewerPlaces
<1>9. CASE SockRead
  <2> DEFINE head == Head(to_client)
  <2>1. to_client # <<>> /\ to_client' = Tail(to_client) /\ head \in ToClient
    BY <1>0, <1>9, HeadAndTail DEF SockRead
  <2>2. /\ Asked = {} => Asked' = {}
        /\ AtMostOne(Asked) => AtMostOne(Asked')
        /\ AtMostOne(Asked) /\ head.part = "data" /\ head.msg \in {Probe} => Asked' = {}
    BY ONLY <1>0, <2>1, FewerPositions DEF Asked
  <2>3. /\ sched' = sched /\ ProbeSent' = ProbeSent /\ LiveAsked' = LiveAsked /\ Given' = Given
        /\ ~ ProbeHeld
    BY <1>9 DEF SockRead, scheduler, flags, ProbeSent, LiveAsked, Given, ProbeHeld
  <2>4. CASE ~ ProbeHeld'
    BY ONLY <1>0, <2>2, <2>3, <2>4, FewerPlaces
  <2>5. CASE ProbeHeld'
    <3>1. head.part = "data" /\ head.msg = Probe
      BY <1>9, <2>1, <2>5 DEF SockRead, ProbeHeld, ToClient
    <3>2. 1 \in Asked /\ Asked' = {}
      BY ONLY <1>0, <2>1, <2>2, <3>1, PositionsTail DEF Asked, OneProbe
    <3>3. ~ ProbeSent /\ ~ LiveAsked /\ Given = {} /\ sched.probing
      BY <1>0, <3>2 DEF OneProbe, NoProbe
    <3> QED
      BY <2>3, <2>5, <3>2, <3>3 DEF OneProbe, AtMostOne
  <2> QED
    BY <2>4, <2>5
<1>10. CASE SockInter \/ SockIntra
  <2>1. ProbeHeld' = ProbeHeld
    BY <1>0, <1>10 DEF SockInter, SockIntra, ProbeHeld, Socket
  <2>2. sched' = sched /\ ProbeSent' = ProbeSent /\ LiveAsked' = LiveAsked /\ Given' = Given /\ Asked' = Asked
    <3>1. UNCHANGED <<to_client, to_scheduler, live, finalize, sched>>
      BY <1>10 DEF SockInter, SockIntra, streams, scheduler, flags
    <3> QED
      BY <3>1 DEF LiveAsked, Asked, Given, ProbeSent
  <2> QED
    BY ONLY <1>0, <2>1, <2>2, FewerPlaces
<1>11. CASE SockWake
  <2>1. /\ sched' = sched /\ ProbeSent' = ProbeSent /\ Given' = Given /\ Asked' = Asked
        /\ ~ ProbeHeld' /\ finalize' = finalize
    BY <1>0, <1>11 DEF SockWake, streams, scheduler, ProbeSent, Given, Asked, ProbeHeld, Socket
  <2>2. CASE sock.msg = Probe
    <3>1. ProbeHeld
      BY <1>11, <2>2 DEF SockWake, ProbeHeld
    <3>2. ~ ProbeSent /\ Asked = {} /\ Given = {} /\ sched.probing
      BY <1>0, <3>1 DEF OneProbe, NoProbe
    <3> QED
      BY <2>1, <3>2 DEF OneProbe, AtMostOne
  <2>3. CASE sock.msg # Probe
    <3>1. LiveAsked' = LiveAsked
      BY <1>11, <2>1, <2>3 DEF SockWake, LiveAsked
    <3> QED
      BY ONLY <1>0, <2>1, <3>1, FewerPlaces
  <2> QED
    BY <2>2, <2>3
<1>12. CASE UpdTest
  <2>1. /\ sched' = sched /\ ProbeSent' = ProbeSent /\ Given' = Given /\ Asked' = Asked
        /\ ProbeHeld' = ProbeHeld
    BY <1>12 DEF UpdTest, streams, scheduler, ProbeSent, Given, Asked, ProbeHeld
  <2>2. LiveAsked' => LiveAsked
    BY <1>0, <1>12 DEF UpdTest, NotifyLive, LiveAsked, Live
  <2> QED
    BY ONLY <1>0, <2>1, <2>2, FewerPlaces
<1>13. CASE LiveTest
  <2>1. /\ sched' = sched /\ ProbeSent' = ProbeSent /\ Given' = Given /\ Asked' = Asked
        /\ ProbeHeld' = ProbeHeld
    BY <1>13 DEF LiveTest, streams, scheduler, ProbeSent, Given, Asked, ProbeHeld
  <2>2. LiveAsked' => LiveAsked
    BY <1>0, <1>13 DEF LiveTest, LiveAsked, Live, flags
  <2> QED
    BY ONLY <1>0, <2>1, <2>2, FewerPlaces
<1>14. CASE LiveAnswer
  <2>1. /\ sched' = sched /\ ProbeSent' = ProbeSent /\ Asked' = Asked
        /\ ProbeHeld' = ProbeHeld /\ LiveAsked
    BY <1>14 DEF LiveAnswer, scheduler, ProbeSent, Asked, ProbeHeld, LiveAsked
  <2>2. ~ ProbeSent /\ Asked = {} /\ ~ ProbeHeld /\ Given = {} /\ sched.probing
    BY <1>0, <2>1 DEF OneProbe, NoProbe
  <2>3. CASE live.pc = "stat"
    <3>1. PICK msg : to_scheduler' = Part(to_scheduler, "len", msg)
      BY <1>14, <2>3 DEF LiveAnswer
    <3>2. Given' = {}
      BY ONLY <1>0, <2>2, <3>1, PositionsPart DEF Given
    <3> QED
      BY <2>1, <2>2, <3>2 DEF OneProbe, AtMostOne
  <2>4. CASE live.pc = "send"
    <3>1. to_scheduler' = Part(to_scheduler, "data", live.msg) /\ live' = [pc |-> "test", msg |-> ""]
      BY <1>14, <2>4 DEF LiveAnswer
    <3>2. ~ LiveAsked'
      BY <3>1 DEF LiveAsked
    <3>4. \/ Positions(Part(to_scheduler, "data", live.msg), LiveAnswers)
              = Positions(to_scheduler, LiveAnswers) \cup {Len(to_scheduler) + 1}
          \/ Positions(Part(to_scheduler, "data", live.msg), LiveAnswers)
              = Positions(to_scheduler, LiveAnswers)
      BY ONLY <1>0, PositionsPart
    <3>3. Given' = {} \/ Given' = {Len(to_scheduler) + 1}
      BY <2>2, <3>1, <3>4 DEF Given
    <3> QED
      BY <2>1, <2>2, <3>2, <3>3 DEF OneProbe, AtMostOne
  <2> QED
    BY <1>14, <2>3, <2>4 DEF LiveAnswer
<1>15. CASE MainEnd \/ UpdWait \/ UpdTake \/ UpdProgress \/ LiveWait \/ Training \/ Crash \/ UNCHANGED vars
  <2>1. UNCHANGED <<sched, to_client, to_scheduler, sock, live, finalize>>
    BY <1>15 DEF MainEnd, UpdWait, UpdTake, UpdProgress, LiveWait, Training, Crash, vars, streams,
                 scheduler, threads, flags
  <2> QED
    BY <1>0, <2>1 DEF OneProbe, NoProbe, ProbeSent, Asked, ProbeHeld, LiveAsked, Given
<1> QED
  BY <1>1, <1>2, <1>3, <1>4, <1>5, <1>6, <1>7, <1>8, <1>9, <1>10, <1>11, <1>12, <1>13, <1>14, <1>15
     DEF Next, SchedulerThread, SocketThread, UpdateThread, LiveThread, MainThread

\* live_control waits only in its wait.
LEMMA LiveWaitsStep == IInv /\ Probes /\ [Next]_vars => LiveWaits'
<1> SUFFICES ASSUME IInv, Probes, [Next]_vars PROVE LiveWaits'
  OBVIOUS
<1>0. LiveWaits /\ live \in Live /\ main \in Main /\ waiting \in BOOLEAN
  BY DEF Probes, IInv, TypeOK, ThreadsOK, FlagsOK
<1>1. CASE MainStart
  BY <1>0, <1>1 DEF MainStart, LiveWaits, Starting, Live, Main, flags
<1>2. CASE Handler \/ MainEnd
  BY <1>0, <1>2 DEF Handler, MainEnd, LiveWaits, Starting, Main, flags
<1>3. CASE LiveTest \/ LiveAnswer
  <2>1. UNCHANGED <<main, waiting>> /\ live.pc \notin {"off", "wait"}
    BY <1>3 DEF LiveTest, LiveAnswer, flags
  <2> QED
    BY <1>0, <2>1 DEF LiveWaits, Starting
<1>4. CASE LiveWait
  BY <1>0, <1>4 DEF LiveWait, LiveWaits, Starting, threads
<1>5. CASE SockWake
  <2>1. main' = main /\ (UNCHANGED <<live, waiting>> \/ NotifyLive)
    BY <1>5 DEF SockWake
  <2>2. NotifyLive => ~ waiting' /\ (waiting \/ live'.pc = live.pc)
    BY <1>0 DEF NotifyLive, Live
  <2> QED
    BY <1>0, <2>1, <2>2 DEF LiveWaits, Starting
<1>6. CASE UpdTest
  <2>1. main' = main /\ (UNCHANGED <<live, waiting>> \/ NotifyLive)
    BY <1>6 DEF UpdTest
  <2>2. NotifyLive => ~ waiting' /\ (waiting \/ live'.pc = live.pc)
    BY <1>0 DEF NotifyLive, Live
  <2> QED
    BY <1>0, <2>1, <2>2 DEF LiveWaits, Starting
<1>7. CASE \/ SendFirst \/ SendProbe \/ SendAck \/ Read \/ Remove \/ EndOfStream \/ Timeout \/ SendUpdate
           \/ SockRead \/ SockInter \/ SockIntra \/ UpdWait \/ UpdTake \/ UpdProgress \/ Training \/ Crash
           \/ UNCHANGED vars
  <2>1. UNCHANGED <<main, live, waiting>>
    BY <1>7 DEF SendFirst, SendProbe, SendAck, Read, Remove, EndOfStream, Timeout, SendUpdate, SockRead,
       SockInter, SockIntra, UpdWait, UpdTake, UpdProgress, Training, Crash, vars, threads, flags
  <2> QED
    BY <1>0, <2>1 DEF LiveWaits, Starting
<1> QED
  BY <1>1, <1>2, <1>3, <1>4, <1>5, <1>6, <1>7
     DEF Next, SchedulerThread, SocketThread, UpdateThread, LiveThread, MainThread

\* The parts of an answer follow each other, and an update is not a probe.
LEMMA AnswerPartsStep == IInv /\ Probes /\ [Next]_vars => AnswerParts'
<1> SUFFICES ASSUME IInv, Probes, [Next]_vars PROVE AnswerParts'
  OBVIOUS
<1>0. /\ AnswerParts /\ LiveWaits /\ to_scheduler \in Seq(ToScheduler) /\ live \in Live /\ att \in AttentionThread
      /\ Len(to_scheduler) \in Nat
  <2>1. to_scheduler \in Seq(ToScheduler)
    BY DEF IInv, TypeOK, StreamsOK
  <2>2. Len(to_scheduler) \in Nat
    BY ONLY <2>1
  <2> QED
    BY <2>1, <2>2 DEF Probes, IInv, TypeOK, SchedulerOK, ThreadsOK
<1> DEFINE Followed(stream, given, sending) ==
        \A i \in 1..Len(stream) : stream[i].part = "len" /\ stream[i].msg \in LiveAnswers =>
            sending \/ \E j \in given : i < j
<1>1. Followed(to_scheduler, Given, live.pc = "send") /\ (live.pc = "send" => live.msg \in LiveAnswers)
      /\ att.msg # Probe
  BY <1>0 DEF AnswerParts
<1>2. ASSUME Followed(to_scheduler', Given', live'.pc = "send"), live'.pc = "send" => live'.msg \in LiveAnswers,
             att'.msg # Probe
      PROVE  AnswerParts'
  BY <1>2 DEF AnswerParts
<1>3. ASSUME NEW part, NEW msg \in {"init", "exit"}, to_scheduler' = Part(to_scheduler, part, msg),
             live' = live
      PROVE  Followed(to_scheduler', Given', live'.pc = "send")
  <2>1. msg \notin LiveAnswers
    BY DEF LiveAnswers
  <2>2. Positions(Part(to_scheduler, part, msg), LiveAnswers) = Positions(to_scheduler, LiveAnswers)
    BY ONLY <1>0, <2>1, PositionsPart
  <2>3. Given' = Given
    BY <1>3, <2>2 DEF Given
  <2>4. \A i \in 1..Len(to_scheduler') : to_scheduler'[i].msg \in LiveAnswers =>
            i \in 1..Len(to_scheduler) /\ to_scheduler'[i] = to_scheduler[i]
    BY <1>0, <1>3, <2>1 DEF Part
  <2> QED
    BY <1>1, <1>3, <2>3, <2>4
<1>4. CASE Read
  <2>1. to_scheduler # <<>> /\ to_scheduler' = Tail(to_scheduler) /\ live' = live /\ att' = att
    BY <1>4 DEF Read, threads
  <2>2. /\ \A i \in 1..Len(to_scheduler') :
              i \in Nat /\ i + 1 \in 1..Len(to_scheduler) /\ to_scheduler'[i] = to_scheduler[i + 1]
    BY <1>0, <2>1
  <2>3. \A j \in Given : j \in Nat /\ (j # 1 => j - 1 \in Given')
    BY ONLY <1>0, <2>1, PositionsTail DEF Given
  <2>4. Followed(to_scheduler', Given', live'.pc = "send")
    <3> SUFFICES ASSUME NEW i \in 1..Len(to_scheduler'), to_scheduler'[i].part = "len",
                        to_scheduler'[i].msg \in LiveAnswers, live'.pc # "send"
                 PROVE  \E j \in Given' : i < j
      OBVIOUS
    <3>1. PICK j \in Given : i + 1 < j
      BY <1>1, <2>1, <2>2
    <3>2. j - 1 \in Given' /\ i < j - 1
      BY <2>2, <2>3, <3>1
    <3> QED
      BY <3>2
  <2> HIDE DEF Followed
  <2> QED
    BY <1>1, <1>2, <2>1, <2>4
<1>5. CASE SendUpdate
  <2>1. att'.msg # Probe /\ UNCHANGED <<to_scheduler, live>>
    BY <1>0, <1>1, <1>5, MessagesType DEF SendUpdate, AttentionThread, threads
  <2> QED
    BY <1>0, <2>1 DEF AnswerParts, Given
<1>6. CASE MainStart
  <2>1. att' = att /\ (live' = live \/ (live'.pc = "test" /\ UNCHANGED to_scheduler /\ main.pc = "start"))
    <3>1. att' = att /\ (main.pc # "start" => live' = live)
      BY <1>6 DEF MainStart, scheduler
    <3>2. main.pc = "start" => UNCHANGED to_scheduler /\ live' = [live EXCEPT !.pc = "test"]
      BY <1>6 DEF MainStart, streams
    <3>3. main.pc = "start" => live'.pc = "test"
      BY <1>0, <3>2 DEF Live
    <3>4. CASE main.pc = "start"
      BY <3>1, <3>2, <3>3, <3>4
    <3>5. CASE main.pc # "start"
      BY <3>1, <3>5
    <3> QED
      BY <3>4, <3>5
  <2>2. CASE main.pc \in {"init1", "init2"}
    <3>1. PICK part \in {"len", "data"} : to_scheduler' = Part(to_scheduler, part, "init")
      BY <1>6, <2>2 DEF MainStart
    <3>2. live' = live
      BY <2>1, <2>2
    <3>3. Followed(to_scheduler', Given', live'.pc = "send")
      BY <1>3, <3>1, <3>2
    <3> HIDE DEF Followed
    <3> QED
      BY <1>1, <1>2, <2>1, <3>2, <3>3
  <2>3. CASE main.pc \in {"first", "start"}
    <3>1. UNCHANGED to_scheduler
      BY <1>6, <2>3 DEF MainStart, streams
    <3>2. live' = live \/ (main.pc = "start" /\ live'.pc = "test")
      BY <2>1
    <3>3. live.pc = "send" => main.pc # "start"
      BY <1>0 DEF LiveWaits, Starting
    <3> QED
      BY <1>0, <2>1, <3>1, <3>2, <3>3 DEF AnswerParts, Given
  <2> QED
    BY <1>6, <2>2, <2>3 DEF MainStart
<1>7. CASE Handler
  <2>1. att' = att /\ live' = live
    BY <1>7 DEF Handler, scheduler
  <2>2. CASE main.pc = "finalize"
    <3>1. UNCHANGED to_scheduler
      BY <1>7, <2>2 DEF Handler
    <3> QED
      BY <1>0, <2>1, <3>1 DEF AnswerParts, Given
  <2>3. CASE main.pc # "finalize"
    <3>1. PICK part \in {"len", "data"} : to_scheduler' = Part(to_scheduler, part, "exit")
      BY <1>7, <2>3 DEF Handler
    <3>3. Followed(to_scheduler', Given', live'.pc = "send")
      BY <1>3, <2>1, <3>1
    <3> HIDE DEF Followed
    <3> QED
      BY <1>1, <1>2, <2>1, <3>3
  <2> QED
    BY <2>2, <2>3
<1>8. CASE LiveAnswer
  <2>1. att' = att
    BY <1>8 DEF LiveAnswer, scheduler
  <2>2. CASE live.pc = "stat"
    <3>1. live'.pc = "send" /\ live'.msg \in LiveAnswers
      BY <1>8, <2>2 DEF LiveAnswer, LiveAnswers
    <3>2. Followed(to_scheduler', Given', live'.pc = "send")
      BY <3>1
    <3> HIDE DEF Followed
    <3> QED
      BY <1>1, <1>2, <2>1, <3>1, <3>2
  <2>3. CASE live.pc = "send"
    <3>1. to_scheduler' = Part(to_scheduler, "data", live.msg) /\ live'.pc = "test" /\ live.msg \in LiveAnswers
      <4>1. to_scheduler' = Part(to_scheduler, "data", live.msg) /\ live' = [pc |-> "test", msg |-> ""]
        BY <1>8, <2>3 DEF LiveAnswer
      <4> QED
        BY <1>1, <2>3, <4>1
    <3>2. Positions(Part(to_scheduler, "data", live.msg), LiveAnswers)
              = Positions(to_scheduler, LiveAnswers) \cup {Len(to_scheduler) + 1}
      BY ONLY <1>0, <3>1, PositionsPart
    <3>3. Len(to_scheduler) + 1 \in Given'
      BY <3>1, <3>2 DEF Given
    <3>4. \A i \in 1..Len(to_scheduler') : to_scheduler'[i].part = "len" => i \in 1..Len(to_scheduler)
      BY <1>0, <3>1 DEF Part
    <3>5. Followed(to_scheduler', Given', live'.pc = "send")
      <4> SUFFICES ASSUME NEW i \in 1..Len(to_scheduler'), to_scheduler'[i].part = "len"
                   PROVE  \E j \in Given' : i < j
        OBVIOUS
      <4>1. i < Len(to_scheduler) + 1
        BY <1>0, <3>4
      <4> QED
        BY <3>3, <4>1
    <3> HIDE DEF Followed
    <3> QED
      BY <1>1, <1>2, <2>1, <3>1, <3>5
  <2> QED
    BY <1>8, <2>2, <2>3 DEF LiveAnswer
<1>9. CASE LiveTest \/ SockWake \/ UpdTest
  <2>1. UNCHANGED <<to_scheduler, att>>
    BY <1>9 DEF LiveTest, SockWake, UpdTest, streams, scheduler
  <2>2. live' = live \/ (live'.pc # "send" /\ live.pc # "send")
    <3>1. CASE LiveTest
      BY <1>0, <3>1 DEF LiveTest, Live
    <3>2. CASE SockWake
      <4>1. live' = live \/ (waiting /\ live' = [live EXCEPT !.pc = "woken"]) \/ live' = [live EXCEPT !.pc = live.pc]
        BY <3>2 DEF SockWake, NotifyLive
      <4> QED
        BY <1>0, <4>1 DEF LiveWaits, Live
    <3>3. CASE UpdTest
      <4>1. live' = live \/ (waiting /\ live' = [live EXCEPT !.pc = "woken"]) \/ live' = [live EXCEPT !.pc = live.pc]
        BY <3>3 DEF UpdTest, NotifyLive
      <4> QED
        BY <1>0, <4>1 DEF LiveWaits, Live
    <3> QED
      BY <1>9, <3>1, <3>2, <3>3
  <2> QED
    BY <1>0, <2>1, <2>2 DEF AnswerParts, Given
<1>10. CASE \/ SendFirst \/ SendProbe \/ SendAck \/ Remove \/ EndOfStream \/ Timeout \/ MainEnd \/ SockRead
            \/ SockInter \/ SockIntra \/ UpdWait \/ UpdTake \/ UpdProgress \/ LiveWait \/ Training \/ Crash
            \/ UNCHANGED vars
  <2>1. UNCHANGED <<to_scheduler, att, live>>
    BY <1>10 DEF SendFirst, SendProbe, SendAck, Remove, EndOfStream, Timeout, MainEnd, SockRead, SockInter,
       SockIntra, UpdWait, UpdTake, UpdProgress, LiveWait, Training, Crash, vars, streams, scheduler, threads
  <2> QED
    BY <1>0, <2>1 DEF AnswerParts, Given
<1> QED
  BY <1>4, <1>5, <1>6, <1>7, <1>8, <1>9, <1>10
     DEF Next, SchedulerThread, SocketThread, UpdateThread, LiveThread, MainThread

\* Nothing is under way at the start.
LEMMA InitProbes == Init => Probes
<1> SUFFICES ASSUME Init PROVE Probes
  OBVIOUS
<1>1. /\ to_client = <<>> /\ to_scheduler = <<>> /\ sched.pc = "first1" /\ sock.pc = "off"
      /\ live.pc = "off" /\ waiting = FALSE /\ att.msg = Start
  BY DEF Init
<1>2. Asked = {} /\ Given = {} /\ 1..Len(to_scheduler) = {}
  <2>1. Len(to_client) = 0 /\ Len(to_scheduler) = 0 /\ 1..0 = {}
    BY ONLY <1>1
  <2> QED
    BY <2>1 DEF Asked, Given, Positions
<1>3. OneProbe /\ NoProbe
  BY <1>1, <1>2 DEF OneProbe, NoProbe, AtMostOne, ProbeSent, ProbeHeld, LiveAsked
<1> QED
  BY <1>1, <1>2, <1>3, MessagesType DEF Probes, LiveWaits, AnswerParts

\* The invariant is kept.
LEMMA ProbesStep == IInv /\ Probes /\ [Next]_vars => Probes'
BY OneProbeStep, AnswerPartsStep, LiveWaitsStep DEF Probes

\* What it says of the answers.
LEMMA ProbesAnswers == IInv /\ Probes => AnswersMatch
<1> SUFFICES ASSUME IInv, Probes, alive, ~ sched.probing
             PROVE  /\ \A i \in DOMAIN to_scheduler : to_scheduler[i].msg \notin {"live", "error"}
                    /\ live.pc \notin {"stat", "send"}
  BY DEF AnswersMatch
<1>1. NoProbe /\ AnswerParts /\ to_scheduler \in Seq(ToScheduler)
  BY DEF Probes, IInv, TypeOK, StreamsOK
<1>2. live.pc \notin {"stat", "send"} /\ Given = {}
  BY <1>1 DEF NoProbe, LiveAsked
<1>3. ASSUME NEW i \in DOMAIN to_scheduler PROVE to_scheduler[i].msg \notin {"live", "error"}
  <2>1. i \in 1..Len(to_scheduler) /\ to_scheduler[i] \in ToScheduler
    BY <1>1, <1>3
  <2>2. to_scheduler[i].part \in {"len", "data"}
    BY <2>1 DEF ToScheduler
  <2> QED
    BY <1>1, <1>2, <2>1, <2>2 DEF AnswerParts, Given, Positions, LiveAnswers
<1> QED
  BY <1>2, <1>3

\* An answer of a container to a probe is never taken for the answer to another one, in
\* any world, with any updates, probes, losses and late timeouts: when the scheduler
\* waits for the end of the training, no answer is under way and none will be sent.
THEOREM AnswersBelong == Spec => []AnswersMatch
<1>1. Init => IInv /\ Probes
  BY InitIInv, InitProbes
<1>2. IInv /\ Probes /\ [Next]_vars => (IInv /\ Probes)'
  BY StepIInv, ProbesStep
<1>3. IInv /\ Probes => AnswersMatch
  BY ProbesAnswers
<1> QED
  BY <1>1, <1>2, <1>3, PTL DEF Spec

----------------------------------------------------------------------------
(* A training that runs is kept.                                            *)

\* The world is fixed.
LEMMA WorldStep == [Next]_vars => world' = world
<1> SUFFICES ASSUME [Next]_vars PROVE world' = world
  OBVIOUS
<1>1. CASE SchedulerThread \/ Timeout
  BY <1>1 DEF SchedulerThread, SendFirst, SendProbe, SendAck, Read, Remove, EndOfStream, Timeout
<1>2. CASE SendUpdate \/ MainThread
  BY <1>2 DEF SendUpdate, MainThread, MainStart, Handler, MainEnd
<1>3. CASE SocketThread \/ UpdateThread
  BY <1>3 DEF SocketThread, SockRead, SockInter, SockIntra, SockWake, UpdateThread, UpdTest, UpdWait, UpdTake, UpdProgress
<1>4. CASE LiveThread \/ Training \/ Crash \/ UNCHANGED vars
  BY <1>4 DEF LiveThread, LiveTest, LiveWait, LiveAnswer, Training, Crash, vars
<1> QED
  BY <1>1, <1>2, <1>3, <1>4 DEF Next

\* What a read does to the thread that reads: it fails, goes on to the removal, or to
\* the next part of a message.
LEMMA ReadCases ==
    ASSUME IInv, Read
    PROVE  /\ to_scheduler # <<>> /\ to_scheduler' = Tail(to_scheduler)
           /\ sched.pc \in {"len", "data", "garbled"} /\ Head(to_scheduler) \in ToScheduler
           /\ \/ /\ sched.probing /\ sched.pc = "data" /\ Head(to_scheduler).part = "data"
                 /\ Head(to_scheduler).msg # "live"
                 /\ sched'.pc = "failed" /\ sched'.probing = FALSE /\ alive' = FALSE
              \/ /\ sched.pc = "data" /\ Head(to_scheduler).part = "data"
                 /\ sched'.pc \in {"remove", "len"} /\ sched'.probing = FALSE /\ alive' = alive
              \/ /\ sched'.pc = (IF Head(to_scheduler).part = "len"
                                 THEN IF sched.pc = "len" THEN "data" ELSE IF sched.probing THEN "dead" ELSE "garbled"
                                 ELSE "garbled")
                 /\ ~ (sched.pc = "data" /\ Head(to_scheduler).part = "data")
                 /\ sched'.probing = sched.probing /\ alive' = alive
<1> DEFINE head == Head(to_scheduler)
<1>1. /\ to_scheduler # <<>> /\ to_scheduler' = Tail(to_scheduler) /\ sched.pc \in {"len", "data", "garbled"}
      /\ sched \in ClientThread
  BY DEF Read, IInv, TypeOK, SchedulerOK
<1>2. head \in ToScheduler
  BY <1>1, HeadAndTail DEF IInv, TypeOK, StreamsOK
<1>3. CASE head.part = "data" /\ sched.pc = "data"
  <2>1. Received(head.msg)
    BY <1>3 DEF Read
  <2> HIDE DEF head
  <2>2. CASE sched.probing /\ ~ Answers(head.msg)
    BY <1>1, <1>2, <1>3, <2>1, <2>2 DEF Received, Fail, Answers, ClientThread, head
  <2>3. CASE ~ (sched.probing /\ ~ Answers(head.msg))
    <3> DEFINE next == IF ~ sched.probing /\ head.msg = "exit" /\ ~ world.no_epochs
                       THEN "remove" ELSE "len"
    <3>1. sched' = [pc |-> next, msg |-> head.msg, probing |-> FALSE] /\ alive' = alive
      BY <2>1, <2>3 DEF Received
    <3>2. next \in {"remove", "len"}
      OBVIOUS
    <3> HIDE DEF next
    <3>3. sched'.pc \in {"remove", "len"} /\ sched'.probing = FALSE
      BY <3>1, <3>2
    <3> QED
      BY <1>1, <1>2, <1>3, <3>1, <3>3 DEF head
  <2> QED
    BY <2>2, <2>3
<1>4. CASE ~ (head.part = "data" /\ sched.pc = "data")
  <2> DEFINE raises == head.part = "len" /\ sched.pc # "len"
             next == CASE raises /\ sched.probing -> "dead"
                       [] head.part = "len" /\ ~ raises -> "data"
                       [] OTHER -> "garbled"
  <2>1. sched' = [sched EXCEPT !.pc = next] /\ alive' = alive
    BY <1>4 DEF Read
  <2>2. next = (IF head.part = "len"
                THEN IF sched.pc = "len" THEN "data" ELSE IF sched.probing THEN "dead" ELSE "garbled"
                ELSE "garbled")
    <3>1. CASE head.part = "len" /\ sched.pc = "len"
      BY <3>1
    <3>2. CASE head.part = "len" /\ sched.pc # "len" /\ sched.probing
      BY <3>2
    <3>3. CASE head.part = "len" /\ sched.pc # "len" /\ ~ sched.probing
      BY <3>3
    <3>4. CASE head.part # "len"
      BY <3>4
    <3> QED
      BY <3>1, <3>2, <3>3, <3>4
  <2> HIDE DEF next
  <2>3. sched'.pc = next /\ sched'.probing = sched.probing
    BY <1>1, <2>1 DEF ClientThread
  <2> QED
    BY <1>1, <1>2, <1>4, <2>1, <2>2, <2>3 DEF head
<1> QED
  BY <1>3, <1>4

\* Nothing ends before the training does.
LEMMA RunsOnStep == IInv /\ Probes /\ RunsOn /\ [Next]_vars => RunsOn'
<1> SUFFICES ASSUME IInv, Probes, RunsOn, [Next]_vars PROVE RunsOn'
  OBVIOUS
<1>0. /\ sched \in ClientThread /\ main \in Main /\ live \in Live /\ upd \in Update
      /\ finalize \in BOOLEAN /\ world' = world /\ train \in {"off", "running", "hung", "ended"}
  BY WorldStep DEF IInv, TypeOK, SchedulerOK, ThreadsOK, FlagsOK
<1>1. CASE SendFirst
  <2>1. sched.pc \in {"first1", "first2"} /\ sched'.pc \in {"first2", "len"} /\ sched'.probing = sched.probing
        /\ UNCHANGED <<listed, alive, train, main, live, upd, finalize>>
    BY <1>0, <1>1 DEF SendFirst, SchedSend, ClientThread, threads, flags
  <2> QED
    BY <1>0, <2>1 DEF RunsOn, Starting
<1>2. CASE SendProbe
  <2>1. sched.pc \in {"probe1", "probe2"} /\ sched'.pc \in {"probe2", "len"} /\ sched'.probing = sched.probing
        /\ UNCHANGED <<listed, alive, train, main, live, upd, finalize>>
    BY <1>0, <1>2 DEF SendProbe, SchedSend, ClientThread, threads, flags
  <2> QED
    BY <1>0, <2>1 DEF RunsOn, Starting
<1>3. CASE SendAck
  <2>1. sched.pc \in {"ack1", "ack2"} /\ sched'.pc \in {"ack2", "done"} /\ sched'.probing = sched.probing
        /\ UNCHANGED <<listed, alive, train, main, live, upd, finalize>>
    BY <1>0, <1>3 DEF SendAck, SchedSend, ClientThread, threads, flags
  <2> QED
    BY <1>0, <2>1 DEF RunsOn, Starting
<1>4. CASE Read
  <2>1. /\ sched.pc \in {"len", "data", "garbled"} /\ (sched'.probing => sched.probing)
        /\ (sched'.pc = "failed" /\ alive' = FALSE) \/ (sched'.pc # "failed" /\ alive' = alive)
    BY <1>4, ReadCases
  <2>2. UNCHANGED <<listed, train, main, live, upd, finalize>>
    BY <1>4 DEF Read, threads, flags
  <2> QED
    BY <1>0, <2>1, <2>2 DEF RunsOn, Starting
<1>5. CASE Remove \/ EndOfStream
  <2>1. /\ sched'.probing = sched.probing
        /\ \/ sched'.pc = "ack1" /\ sched.pc = "remove"
           \/ sched'.pc \in {"spin", "dead"} /\ sched.pc \in {"len", "data", "garbled"} /\ listed' = listed
              /\ (sched'.pc = "dead" => sched.probing)
        /\ UNCHANGED <<alive, train, main, live, upd, finalize>>
    BY <1>0, <1>5 DEF Remove, EndOfStream, ClientThread, threads, flags
  <2> QED
    BY <1>0, <2>1 DEF RunsOn, Starting
<1>6. CASE Timeout
  <2>1. /\ UNCHANGED <<listed, train, main, live, upd, finalize>>
        /\ sched.pc \in {"len", "data", "garbled"} /\ alive
    BY <1>6 DEF Timeout, threads, flags
  <2>2. \/ sched'.pc \in {"spin", "failed"} /\ sched'.probing = FALSE /\ alive' = FALSE
        \/ sched'.pc = "probe1" /\ alive' = alive /\ (world.prompt => main.pc = "join")
    BY <1>0, <1>6 DEF Timeout, NoAnswer, Fail, Quiet, ClientThread
  <2> QED
    BY <1>0, <2>1, <2>2 DEF RunsOn, Starting
<1>7. CASE MainStart
  <2>1. UNCHANGED <<sched, listed, alive, finalize>> /\ alive
    BY <1>7 DEF MainStart, scheduler, flags
  <2>2. CASE main.pc = "first"
    BY <1>0, <1>7, <2>1, <2>2 DEF MainStart, RunsOn, Starting, Main
  <2>3. CASE main.pc \in {"init1", "init2"}
    BY <1>0, <1>7, <2>1, <2>3 DEF MainStart, RunsOn, Starting, Main
  <2>4. CASE main.pc = "start"
    <3>1. main'.pc = "join" /\ main'.handled = main.handled /\ train' = train
          /\ live'.pc = "test" /\ upd'.pc # "done"
      BY <1>0, <1>7, <2>4 DEF MainStart, Main, Live, Update
    <3> QED
      BY <1>0, <2>1, <2>4, <3>1 DEF RunsOn, Starting
  <2> QED
    BY <1>7, <2>2, <2>3, <2>4 DEF MainStart
<1>8. CASE Handler
  <2>1. UNCHANGED <<sched, listed, alive, train, live, upd>> /\ ~ Starting /\ ~ Starting'
    BY <1>0, <1>8 DEF Handler, scheduler, Starting, Main
  <2>2. train \notin {"off", "running"} /\ main'.pc # "first" /\ main'.pc # "closed"
    BY <1>0, <1>8 DEF Handler, RunsOn, Main
  <2> QED
    BY <1>0, <2>1, <2>2 DEF RunsOn
<1>9. CASE MainEnd
  <2>1. UNCHANGED <<sched, listed, alive, train, live, upd, finalize>> /\ upd.pc = "done" /\ main'.pc = "closed"
    BY <1>0, <1>9 DEF MainEnd, scheduler, flags, Main
  <2> QED
    BY <1>0, <2>1 DEF RunsOn, Starting
<1>10. CASE Training
  <2>1. UNCHANGED <<sched, listed, alive, main, live, upd, finalize>> /\ train' \in {"ended", "hung"} /\ main.pc = "join"
    BY <1>10 DEF Training, scheduler, threads, flags
  <2> QED
    BY <1>0, <2>1 DEF RunsOn, Starting
<1>11. CASE Crash
  <2>1. UNCHANGED <<sched, listed, train, main, live, upd, finalize>> /\ world.crashes /\ ~ alive'
    BY <1>11 DEF Crash, scheduler, threads, flags
  <2> QED
    BY <1>0, <2>1 DEF RunsOn, Starting
<1>12. CASE SockWake \/ LiveTest \/ LiveAnswer \/ UpdTest
  <2>1. UNCHANGED <<sched, listed, alive, train, main, finalize>>
    BY <1>12 DEF SockWake, LiveTest, LiveAnswer, UpdTest, scheduler, flags
  <2>2. (live'.pc = "done" => live.pc = "done" \/ finalize) /\ (upd'.pc = "done" => upd.pc = "done" \/ finalize)
    <3>1. CASE SockWake
      BY <1>0, <3>1 DEF SockWake, NotifyLive, Live
    <3>2. CASE LiveTest
      BY <1>0, <3>2 DEF LiveTest, Live, threads
    <3>4. CASE LiveAnswer
      <4>1. CASE live.pc = "stat"
        BY <3>4, <4>1 DEF LiveAnswer
      <4>2. CASE live.pc = "send"
        <5>1. live' = [pc |-> "test", msg |-> ""]
          BY <3>4, <4>2 DEF LiveAnswer
        <5>2. upd' = upd
          BY <3>4 DEF LiveAnswer
        <5> QED
          BY <5>1, <5>2
      <4> QED
        BY <3>4, <4>1, <4>2 DEF LiveAnswer
    <3>3. CASE UpdTest
      BY <1>0, <3>3 DEF UpdTest, NotifyLive, Live, Update
    <3> QED
      BY <1>12, <3>1, <3>2, <3>3, <3>4
  <2> QED
    BY <1>0, <2>1, <2>2 DEF RunsOn, Starting
<1>13. CASE UpdWait \/ UpdTake \/ UpdProgress
  <2>1. UNCHANGED <<sched, listed, alive, train, main, live, finalize>>
    BY <1>13 DEF UpdWait, UpdTake, UpdProgress, scheduler, flags
  <2>2. upd'.pc # "done"
    <3>1. CASE UpdWait
      BY <1>0, <3>1 DEF UpdWait, Update
    <3>2. CASE UpdTake
      BY <1>0, <3>2 DEF UpdTake, Update
    <3>3. CASE UpdProgress
      BY <1>0, <3>3 DEF UpdProgress, Update
    <3> QED
      BY <1>13, <3>1, <3>2, <3>3
  <2> QED
    BY <1>0, <2>1, <2>2 DEF RunsOn, Starting
<1>14. CASE SendUpdate \/ SockRead \/ SockInter \/ SockIntra \/ LiveWait \/ UNCHANGED vars
  <2>1. UNCHANGED <<sched, listed, alive, train, main, live, upd, finalize>>
    BY <1>14 DEF SendUpdate, SockRead, SockInter, SockIntra, LiveWait, vars, scheduler, threads, flags
  <2> QED
    BY <1>0, <2>1 DEF RunsOn, Starting
<1> QED
  BY <1>1, <1>2, <1>3, <1>4, <1>5, <1>6, <1>7, <1>8, <1>9, <1>10, <1>11, <1>12, <1>13, <1>14
     DEF Next, SchedulerThread, SocketThread, UpdateThread, LiveThread, MainThread

\* Adding to a sequence of one.
LEMMA SecondPart ==
    ASSUME NEW S, NEW a \in S, NEW b \in S
    PROVE  Append(<<a>>, b) = <<a, b>>
<1> DEFINE t == Append(<<a>>, b)
           u == <<a, b>>
<1>1. t \in Seq(S) /\ Len(t) = 2 /\ t[1] = a /\ t[2] = b
  OBVIOUS
<1>2. u \in Seq(S) /\ Len(u) = 2 /\ u[1] = a /\ u[2] = b
  OBVIOUS
<1> HIDE DEF t, u
<1>3. \A i \in 1..2 : i = 1 \/ i = 2
  OBVIOUS
<1>4. Len(t) = Len(u) /\ \A i \in 1..Len(t) : t[i] = u[i]
  BY <1>1, <1>2, <1>3
<1>5. t = u
  BY ONLY <1>1, <1>2, <1>4, SeqEqual
<1> QED
  BY <1>5 DEF t, u

\* Nothing of a container that is down moves.
LEMMA DownStays == [Next]_vars /\ ~ alive => UNCHANGED <<train, sock>>
<1> SUFFICES ASSUME [Next]_vars, ~ alive PROVE UNCHANGED <<train, sock>>
  OBVIOUS
<1>1. CASE SchedulerThread \/ Timeout
  BY <1>1 DEF SchedulerThread, SendFirst, SendProbe, SendAck, Read, Remove, EndOfStream, Timeout, threads
<1>2. CASE SendUpdate \/ Crash \/ UNCHANGED vars
  BY <1>2 DEF SendUpdate, Crash, vars, threads
<1>3. CASE MainThread \/ SocketThread \/ UpdateThread \/ LiveThread \/ Training
  BY <1>3 DEF MainThread, MainStart, Handler, MainEnd, SocketThread, SockRead, SockInter, SockIntra, SockWake,
     UpdateThread, UpdTest, UpdWait, UpdTake, UpdProgress, LiveThread, LiveTest, LiveWait, LiveAnswer, Training
<1> QED
  BY <1>1, <1>2, <1>3 DEF Next

\* The probe of a training that runs goes on, and comes back as the answer live.
LEMMA ProbeKeptStep == IInv /\ Probes /\ Lives /\ [Next]_vars => ProbeKept'
<1> SUFFICES ASSUME IInv, Probes, Lives, [Next]_vars,
                    alive', world'.prompt, ~ world'.crashes, train' = "running", sched'.probing,
                    sock'.pc # "dead"
             PROVE  (main.pc = "join" /\ OnItsWay)'
  BY DEF ProbeKept
<1>0. /\ sched \in ClientThread /\ main \in Main /\ live \in Live /\ upd \in Update /\ sock \in Socket
      /\ to_client \in Seq(ToClient) /\ to_scheduler \in Seq(ToScheduler)
      /\ finalize \in BOOLEAN /\ world' = world /\ alive /\ alive \in BOOLEAN
      /\ world.prompt /\ ~ world.crashes
      /\ RunsOn /\ OneProbe /\ LiveWaits /\ AnswerParts
  BY WorldStep, AliveStep DEF IInv, TypeOK, StreamsOK, SchedulerOK, ThreadsOK, FlagsOK, Probes, Lives
<1>1. CASE Timeout
  <2>1. /\ sched.probing = FALSE /\ sched'.pc = "probe1" /\ Quiet /\ to_scheduler = <<>>
    <3>1. alive' = FALSE \/ (~ sched.probing /\ sched' = [sched EXCEPT !.pc = "probe1", !.probing = TRUE])
      BY <1>1 DEF Timeout, NoAnswer, Fail
    <3> QED
      BY <1>0, <1>1, <3>1 DEF Timeout, ClientThread
  <2>2. UNCHANGED <<to_scheduler, train, main, live, waiting>>
    BY <1>1 DEF Timeout, streams, threads, flags
  <2>3. waiting /\ live.pc = "wait" /\ main.pc = "join"
    <3>1. live.pc # "done"
      BY <1>0, <2>2 DEF RunsOn
    <3> QED
      BY <1>0, <2>1, <3>1 DEF Quiet, LiveWaits
  <2> QED
    BY <2>1, <2>2, <2>3 DEF OnItsWay, ProbeSent
<1>2. CASE ~ Timeout
  <2>1. sched.probing
    <3>1. CASE Read
      BY <3>1, ReadCases
    <3>2. CASE SendFirst \/ SendProbe \/ SendAck \/ Remove \/ EndOfStream
      BY <1>0, <3>2 DEF SendFirst, SendProbe, SendAck, SchedSend, Remove, EndOfStream, ClientThread
    <3>3. CASE \/ SendUpdate \/ MainThread \/ SocketThread \/ UpdateThread \/ LiveThread \/ Training \/ Crash
               \/ UNCHANGED vars
      <4>1. sched' = sched
        BY <3>3 DEF SendUpdate, MainThread, MainStart, Handler, MainEnd, SocketThread, SockRead, SockInter, SockIntra,
           SockWake, UpdateThread, UpdTest, UpdWait, UpdTake, UpdProgress, LiveThread, LiveTest, LiveWait, LiveAnswer,
           Training, Crash, vars, scheduler
      <4> QED
        BY <4>1
    <3> QED
      BY <1>2, <3>1, <3>2, <3>3 DEF Next, SchedulerThread
  <2>2. ~ Starting
    BY <1>0, <2>1 DEF RunsOn
  <2>3. train = "running" /\ sock.pc # "dead"
    <3>1. CASE SchedulerThread \/ SendUpdate \/ Crash \/ UNCHANGED vars
      BY <3>1 DEF SchedulerThread, SendFirst, SendProbe, SendAck, Read, Remove, EndOfStream, SendUpdate, Crash,
         vars, threads
    <3>2. CASE MainThread
      BY <2>2, <3>2 DEF MainThread, MainStart, Handler, MainEnd, Starting
    <3>3. CASE SocketThread
      BY <3>3 DEF SocketThread, SockRead, SockInter, SockIntra, SockWake
    <3>4. CASE UpdateThread \/ LiveThread \/ Training
      BY <3>4 DEF UpdateThread, UpdTest, UpdWait, UpdTake, UpdProgress, LiveThread, LiveTest, LiveWait, LiveAnswer,
         Training, threads
    <3> QED
      BY <1>2, <3>1, <3>2, <3>3, <3>4 DEF Next
  <2>4. main.pc = "join" /\ OnItsWay
    BY <1>0, <2>1, <2>3 DEF Lives, ProbeKept
  <2>5. sched.pc \in {"probe1", "probe2", "len", "data"} /\ ~ finalize /\ upd.pc # "done" /\ live.pc # "done"
    BY <1>0, <2>3, <2>4 DEF OnItsWay, ProbeSent, RunsOn
  <2>6. CASE SendFirst \/ SendAck \/ Remove
    BY <2>5, <2>6 DEF SendFirst, SendAck, SchedSend, Remove
  <2>7. CASE SendProbe
    <3>1. UNCHANGED <<to_scheduler, main, live, waiting>> /\ ProbeSent
      BY <2>7 DEF SendProbe, SchedSend, threads, flags, ProbeSent
    <3>2. to_scheduler = <<>> /\ waiting /\ live.pc = "wait"
      BY <2>4, <3>1 DEF OnItsWay, ProbeSent
    <3>3. CASE sched.pc = "probe1"
      <4>1. sched'.pc = "probe2"
        BY <1>0, <2>7, <3>3 DEF SendProbe, SchedSend, ClientThread
      <4> QED
        BY <2>4, <3>1, <3>2, <4>1 DEF OnItsWay, ProbeSent
    <3>4. CASE sched.pc = "probe2"
      <4>1. sched'.pc = "len" /\ to_client' = Part(to_client, "data", Probe)
        BY <1>0, <2>7, <3>4 DEF SendProbe, SchedSend, ClientThread
      <4>2. Positions(Part(to_client, "data", Probe), {Probe}) = Positions(to_client, {Probe}) \cup {Len(to_client) + 1}
        BY ONLY <1>0, PositionsPart
      <4>3. Asked' # {}
        BY <4>1, <4>2 DEF Asked
      <4> QED
        BY <2>4, <3>1, <3>2, <4>1, <4>3 DEF OnItsWay
    <3> QED
      BY <3>1, <3>3, <3>4 DEF ProbeSent
  <2>8. CASE Read
    <3>1. UNCHANGED <<main, live>>
      BY <2>8 DEF Read, threads
    <3>2. /\ to_scheduler # <<>> /\ to_scheduler' = Tail(to_scheduler)
          /\ ~ (sched.pc = "data" /\ Head(to_scheduler).part = "data")
          /\ Head(to_scheduler).part = "len" /\ sched.pc = "len" => sched'.pc = "data"
      BY <2>8, ReadCases
    <3>3. CASE /\ live.pc = "send" /\ live.msg = "live" /\ sched.pc = "len"
               /\ to_scheduler = <<[part |-> "len", msg |-> "live"]>>
      <4>1. Head(to_scheduler).part = "len" /\ Tail(to_scheduler) = <<>>
        BY ONLY <3>3
      <4> QED
        BY <2>4, <3>1, <3>2, <3>3, <4>1 DEF OnItsWay
    <3>4. CASE /\ sched.pc = "len"
               /\ to_scheduler = <<[part |-> "len", msg |-> "live"], [part |-> "data", msg |-> "live"]>>
      <4>1. Head(to_scheduler).part = "len" /\ Tail(to_scheduler) = <<[part |-> "data", msg |-> "live"]>>
        BY ONLY <3>4
      <4> QED
        BY <2>4, <3>1, <3>2, <3>4, <4>1 DEF OnItsWay
    <3>5. CASE sched.pc = "data" /\ to_scheduler = <<[part |-> "data", msg |-> "live"]>>
      <4>1. Head(to_scheduler).part = "data"
        BY ONLY <3>5
      <4> QED
        BY <3>2, <3>5, <4>1
    <3> QED
      BY <2>4, <3>2, <3>3, <3>4, <3>5 DEF OnItsWay
  <2>9. CASE EndOfStream
    BY <1>0, <2>4, <2>9 DEF EndOfStream
  <2>10. CASE SendUpdate
    <3>1. UNCHANGED <<sched, to_scheduler, main, live, waiting, sock>>
      BY <2>10 DEF SendUpdate, threads, flags
    <3>2. Asked # {} => Asked' # {}
      <4>1. PICK part, msg : to_client' = Part(to_client, part, msg)
        BY <2>10 DEF SendUpdate
      <4>2. Positions(to_client, {Probe}) \subseteq Positions(Part(to_client, part, msg), {Probe})
        BY ONLY <1>0, PositionsPart
      <4> QED
        BY <4>1, <4>2 DEF Asked
    <3> QED
      BY <2>4, <3>1, <3>2 DEF OnItsWay, ProbeSent, ProbeHeld
  <2>11. CASE MainThread
    BY <1>0, <2>3, <2>4, <2>5, <2>11 DEF MainThread, MainStart, Handler, MainEnd
  <2>12. CASE SockRead
    <3> DEFINE head == Head(to_client)
    <3>1. /\ to_client # <<>> /\ to_client' = Tail(to_client) /\ head \in ToClient
          /\ UNCHANGED <<sched, to_scheduler, main, live, waiting>> /\ sock.pc \in {"len", "data"}
      BY <1>0, <2>12, HeadAndTail DEF SockRead, scheduler, flags
    <3>2. ~ ProbeHeld
      BY <3>1 DEF ProbeHeld
    <3>3. Asked # {} => Asked' # {} \/ ProbeHeld'
      <4>1. CASE head.part = "data" /\ head.msg = Probe
        <5>1. sock'.pc = "inter" /\ sock'.msg = Probe
          BY <2>12, <3>1, <4>1 DEF SockRead
        <5> QED
          BY <5>1 DEF ProbeHeld
      <4>2. CASE ~ (head.part = "data" /\ head.msg = Probe)
        <5>1. 1 \notin Asked /\ \A i \in Asked : i # 1 => i - 1 \in Asked'
          <6>1. head.msg \notin {Probe} \/ head.part # "data"
            BY <4>2
          <6> QED
            BY ONLY <1>0, <3>1, <6>1, PositionsTail DEF Asked
        <5> QED
          BY <5>1
      <4> QED
        BY <4>1, <4>2
    <3> QED
      BY <2>4, <3>1, <3>2, <3>3 DEF OnItsWay, ProbeSent
  <2>13. CASE SockInter \/ SockIntra
    <3>1. UNCHANGED <<sched, to_client, to_scheduler, main, live, waiting>>
      BY <2>13 DEF SockInter, SockIntra, streams, scheduler, flags
    <3>2. ProbeHeld' = ProbeHeld
      BY <1>0, <2>13 DEF SockInter, SockIntra, ProbeHeld, Socket
    <3> QED
      BY <2>4, <3>1, <3>2 DEF OnItsWay, ProbeSent, Asked
  <2>14. CASE SockWake
    <3>1. UNCHANGED <<sched, to_client, to_scheduler, main>>
      BY <2>14 DEF SockWake, streams, scheduler
    <3>2. CASE sock.msg = Probe
      <4>1. ProbeHeld
        BY <2>14, <3>2 DEF SockWake, ProbeHeld
      <4>2. ~ ProbeSent /\ ~ LiveAsked /\ Given = {}
        BY <1>0, <4>1 DEF OneProbe
      <4>3. live.pc \notin {"woken", "stat", "send"}
        BY <2>5, <4>2 DEF LiveAsked
      <4>4. to_scheduler # <<[part |-> "len", msg |-> "live"], [part |-> "data", msg |-> "live"]>>
        <5> SUFFICES ASSUME to_scheduler = <<[part |-> "len", msg |-> "live"], [part |-> "data", msg |-> "live"]>>
                     PROVE  FALSE
          OBVIOUS
        <5>1. 2 \in 1..Len(to_scheduler) /\ to_scheduler[2] = [part |-> "data", msg |-> "live"]
          OBVIOUS
        <5>2. 2 \in Given
          BY <5>1 DEF Given, Positions, LiveAnswers
        <5> QED
          BY <4>2, <5>2
      <4>5. to_scheduler # <<[part |-> "data", msg |-> "live"]>>
        <5> SUFFICES ASSUME to_scheduler = <<[part |-> "data", msg |-> "live"]>> PROVE FALSE
          OBVIOUS
        <5>1. 1 \in 1..Len(to_scheduler) /\ to_scheduler[1] = [part |-> "data", msg |-> "live"]
          OBVIOUS
        <5>2. 1 \in Given
          BY <5>1 DEF Given, Positions, LiveAnswers
        <5> QED
          BY <4>2, <5>2
      <4>6. sched.pc = "len" /\ waiting /\ to_scheduler = <<>>
        BY <2>4, <4>2, <4>3, <4>4, <4>5 DEF OnItsWay
      <4>7. live'.pc = "woken"
        BY <1>0, <2>14, <3>2, <4>6 DEF SockWake, NotifyLive, Live
      <4> QED
        BY <2>4, <3>1, <4>6, <4>7 DEF OnItsWay
    <3>3. CASE sock.msg # Probe
      <4>1. UNCHANGED <<live, waiting>> /\ ~ ProbeHeld
        BY <2>14, <3>3 DEF SockWake, ProbeHeld
      <4> QED
        BY <2>4, <3>1, <4>1 DEF OnItsWay, ProbeSent, Asked
    <3> QED
      BY <3>2, <3>3
  <2>15. CASE UpdateThread
    <3>1. UNCHANGED <<sched, to_client, to_scheduler, main, sock>>
      BY <2>15 DEF UpdateThread, UpdTest, UpdWait, UpdTake, UpdProgress, streams, scheduler
    <3>2. UNCHANGED <<live, waiting>>
      BY <2>5, <2>15 DEF UpdateThread, UpdTest, UpdWait, UpdTake, UpdProgress, flags
    <3> QED
      BY <2>4, <3>1, <3>2 DEF OnItsWay, ProbeSent, ProbeHeld, Asked
  <2>16. CASE LiveTest
    <3>1. UNCHANGED <<sched, to_client, to_scheduler, main, sock, waiting>> /\ live.pc \in {"test", "woken"}
      BY <2>16 DEF LiveTest, streams, scheduler, flags
    <3>2. live.pc = "woken" => live'.pc = "stat"
      BY <1>0, <2>5, <2>16 DEF LiveTest, Live
    <3> QED
      BY <2>4, <3>1, <3>2 DEF OnItsWay, ProbeSent, ProbeHeld, Asked
  <2>17. CASE LiveWait
    <3>1. UNCHANGED <<sched, to_scheduler, main, live>> /\ live.pc = "wait" /\ ~ waiting
      BY <2>17 DEF LiveWait, streams, scheduler, threads
    <3> QED
      BY <2>4, <3>1 DEF OnItsWay
  <2>18. CASE LiveAnswer
    <3>1. UNCHANGED <<sched, main>> /\ live.pc \in {"stat", "send"} /\ LiveAsked
      BY <2>18 DEF LiveAnswer, scheduler, LiveAsked
    <3>2. Given = {}
      BY <1>0, <3>1 DEF OneProbe
    <3>3. to_scheduler # <<[part |-> "len", msg |-> "live"], [part |-> "data", msg |-> "live"]>>
      <5> SUFFICES ASSUME to_scheduler = <<[part |-> "len", msg |-> "live"], [part |-> "data", msg |-> "live"]>>
                   PROVE  FALSE
        OBVIOUS
      <5>1. 2 \in 1..Len(to_scheduler) /\ to_scheduler[2] = [part |-> "data", msg |-> "live"]
        OBVIOUS
      <5>2. 2 \in Given
        BY <5>1 DEF Given, Positions, LiveAnswers
      <5> QED
        BY <3>2, <5>2
    <3>4. to_scheduler # <<[part |-> "data", msg |-> "live"]>>
      <5> SUFFICES ASSUME to_scheduler = <<[part |-> "data", msg |-> "live"]>> PROVE FALSE
        OBVIOUS
      <5>1. 1 \in 1..Len(to_scheduler) /\ to_scheduler[1] = [part |-> "data", msg |-> "live"]
        OBVIOUS
      <5>2. 1 \in Given
        BY <5>1 DEF Given, Positions, LiveAnswers
      <5> QED
        BY <3>2, <5>2
    <3>5. CASE live.pc = "stat"
      <4>1. sched.pc = "len" /\ to_scheduler = <<>>
        BY <2>4, <3>3, <3>4, <3>5 DEF OnItsWay
      <4>2. live' = [pc |-> "send", msg |-> "live"] /\ to_scheduler' = Part(to_scheduler, "len", live'.msg)
        BY <2>3, <2>18, <3>5 DEF LiveAnswer
      <4>3. to_scheduler' = <<[part |-> "len", msg |-> "live"]>>
        BY <4>1, <4>2 DEF Part
      <4> QED
        BY <2>4, <3>1, <4>1, <4>2, <4>3 DEF OnItsWay
    <3>6. CASE live.pc = "send"
      <4>1. live.msg = "live" /\ \/ sched.pc = "len" /\ to_scheduler = <<[part |-> "len", msg |-> "live"]>>
                                 \/ sched.pc = "data" /\ to_scheduler = <<>>
        BY <2>4, <3>3, <3>4, <3>6 DEF OnItsWay
      <4>2. to_scheduler' = Part(to_scheduler, "data", live.msg)
        BY <2>18, <3>6 DEF LiveAnswer
      <4>3. CASE to_scheduler = <<>>
        <5>1. to_scheduler' = <<[part |-> "data", msg |-> "live"]>>
          BY <4>1, <4>2, <4>3 DEF Part
        <5>2. sched.pc = "data"
          BY <4>1, <4>3
        <5> QED
          BY <2>4, <3>1, <5>1, <5>2 DEF OnItsWay
      <4>4. CASE sched.pc = "len" /\ to_scheduler = <<[part |-> "len", msg |-> "live"]>>
        <5>1. to_scheduler' = <<[part |-> "len", msg |-> "live"], [part |-> "data", msg |-> "live"]>>
          <6> DEFINE a == [part |-> "len", msg |-> "live"]
                     b == [part |-> "data", msg |-> "live"]
          <6>1. a \in {a, b} /\ b \in {a, b}
            OBVIOUS
          <6>2. to_scheduler = <<a>> /\ to_scheduler' = Append(to_scheduler, b)
            BY <4>1, <4>2, <4>4 DEF Part
          <6> HIDE DEF a, b
          <6>3. Append(<<a>>, b) = <<a, b>>
            BY <6>1, SecondPart
          <6>4. to_scheduler' = <<a, b>>
            BY <6>2, <6>3
          <6> QED
            BY <6>4 DEF a, b
        <5> QED
          BY <2>4, <3>1, <4>4, <5>1 DEF OnItsWay
      <4> QED
        BY <4>1, <4>3, <4>4
    <3> QED
      BY <3>1, <3>5, <3>6
  <2>19. CASE Training \/ Crash
    BY <1>0, <2>19 DEF Training, Crash
  <2>20. CASE UNCHANGED vars
    BY <2>4, <2>20 DEF vars, streams, scheduler, threads, flags, OnItsWay, ProbeSent, ProbeHeld, Asked
  <2> QED
    BY <1>2, <2>6, <2>7, <2>8, <2>9, <2>10, <2>11, <2>12, <2>13, <2>14, <2>15, <2>16, <2>17, <2>18, <2>19, <2>20
       DEF Next, SchedulerThread, SocketThread, LiveThread
<1> QED
  BY <1>1, <1>2

\* A container is given up only when nothing is on its way.
LEMMA LiveKeptStep == IInv /\ Probes /\ Lives /\ [Next]_vars => LiveKept'
<1> SUFFICES ASSUME IInv, Probes, Lives, [Next]_vars, world'.prompt, ~ world'.crashes, sched'.pc = "failed",
                    train' = "running", sock'.pc # "dead"
             PROVE  FALSE
  BY DEF LiveKept
<1>0. /\ sched \in ClientThread /\ world' = world /\ alive \in BOOLEAN
      /\ world.prompt /\ ~ world.crashes /\ RunsOn /\ LiveKept /\ LiveWaits
  BY WorldStep DEF IInv, TypeOK, SchedulerOK, Probes, Lives
<1>1. CASE sched.pc = "failed"
  <2>1. UNCHANGED <<train, sock>>
    BY <1>0, <1>1, DownStays DEF RunsOn
  <2> QED
    BY <1>0, <1>1, <2>1 DEF LiveKept
<1>2. CASE sched.pc # "failed"
  <2>1. CASE Read
    <3>1. /\ sched.probing /\ sched.pc = "data" /\ Head(to_scheduler).part = "data"
          /\ Head(to_scheduler).msg # "live" /\ to_scheduler # <<>>
      BY <2>1, ReadCases
    <3>2. alive /\ UNCHANGED <<train, sock>>
      BY <1>0, <2>1, <3>1 DEF RunsOn, Read, threads
    <3>3. OnItsWay
      BY <1>0, <3>1, <3>2 DEF Lives, ProbeKept
    <3>4. to_scheduler = <<[part |-> "data", msg |-> "live"]>>
      BY <3>1, <3>3 DEF OnItsWay, ProbeSent
    <3>5. Head(to_scheduler).msg = "live"
      BY ONLY <3>4
    <3> QED
      BY <3>1, <3>5
  <2>2. CASE Timeout
    <3>1. /\ UNCHANGED <<train, sock>> /\ alive /\ to_scheduler = <<>> /\ Quiet
          /\ sched.pc \in {"len", "data", "garbled"}
      BY <1>0, <2>2 DEF Timeout, threads
    <3>2. sched.probing
      BY <1>0, <1>2, <2>2 DEF Timeout, NoAnswer, Fail, ClientThread
    <3>3. OnItsWay /\ main.pc = "join"
      BY <1>0, <3>1, <3>2 DEF Lives, ProbeKept
    <3>4. live.pc = "wait"
      BY <1>0, <3>1 DEF Quiet, RunsOn, LiveWaits
    <3>5. sched.pc = "len" /\ (Asked # {} \/ ProbeHeld)
      BY <3>1, <3>3, <3>4 DEF OnItsWay, ProbeSent
    <3>6. sock.pc # "done"
      BY <1>0, <3>5 DEF IInv, RemovedFirst, RunsOn
    <3>7. to_client = <<>> /\ sock.pc = "len"
      BY <3>1, <3>6 DEF Quiet
    <3>8. Asked = {}
      <4>1. Len(to_client) = 0 /\ 1..0 = {}
        BY ONLY <3>7
      <4> QED
        BY <4>1 DEF Asked, Positions
    <3> QED
      BY <3>5, <3>7, <3>8 DEF ProbeHeld
  <2>3. CASE SendFirst \/ SendProbe \/ SendAck \/ Remove \/ EndOfStream
    BY <1>0, <2>3 DEF SendFirst, SendProbe, SendAck, SchedSend, Remove, EndOfStream, ClientThread
  <2>4. CASE \/ SendUpdate \/ MainThread \/ SocketThread \/ UpdateThread \/ LiveThread \/ Training \/ Crash
             \/ UNCHANGED vars
    <3>1. sched' = sched
      BY <2>4 DEF SendUpdate, MainThread, MainStart, Handler, MainEnd, SocketThread, SockRead, SockInter, SockIntra,
         SockWake, UpdateThread, UpdTest, UpdWait, UpdTake, UpdProgress, LiveThread, LiveTest, LiveWait, LiveAnswer,
         Training, Crash, vars, scheduler
    <3> QED
      BY <1>2, <3>1
  <2> QED
    BY <2>1, <2>2, <2>3, <2>4 DEF Next, SchedulerThread
<1> QED
  BY <1>1, <1>2

\* A training that runs, in a world where a timeout means that nothing more was going to
\* come, is never stopped and restarted, however many probes and updates cross: unless
\* the parts of two messages were mixed and the socket thread of the container has died.
THEOREM LivesKept == Spec => []LiveKept
<1>1. Init => IInv /\ Probes /\ Lives
  <2>1. Init => Lives
    <3> SUFFICES ASSUME Init PROVE Lives
      OBVIOUS
    <3>1. /\ sched = [pc |-> "first1", msg |-> "", probing |-> FALSE] /\ alive = TRUE /\ listed = TRUE
          /\ train = "off" /\ main = [pc |-> "first", handled |-> FALSE] /\ finalize = FALSE
          /\ live.pc = "off" /\ upd.pc = "off"
      BY DEF Init
    <3> QED
      BY <3>1 DEF Lives, RunsOn, Starting, ProbeKept, LiveKept
  <2> QED
    BY <2>1, InitIInv, InitProbes
<1>2. IInv /\ Probes /\ Lives /\ [Next]_vars => (IInv /\ Probes /\ Lives)'
  BY StepIInv, ProbesStep, RunsOnStep, ProbeKeptStep, LiveKeptStep DEF Lives
<1>3. IInv /\ Probes /\ Lives => LiveKept
  BY DEF Lives
<1> QED
  BY <1>1, <1>2, <1>3, PTL DEF Spec

----------------------------------------------------------------------------
(* The newest update wins.                                                  *)

\* The fields of a message, of the file and of the record by their names.
LEMMA FieldsOfKinds ==
    /\ \A m \in Messages : m["inter"] = m.inter /\ m["intra"] = m.intra
    /\ \A m \in Messages : \A kind \in Kinds : m[kind] \in Int
    /\ \A m \in {Ack, Probe, Start} : \A kind \in Kinds : m[kind] < 0
    /\ \A p \in Parallelism : p["inter"] = p.inter /\ p["intra"] = p.intra
<1>1. \A m \in Messages : m.inter \in Int /\ m.intra \in Int
  BY MessagesType
<1>2. \A m : m["inter"] = m.inter /\ m["intra"] = m.intra
  OBVIOUS
<1>3. \A m \in {Ack, Probe, Start} : m.inter < 0 /\ m.intra < 0
  BY DEF Ack, Probe, Start
<1> QED
  BY <1>1, <1>2, <1>3 DEF Kinds

\* An update that does not ask for this kind of threads changes nothing for it.
LEMMA NewestSame ==
    ASSUME NEW S, NEW s \in Seq(S), NEW part, NEW msg, NEW kind, NEW granted, NEW applied,
           ~ (part = "data" /\ msg \in Asking(kind)), Newest(s, kind, granted, applied)
    PROVE  Newest(Part(s, part, msg), kind, granted, applied)
<1> DEFINE t == Part(s, part, msg)
<1>1. Positions(t, Asking(kind)) = Positions(s, Asking(kind))
  BY PositionsPart
<1>2. \A i \in 1..Len(s) : t[i] = s[i]
  BY DEF Part
<1>3. \A i \in Positions(s, Asking(kind)) : t[i] = s[i]
  BY <1>2 DEF Positions
<1> HIDE DEF t
<1> QED
  BY <1>1, <1>3 DEF Newest, t

\* One that asks for it is the newest.
LEMMA NewestAdded ==
    ASSUME NEW S, NEW s \in Seq(S), NEW kind, NEW msg \in Asking(kind), NEW applied
    PROVE  Newest(Part(s, "data", msg), kind, msg[kind], applied)
<1> DEFINE t == Part(s, "data", msg)
           P == Positions(t, Asking(kind))
<1>1. P = Positions(s, Asking(kind)) \cup {Len(s) + 1}
  BY PositionsPart
<1>2. Len(s) \in Nat /\ Positions(s, Asking(kind)) \subseteq 1..Len(s) /\ t[Len(s) + 1].msg = msg
  BY DEF Part, Positions
<1> HIDE DEF t, P
<1>3. \A i \in P : (\A j \in P : j <= i) => i = Len(s) + 1
  <2> SUFFICES ASSUME NEW i \in P, \A j \in P : j <= i PROVE i = Len(s) + 1
    OBVIOUS
  <2>1. Len(s) + 1 \in P
    BY <1>1
  <2>2. Len(s) + 1 <= i
    BY <2>1
  <2>3. i \in 1..Len(s) \/ i = Len(s) + 1
    BY <1>1, <1>2
  <2> QED
    BY <1>2, <2>2, <2>3
<1> QED
  BY <1>1, <1>2, <1>3 DEF Newest, P, t

\* What is read is applied next.
LEMMA NewestRead ==
    ASSUME NEW S, NEW s \in Seq(S), s # <<>>, NEW kind, NEW granted, NEW applied,
           Newest(s, kind, granted, applied)
    PROVE  LET head == Head(s)
           IN  Newest(Tail(s), kind, granted,
                      IF head.part = "data" /\ head.msg \in Asking(kind) THEN head.msg[kind] ELSE applied)
<1> DEFINE head == Head(s)
           t == Tail(s)
           M == Asking(kind)
           P == Positions(s, M)
           T == Positions(t, M)
<1>1. /\ \A i \in T : i \in Nat /\ i + 1 \in P
      /\ \A i \in P : i \in Nat /\ (i # 1 => i - 1 \in T)
      /\ 1 \in P <=> head.part = "data" /\ head.msg \in M
  BY PositionsTail
<1>2. /\ \A i \in 1..Len(t) : t[i] = s[i + 1]
      /\ head = s[1]
  OBVIOUS
<1>3. \A i \in T : i \in 1..Len(t) /\ t[i] = s[i + 1]
  BY <1>2 DEF Positions
<1>4. /\ P = {} => granted = applied
      /\ \A i \in P : (\A j \in P : j <= i) => granted = s[i].msg[kind]
  BY DEF Newest
<1>5. \A i \in P : i \in Nat /\ i >= 1
  <2>1. P \subseteq 1..Len(s) /\ Len(s) \in Nat
    BY DEF Positions
  <2> QED
    BY <2>1
<1> HIDE DEF head, t, M, P, T
<1>6. ASSUME T = {}, 1 \in P PROVE granted = head.msg[kind]
  <2>1. \A j \in P : j <= 1
    BY <1>1, <1>6
  <2> QED
    BY <1>2, <1>4, <1>6, <2>1
<1>7. ASSUME T = {}, 1 \notin P PROVE granted = applied
  BY <1>1, <1>4, <1>7
<1>8. ASSUME NEW i \in T, \A j \in T : j <= i PROVE granted = t[i].msg[kind]
  <2>1. i \in Nat /\ i + 1 \in P
    BY <1>1
  <2>2. \A j \in P : j <= i + 1
    BY <1>1, <1>5, <1>8, <2>1
  <2> QED
    BY <1>3, <1>4, <2>1, <2>2
<1> QED
  BY <1>1, <1>6, <1>7, <1>8 DEF Newest, head, t, M, P, T

\* A change of the threads goes on from what the file says to what was asked for.
LEMMA ChangeKeptStep == IInv /\ world.malleable /\ ChangeKept /\ [Next]_vars => ChangeKept'
<1> SUFFICES ASSUME IInv, world.malleable, ChangeKept, [Next]_vars PROVE ChangeKept'
  OBVIOUS
<1>0. /\ main \in Main /\ upd \in Update /\ sock \in Socket /\ file \in Parallelism
      /\ file["inter"] = file.inter /\ file["intra"] = file.intra
      /\ First["inter"] = First.inter /\ First["intra"] = First.intra
      /\ inter_up \in Nat /\ intra_up \in Nat
      /\ Starting => upd.pc = "off" /\ upd.kind = "start" /\ sock.pc = "off"
  BY FieldsOfKinds DEF IInv, TypeOK, ThreadsOK, FlagsOK, SemaphoreCounts, Starting
<1>1. CASE MainStart
  <2>1. UNCHANGED <<inter_up, intra_up>> /\ Starting
    BY <1>1 DEF MainStart, Starting
  <2>2. CASE main.pc = "first"
    <3>1. UNCHANGED <<upd, sock>> /\ main'.pc \in {"init1", "closed"}
          /\ (main'.pc = "init1" => file' = [inter |-> First.inter, intra |-> CoresCpu])
      BY <1>0, <1>1, <2>2 DEF MainStart, Main
    <3> QED
      BY <1>0, <2>1, <3>1 DEF ChangeKept, Starting
  <2>3. CASE main.pc \in {"init1", "init2"}
    <3>1. UNCHANGED <<upd, sock, file>> /\ main'.pc \in {"init2", "start"}
      BY <1>0, <1>1, <2>3 DEF MainStart, Main
    <3> QED
      BY <1>0, <2>1, <2>3, <3>1 DEF ChangeKept, Starting
  <2>4. CASE main.pc = "start"
    <3>1. file' = file /\ main'.pc = "join" /\ upd'.pc = "progress" /\ upd'.kind = "start"
          /\ upd'.old = file.intra /\ upd'.new = First.intra
      BY <1>0, <1>1, <2>1, <2>4 DEF MainStart, Main, Update
    <3> QED
      BY <1>0, <3>1 DEF ChangeKept, Starting, Kinds
  <2> QED
    BY <1>1, <2>2, <2>3, <2>4 DEF MainStart
<1>2. CASE Handler
  <2>1. UNCHANGED <<upd, sock, file, inter_up, intra_up>> /\ main'.pc \in {"exit2", "finalize", "join"}
    BY <1>0, <1>2 DEF Handler, Main, updates
  <2> QED
    BY <2>1 DEF ChangeKept, Up, Starting
<1>3. CASE MainEnd
  <2>1. UNCHANGED <<upd, sock, file, inter_up, intra_up>> /\ main'.pc = "closed" /\ sock.pc \in {"done", "dead"}
    BY <1>0, <1>3 DEF MainEnd, Main, updates
  <2> QED
    BY <2>1 DEF ChangeKept, Up, Starting
<1>4. CASE SockRead \/ SockWake
  <2>1. UNCHANGED <<upd, main, file, inter_up, intra_up>> /\ sock.pc \in {"len", "data", "wake"}
    BY <1>4 DEF SockRead, SockWake, updates
  <2> QED
    BY <2>1 DEF ChangeKept, Up, Starting
<1>5. CASE SockInter \/ SockIntra
  <2>1. UNCHANGED <<upd, main, file>> /\ sock.pc \in {"inter", "intra"}
        /\ (upd.kind = "inter" => inter_up' = inter_up) /\ (upd.kind = "intra" => intra_up' = intra_up)
    BY <1>5 DEF SockInter, SockIntra
  <2>2. ~ Starting /\ ~ Starting'
    BY <1>0, <2>1 DEF Starting
  <2> QED
    BY <2>1, <2>2 DEF ChangeKept, Up, Kinds
<1>6. CASE UpdTest \/ UpdWait
  <2>1. UNCHANGED <<main, sock, file, inter_up, intra_up>> /\ upd.pc \in {"test", "wait"} /\ upd'.kind = upd.kind
        /\ upd'.pc # "progress"
    BY <1>0, <1>6 DEF UpdTest, UpdWait, Update, updates
  <2> QED
    BY <1>0, <2>1 DEF ChangeKept, Starting
<1>7. CASE UpdTake
  <2> DEFINE new == IF upd.pc = "inter" THEN inter_up ELSE intra_up
  <2>1. UNCHANGED <<main, sock, file, inter_up, intra_up>> /\ upd.pc \in {"inter", "intra"} /\ upd.kind = "none"
    BY <1>7 DEF UpdTake, updates, ChangeKept
  <2>2. CASE new = 0
    <3>1. upd'.kind = "none" /\ upd'.pc # "progress"
      BY <1>0, <1>7, <2>1, <2>2 DEF UpdTake, Update
    <3> QED
      BY <1>0, <2>1, <3>1 DEF ChangeKept, Starting
  <2>3. CASE new # 0
    <3>1. upd' = [pc |-> "progress", kind |-> upd.pc, old |-> file[upd.pc], new |-> new]
      BY <1>7, <2>3 DEF UpdTake
    <3>2. /\ upd.pc = "inter" => new = Up("inter")'
          /\ upd.pc = "intra" => new = Up("intra")'
      BY <2>1 DEF Up
    <3> HIDE DEF new
    <3>3. upd'.pc = "progress" /\ upd'.kind = upd.pc /\ upd'.old = file[upd.pc] /\ upd'.new = new
      BY <3>1
    <3>4. \A kind \in Kinds : upd'.pc = "progress" /\ upd'.kind = kind =>
             upd'.old = file'[kind] /\ upd'.new = Up(kind)' /\ upd'.new # 0
      BY <2>1, <2>3, <3>2, <3>3 DEF Kinds
    <3> QED
      BY <1>0, <2>1, <3>3, <3>4 DEF ChangeKept, Starting
  <2> QED
    BY <2>2, <2>3
<1>8. CASE UpdProgress
  <2>1. UNCHANGED <<main, sock>> /\ upd.pc = "progress" /\ upd.kind \in {"start", "inter", "intra"}
    BY <1>0, <1>8 DEF UpdProgress, IInv, SemaphoreCounts, Update
  <2>2. ~ Starting /\ ~ Starting'
    BY <1>0, <2>1 DEF Starting
  <2>3. CASE upd.old # upd.new
    <3> DEFINE n == NextThreads(upd.old, upd.new)
    <3>1. upd' = [upd EXCEPT !.old = n] /\ file' = Written(n) /\ UNCHANGED <<inter_up, intra_up>>
      BY <1>8, <2>3 DEF UpdProgress
    <3> HIDE DEF n
    <3>2. upd'.pc = upd.pc /\ upd'.kind = upd.kind /\ upd'.old = n /\ upd'.new = upd.new
      BY <1>0, <3>1 DEF Update
    <3>3. /\ upd.kind = "inter" => file'["inter"] = n
          /\ upd.kind # "inter" => file'["intra"] = n
      BY <1>0, <3>1 DEF Written, Parallelism
    <3> QED
      BY <2>1, <2>2, <3>1, <3>2, <3>3 DEF ChangeKept, Up, Kinds, Starting
  <2>4. CASE upd.old = upd.new
    <3>1. upd'.pc \in {"intra", "test"} /\ upd'.kind = "none"
      BY <1>8, <2>4 DEF UpdProgress
    <3> QED
      BY <2>1, <2>2, <3>1 DEF ChangeKept, Starting
  <2> QED
    BY <2>3, <2>4
<1>9. CASE \/ SchedulerThread \/ Timeout \/ SendUpdate \/ LiveThread \/ Training \/ Crash \/ UNCHANGED vars
  <2>1. UNCHANGED <<upd, main, sock, file, inter_up, intra_up>>
    BY <1>9 DEF SchedulerThread, SendFirst, SendProbe, SendAck, Read, Remove, EndOfStream, Timeout, SendUpdate,
       LiveThread, LiveTest, LiveWait, LiveAnswer, Training, Crash, vars, threads, updates
  <2> QED
    BY <2>1 DEF ChangeKept, Up, Starting
<1> QED
  BY <1>1, <1>2, <1>3, <1>4, <1>5, <1>6, <1>7, <1>8, <1>9
     DEF Next, SocketThread, UpdateThread, MainThread

\* The newest of the updates stays what the record says, whether it is under way, in
\* the hands of the socket thread, waiting for the update thread, or applied by halves.
LEMMA LastWinsStep ==
    ASSUME IInv, world.malleable, ChangeKept, [Next]_vars, NEW kind \in Kinds,
           sock.pc # "dead" /\ main.pc # "closed" => LastWins(kind),
           sock'.pc # "dead", main'.pc # "closed"
    PROVE  LastWins(kind)'
<1>0. /\ main \in Main /\ upd \in Update /\ sock \in Socket /\ file \in Parallelism
      /\ last \in Parallelism /\ to_client \in Seq(ToClient) /\ att.msg \in Messages
      /\ file["inter"] = file.inter /\ file["intra"] = file.intra
      /\ last["inter"] = last.inter /\ last["intra"] = last.intra
      /\ First["inter"] = First.inter /\ First["intra"] = First.intra
      /\ inter_up \in Nat /\ intra_up \in Nat /\ sock.msg \in Messages /\ sock.msg[kind] \in Int
      /\ sock.msg["inter"] = sock.msg.inter /\ sock.msg["intra"] = sock.msg.intra
      /\ Starting => upd.pc = "off" /\ upd.kind = "start" /\ sock.pc = "off"
      /\ upd.pc = "progress" => upd.kind \in {"start", "inter", "intra"}
  <2>1. /\ main \in Main /\ upd \in Update /\ sock \in Socket /\ file \in Parallelism
        /\ last \in Parallelism /\ to_client \in Seq(ToClient) /\ att \in AttentionThread
        /\ inter_up \in Nat /\ intra_up \in Nat /\ SemaphoreCounts
    BY DEF IInv, TypeOK, StreamsOK, SchedulerOK, ThreadsOK, FlagsOK
  <2>2. sock.msg \in Messages /\ att.msg \in Messages
    BY <2>1 DEF Socket, AttentionThread
  <2> QED
    BY <2>1, <2>2, FieldsOfKinds DEF SemaphoreCounts, Starting, Update
<1>1. sock.pc # "dead" /\ main.pc # "closed"
  <2>1. CASE MainThread
    BY <1>0, <2>1 DEF MainThread, MainStart, Handler, MainEnd, Starting
  <2>2. CASE SocketThread
    BY <2>2 DEF SocketThread, SockRead, SockInter, SockIntra, SockWake
  <2>3. CASE \/ SchedulerThread \/ Timeout \/ SendUpdate \/ UpdateThread \/ LiveThread \/ Training \/ Crash
             \/ UNCHANGED vars
    <3>1. UNCHANGED <<sock, main>>
      BY <2>3 DEF SchedulerThread, SendFirst, SendProbe, SendAck, Read, Remove, EndOfStream, Timeout, SendUpdate,
         UpdateThread, UpdTest, UpdWait, UpdTake, UpdProgress,
         LiveThread, LiveTest, LiveWait, LiveAnswer, Training, Crash, vars, threads
    <3> QED
      BY <3>1
  <2> QED
    BY <2>1, <2>2, <2>3 DEF Next
<1>2. Newest(to_client, kind, last[kind], Applied(kind))
  BY <1>1 DEF LastWins
<1>3. SUFFICES Newest(to_client', kind, last'[kind], Applied(kind)')
  BY DEF LastWins
<1>4. ASSUME to_client' = to_client, last' = last, Applied(kind)' = Applied(kind)
      PROVE  Newest(to_client', kind, last'[kind], Applied(kind)')
  BY <1>2, <1>4
<1>5. ASSUME UNCHANGED <<main, upd, sock, file, inter_up, intra_up>> PROVE Applied(kind)' = Applied(kind)
  BY <1>5 DEF Applied, InHand, Target, Up, Starting, FirstChange
<1>6. CASE SendFirst \/ SendProbe \/ SendAck
  <2>1. UNCHANGED <<main, upd, sock, file, inter_up, intra_up, last>>
    BY <1>6 DEF SendFirst, SendProbe, SendAck, threads, updates
  <2>2. \E msg \in {Start, Probe, Ack} : to_client' \in {Part(to_client, "len", msg), Part(to_client, "data", msg)}
    <3>1. CASE SendFirst
      BY <3>1 DEF SendFirst, SchedSend
    <3>2. CASE SendProbe
      BY <3>2 DEF SendProbe, SchedSend
    <3>3. CASE SendAck
      BY <3>3 DEF SendAck, SchedSend
    <3> QED
      BY <1>6, <3>1, <3>2, <3>3
  <2>3. PICK msg \in {Start, Probe, Ack} :
           to_client' = Part(to_client, "len", msg) \/ to_client' = Part(to_client, "data", msg)
    BY <2>2
  <2>4. msg \notin Asking(kind)
    <3>1. msg[kind] < 0 /\ msg[kind] \in Int
      BY FieldsOfKinds, MessagesType
    <3> QED
      BY <3>1 DEF Asking
  <2>5. Newest(to_client', kind, last[kind], Applied(kind))
    BY ONLY <1>0, <1>2, <2>3, <2>4, NewestSame
  <2> QED
    BY <1>5, <2>1, <2>5
<1>7. CASE SendUpdate
  <2>1. UNCHANGED <<main, upd, sock, file, inter_up, intra_up>>
    BY <1>7 DEF SendUpdate, threads, updates
  <2>2. CASE att.pc = "idle"
    <3>1. PICK u : to_client' = Part(to_client, "len", u) /\ last' = last
      BY <1>7, <2>2 DEF SendUpdate
    <3>2. Newest(to_client', kind, last[kind], Applied(kind))
      BY ONLY <1>0, <1>2, <3>1, NewestSame
    <3> QED
      BY <1>5, <2>1, <3>1, <3>2
  <2>3. CASE att.pc = "data"
    <3> DEFINE u == att.msg
    <3>1. /\ to_client' = Part(to_client, "data", u)
          /\ last' = [inter |-> IF u.inter > 0 THEN u.inter ELSE last.inter,
                      intra |-> IF u.intra > 0 THEN u.intra ELSE last.intra]
      BY <1>7, <2>3 DEF SendUpdate
    <3>2. u \in Messages /\ u["inter"] = u.inter /\ u["intra"] = u.intra /\ u[kind] \in Int
      BY <1>0, FieldsOfKinds
    <3> HIDE DEF u
    <3>3. last'[kind] = IF u[kind] > 0 THEN u[kind] ELSE last[kind]
      <4>1. CASE kind = "inter"
        BY <1>0, <3>1, <3>2, <4>1
      <4>2. CASE kind = "intra"
        BY <1>0, <3>1, <3>2, <4>2
      <4> QED
        BY <4>1, <4>2 DEF Kinds
    <3>4. CASE u \in Asking(kind)
      <4>1. Newest(to_client', kind, u[kind], Applied(kind)')
        BY ONLY <1>0, <3>1, <3>4, NewestAdded
      <4> QED
        BY <3>3, <3>4, <4>1 DEF Asking
    <3>5. CASE u \notin Asking(kind)
      <4>1. Newest(to_client', kind, last[kind], Applied(kind))
        BY ONLY <1>0, <1>2, <3>1, <3>5, NewestSame
      <4> QED
        BY <1>5, <2>1, <3>2, <3>3, <3>5, <4>1 DEF Asking
    <3> QED
      BY <3>4, <3>5
  <2> QED
    BY <1>7, <2>2, <2>3 DEF SendUpdate
<1>8. CASE MainStart
  <2>1. UNCHANGED <<last, inter_up, intra_up>> /\ Starting
    BY <1>8 DEF MainStart, scheduler, Starting
  <2>2. ~ InHand(kind) /\ Up(kind) = 0 /\ Up(kind)' = 0
    BY <1>0, <2>1 DEF InHand, Up, ChangeKept
  <2>3. Applied(kind) = First[kind]
    BY <2>1, <2>2 DEF Applied, Target
  <2>4. CASE main.pc = "first"
    <3>1. /\ main'.pc = "init1" /\ sock' = sock /\ Len(to_client) > 1 /\ to_client' = Tail(Tail(to_client))
          /\ SubSeq(to_client, 1, 2) = Part(Part(<<>>, "len", Start), "data", Start)
      BY <1>0, <1>8, <2>4 DEF MainStart, Main
    <3>2. Applied(kind)' = First[kind]
      <4>1. Starting'
        BY <3>1 DEF Starting
      <4>2. ~ InHand(kind)'
        BY <2>2, <3>1 DEF InHand
      <4> QED
        BY <2>2, <4>1, <4>2 DEF Applied, Target
    <3>3. to_client[1] = [part |-> "len", msg |-> Start] /\ to_client[2] = [part |-> "data", msg |-> Start]
      <4> DEFINE a == [part |-> "len", msg |-> Start]
                 b == [part |-> "data", msg |-> Start]
                 two == SubSeq(to_client, 1, 2)
      <4>1. Part(Part(<<>>, "len", Start), "data", Start) = <<a, b>>
        <5>1. Part(<<>>, "len", Start) = <<a>>
          BY DEF Part
        <5>2. Append(<<a>>, b) = <<a, b>>
          <6>1. a \in {a, b} /\ b \in {a, b}
            OBVIOUS
          <6> HIDE DEF a, b
          <6> QED
            BY <6>1, SecondPart
        <5> QED
          BY <5>1, <5>2 DEF Part
      <4>2. two[1] = to_client[1] /\ two[2] = to_client[2]
        BY <1>0, <3>1
      <4> HIDE DEF a, b, two
      <4>3. two = <<a, b>>
        BY <3>1, <4>1 DEF two
      <4>4. two[1] = a /\ two[2] = b
        BY ONLY <4>3
      <4> QED
        BY <4>2, <4>4 DEF a, b
    <3> DEFINE t == Tail(to_client)
    <3>4. /\ to_client # <<>> /\ t # <<>> /\ t \in Seq(ToClient)
          /\ Head(to_client) = to_client[1] /\ Head(t) = to_client[2]
      <4>1. t \in Seq(ToClient) /\ Len(t) > 0 /\ t[1] = to_client[2] /\ to_client # <<>> /\ Head(to_client) = to_client[1]
        BY <1>0, <3>1
      <4> HIDE DEF t
      <4>2. t # <<>>
        BY <4>1
      <4>3. Head(t) = t[1]
        BY <4>1, <4>2
      <4> QED
        BY <4>1, <4>2, <4>3
    <3>5. Start \notin Asking(kind)
      <4>1. Start[kind] < 0 /\ Start[kind] \in Int
        BY FieldsOfKinds, MessagesType
      <4> QED
        BY <4>1 DEF Asking
    <3>6. ~ (Head(to_client).part = "data" /\ Head(to_client).msg \in Asking(kind))
          /\ ~ (Head(t).part = "data" /\ Head(t).msg \in Asking(kind))
      BY <3>3, <3>4, <3>5
    <3> HIDE DEF t
    <3>7. Newest(t, kind, last[kind], Applied(kind))
      BY ONLY <1>0, <1>2, <3>4, <3>6, NewestRead DEF t
    <3>8. Newest(Tail(t), kind, last[kind], Applied(kind))
      BY ONLY <3>4, <3>6, <3>7, NewestRead
    <3> QED
      BY <2>1, <2>3, <3>1, <3>2, <3>8 DEF t
  <2>5. CASE main.pc \in {"init1", "init2"}
    <3>1. UNCHANGED <<to_client, sock>> /\ Starting'
      BY <1>0, <1>8, <2>5 DEF MainStart, Main, Starting
    <3>2. Applied(kind)' = First[kind]
      <4>1. ~ InHand(kind)'
        BY <2>2, <3>1 DEF InHand
      <4> QED
        BY <2>2, <3>1, <4>1 DEF Applied, Target
    <3> QED
      BY <1>4, <2>1, <2>3, <3>1, <3>2
  <2>6. CASE main.pc = "start"
    <3>1. to_client' = to_client /\ file' = file /\ sock'.pc = "len" /\ main'.pc = "join"
          /\ upd'.pc = "progress" /\ upd'.kind = "start"
      <4>1. /\ to_client' = to_client /\ file' = file /\ sock' = [sock EXCEPT !.pc = "len"]
            /\ main' = [main EXCEPT !.pc = "join"]
            /\ upd' = [upd EXCEPT !.pc = "progress", !.old = file.intra, !.new = First.intra]
        BY <1>8, <2>6 DEF MainStart, streams
      <4>2. upd.kind = "start"
        BY <1>0, <2>1
      <4> QED
        BY <1>0, <4>1, <4>2 DEF Main, Update, Socket
    <3>2. ~ InHand(kind)' /\ ~ Starting' /\ (FirstChange(kind)' <=> kind = "intra")
      BY <3>1 DEF InHand, Starting, FirstChange
    <3>3. Applied(kind)' = First[kind]
      BY <2>2, <2>6, <3>1, <3>2 DEF Applied, Target, ChangeKept, Kinds
    <3> QED
      BY <1>4, <2>1, <2>3, <3>1, <3>3
  <2> QED
    BY <1>8, <2>4, <2>5, <2>6 DEF MainStart
<1>9. CASE Handler \/ MainEnd
  <2>1. UNCHANGED <<to_client, last, upd, sock, file, inter_up, intra_up>> /\ ~ Starting /\ ~ Starting'
    BY <1>0, <1>9 DEF Handler, MainEnd, Main, Starting, streams, scheduler, updates
  <2>2. Applied(kind)' = Applied(kind)
    BY <2>1 DEF Applied, InHand, Target, Up, FirstChange
  <2> QED
    BY <1>4, <2>1, <2>2
<1>10. CASE SockRead
  <2> DEFINE head == Head(to_client)
  <2>1. /\ to_client # <<>> /\ to_client' = Tail(to_client) /\ head \in ToClient
        /\ UNCHANGED <<last, main, upd, file, inter_up, intra_up>> /\ sock.pc \in {"len", "data"}
    BY <1>0, <1>10, HeadAndTail DEF SockRead, scheduler, updates
  <2>2. ~ InHand(kind) /\ Target(kind)' = Target(kind)
    BY <2>1 DEF InHand, Target, Up, FirstChange, Starting
  <2>3. Newest(to_client', kind, last[kind],
               IF head.part = "data" /\ head.msg \in Asking(kind) THEN head.msg[kind] ELSE Applied(kind))
    BY ONLY <1>0, <1>2, <2>1, NewestRead
  <2>4. /\ sock'.msg = head.msg
        /\ \/ head.part = "len" /\ sock'.pc = "data"
           \/ head.part = "data" /\ sock'.pc = "inter"
    BY <1>10, <2>1 DEF SockRead, ToClient
  <2>5. head.msg \in Messages
    BY <2>1 DEF ToClient
  <2> HIDE DEF head
  <2>6. Applied(kind)' = IF head.part = "data" /\ head.msg \in Asking(kind) THEN head.msg[kind] ELSE Applied(kind)
    <3>1. CASE head.part = "len"
      <4>1. ~ InHand(kind)'
        BY <2>4, <3>1 DEF InHand
      <4> QED
        BY <2>2, <3>1, <4>1 DEF Applied
    <3>2. CASE head.part = "data"
      <4>1. InHand(kind)' <=> head.msg \in Asking(kind)
        BY <2>4, <2>5, <3>2 DEF InHand, Asking
      <4> QED
        BY <2>2, <2>4, <3>2, <4>1 DEF Applied
    <3> QED
      BY <2>4, <3>1, <3>2
  <2> QED
    BY <2>1, <2>3, <2>6
<1>11. CASE SockInter
  <2>1. /\ UNCHANGED <<to_client, last, main, upd, file, intra_up>>
        /\ sock.pc = "inter" /\ sock'.pc = "intra" /\ sock'.msg = sock.msg
        /\ inter_up' = IF sock.msg.inter > 0 THEN sock.msg.inter ELSE inter_up
    BY <1>0, <1>11 DEF SockInter, Socket, streams, scheduler
  <2>2. CASE kind = "intra"
    BY <1>4, <2>1, <2>2 DEF Applied, InHand, Target, Up, FirstChange, Starting
  <2>3. CASE kind = "inter"
    <3>1. ~ InHand(kind)' /\ (InHand(kind) <=> sock.msg.inter > 0)
      BY <1>0, <2>1, <2>3 DEF InHand
    <3>2. Up(kind)' = IF sock.msg.inter > 0 THEN sock.msg.inter ELSE Up(kind)
      BY <2>1, <2>3 DEF Up
    <3>3. CASE sock.msg.inter > 0
      BY <1>0, <1>4, <2>1, <2>3, <3>1, <3>2, <3>3 DEF Applied, Target
    <3>4. CASE ~ (sock.msg.inter > 0)
      BY <1>4, <2>1, <3>1, <3>2, <3>4 DEF Applied, Target, Starting, FirstChange
    <3> QED
      BY <3>3, <3>4
  <2> QED
    BY <2>2, <2>3 DEF Kinds
<1>12. CASE SockIntra
  <2>1. /\ UNCHANGED <<to_client, last, main, upd, file, inter_up>>
        /\ sock.pc = "intra" /\ sock'.pc = "wake" /\ sock'.msg = sock.msg
        /\ intra_up' = IF sock.msg.intra > 0 THEN sock.msg.intra ELSE intra_up
    BY <1>0, <1>12 DEF SockIntra, Socket, streams, scheduler
  <2>2. CASE kind = "inter"
    BY <1>4, <2>1, <2>2 DEF Applied, InHand, Target, Up, FirstChange, Starting
  <2>3. CASE kind = "intra"
    <3>1. ~ InHand(kind)' /\ (InHand(kind) <=> sock.msg.intra > 0)
      BY <1>0, <2>1, <2>3 DEF InHand
    <3>2. Up(kind)' = IF sock.msg.intra > 0 THEN sock.msg.intra ELSE Up(kind)
      BY <2>1, <2>3 DEF Up
    <3>3. CASE sock.msg.intra > 0
      BY <1>0, <1>4, <2>1, <2>3, <3>1, <3>2, <3>3 DEF Applied, Target
    <3>4. CASE ~ (sock.msg.intra > 0)
      BY <1>4, <2>1, <3>1, <3>2, <3>4 DEF Applied, Target, Starting, FirstChange
    <3> QED
      BY <3>3, <3>4
  <2> QED
    BY <2>2, <2>3 DEF Kinds
<1>13. CASE SockWake
  <2>1. /\ UNCHANGED <<to_client, last, main, upd, file, inter_up, intra_up>>
        /\ sock.pc = "wake" /\ sock'.pc \in {"done", "len"}
    BY <1>0, <1>13 DEF SockWake, Socket, streams, scheduler, updates
  <2>2. ~ InHand(kind) /\ ~ InHand(kind)' /\ Target(kind)' = Target(kind)
    BY <2>1 DEF InHand, Target, Up, FirstChange, Starting
  <2> QED
    BY <1>4, <2>1, <2>2 DEF Applied
<1>14. CASE UpdTest \/ UpdWait \/ UpdTake
  <2>1. /\ UNCHANGED <<to_client, last, main, sock, file, inter_up, intra_up>>
        /\ upd.pc \in {"test", "wait", "inter", "intra"}
    BY <1>14 DEF UpdTest, UpdWait, UpdTake, streams, scheduler, updates
  <2>2. upd'.pc # "progress" \/ upd'.kind # "start"
    <3>1. CASE UpdTest \/ UpdWait
      BY <1>0, <3>1 DEF UpdTest, UpdWait, Update
    <3>2. CASE UpdTake
      <4> DEFINE new == IF upd.pc = "inter" THEN inter_up ELSE intra_up
      <4>1. CASE new = 0
        BY <1>0, <3>2, <4>1 DEF UpdTake, Update
      <4>2. CASE new # 0
        <5>1. upd'.kind = upd.pc
          BY <3>2, <4>2 DEF UpdTake
        <5> QED
          BY <2>1, <5>1
      <4> QED
        BY <4>1, <4>2
    <3> QED
      BY <1>14, <3>1, <3>2
  <2>3. ~ FirstChange(kind) /\ ~ FirstChange(kind)'
    BY <2>1, <2>2 DEF FirstChange
  <2> QED
    BY <1>4, <2>1, <2>3 DEF Applied, InHand, Target, Up, Starting
<1>15. CASE UpdProgress
  <2>1. UNCHANGED <<to_client, last, main, sock>> /\ upd.pc = "progress"
        /\ (upd.kind = "start" \/ upd.kind = "inter" \/ upd.kind = "intra")
    BY <1>0, <1>15 DEF UpdProgress, streams, scheduler
  <2>2. ~ Starting /\ ~ Starting'
    BY <1>0, <2>1 DEF Starting
  <2>3. InHand(kind)' = InHand(kind)
    BY <2>1 DEF InHand
  <2>4. Target(kind)' = Target(kind)
    <3>1. CASE upd.old # upd.new
      <4> DEFINE n == NextThreads(upd.old, upd.new)
      <4>1. upd' = [upd EXCEPT !.old = n] /\ file' = Written(n) /\ UNCHANGED <<inter_up, intra_up>>
        BY <1>15, <3>1 DEF UpdProgress
      <4> HIDE DEF n
      <4>2. upd'.pc = upd.pc /\ upd'.kind = upd.kind
        BY <1>0, <4>1 DEF Update
      <4>3. Up(kind)' = Up(kind) /\ FirstChange(kind)' = FirstChange(kind)
        BY <4>1, <4>2 DEF Up, FirstChange
      <4>4. Up(kind) # 0 \/ FirstChange(kind) \/ file'[kind] = file[kind]
        <5>1. CASE upd.kind = kind
          BY <2>1, <5>1 DEF ChangeKept
        <5>2. CASE upd.kind = "start" /\ kind = "intra"
          BY <2>1, <5>2 DEF FirstChange
        <5>3. CASE kind = "inter" /\ upd.kind # "inter"
          BY <1>0, <4>1, <5>3 DEF Written, Parallelism
        <5>4. CASE kind = "intra" /\ upd.kind = "inter"
          BY <1>0, <4>1, <5>4 DEF Written, Parallelism
        <5> QED
          BY <2>1, <5>1, <5>2, <5>3, <5>4 DEF Kinds
      <4> QED
        BY <2>2, <4>3, <4>4 DEF Target
    <3>2. CASE upd.old = upd.new
      <4>1. /\ upd'.pc # "progress" /\ file' = file
            /\ inter_up' = IF upd.kind = "inter" THEN 0 ELSE inter_up
            /\ intra_up' = IF upd.kind = "intra" THEN 0 ELSE intra_up
        BY <1>15, <3>2 DEF UpdProgress
      <4>2. ~ FirstChange(kind)'
        BY <4>1 DEF FirstChange
      <4>3. CASE upd.kind = kind
        <5>1. Up(kind)' = 0 /\ Up(kind) # 0 /\ file[kind] = Up(kind)
          BY <2>1, <3>2, <4>1, <4>3 DEF ChangeKept, Up, Kinds
        <5> QED
          BY <2>2, <4>1, <4>2, <5>1 DEF Target
      <4>4. CASE upd.kind # kind
        <5>1. Up(kind)' = Up(kind)
          BY <4>1, <4>4 DEF Up, Kinds
        <5>2. FirstChange(kind) => file[kind] = First[kind]
          BY <2>1, <3>2 DEF FirstChange, ChangeKept
        <5> QED
          BY <2>2, <4>1, <4>2, <5>1, <5>2 DEF Target
      <4> QED
        BY <4>3, <4>4
    <3> QED
      BY <3>1, <3>2
  <2> QED
    BY <1>4, <2>1, <2>3, <2>4 DEF Applied
<1>16. CASE Read \/ Remove \/ EndOfStream \/ Timeout \/ LiveThread \/ Training \/ Crash \/ UNCHANGED vars
  <2>1. UNCHANGED <<to_client, last, main, upd, sock, file, inter_up, intra_up>>
    BY <1>16 DEF Read, Remove, EndOfStream, Timeout, LiveThread, LiveTest, LiveWait, LiveAnswer, Training, Crash,
       vars, streams, scheduler, threads, updates
  <2> QED
    BY <1>4, <1>5, <2>1
<1> QED
  BY <1>6, <1>7, <1>8, <1>9, <1>10, <1>11, <1>12, <1>13, <1>14, <1>15, <1>16
     DEF Next, SchedulerThread, SocketThread, UpdateThread, MainThread

\* The invariant is kept.
LEMMA ChangesStep == IInv /\ Changes /\ [Next]_vars => Changes'
<1> SUFFICES ASSUME IInv, Changes, [Next]_vars, world.malleable
             PROVE  ChangeKept' /\ (sock'.pc # "dead" /\ main'.pc # "closed" => \A kind \in Kinds : LastWins(kind)')
  BY WorldStep DEF Changes
<1>1. ChangeKept /\ \A kind \in Kinds : sock.pc # "dead" /\ main.pc # "closed" => LastWins(kind)
  BY DEF Changes
<1>2. ChangeKept'
  BY <1>1, ChangeKeptStep
<1>3. ASSUME NEW kind \in Kinds, sock'.pc # "dead", main'.pc # "closed" PROVE LastWins(kind)'
  BY <1>1, <1>3, LastWinsStep
<1> QED
  BY <1>2, <1>3

\* A container has been granted what it is started with.
LEMMA InitChanges == Init => Changes
<1> SUFFICES ASSUME Init PROVE Changes
  OBVIOUS
<1>1. /\ to_client = <<>> /\ last = First /\ main.pc = "first" /\ sock.pc = "off" /\ upd.pc = "off"
      /\ inter_up = 0 /\ intra_up = 0
  BY DEF Init
<1>2. ChangeKept
  BY <1>1 DEF ChangeKept, Starting
<1>3. ASSUME NEW kind \in Kinds PROVE LastWins(kind)
  <2>1. Positions(to_client, Asking(kind)) = {}
    <3>1. Len(to_client) = 0 /\ 1..0 = {}
      BY ONLY <1>1
    <3> QED
      BY <3>1 DEF Positions
  <2>2. Applied(kind) = First[kind]
    BY <1>1 DEF Applied, InHand, Target, Up, Starting
  <2> QED
    BY <1>1, <2>1, <2>2 DEF LastWins, Newest
<1> QED
  BY <1>2, <1>3 DEF Changes

\* When everything has been applied, the file says what the record says.
LEMMA ChangesLatest == IInv /\ Changes => LatestApplied
<1> SUFFICES ASSUME IInv, Changes, world.malleable, Settled PROVE file = last
  BY DEF LatestApplied
<1>1. to_client = <<>> /\ sock.pc = "len" /\ upd.pc = "wait" /\ cv_update = 0
  BY DEF Settled
<1>2. ChangeKept /\ SemaphoreCounts /\ file \in Parallelism /\ last \in Parallelism
      /\ main.pc # "closed" /\ ~ Starting
  BY <1>1 DEF Changes, ChangeKept, IInv, TypeOK, SchedulerOK, FlagsOK, SemaphoreCounts, Starting
<1>3. inter_up = 0 /\ intra_up = 0
  BY <1>1, <1>2 DEF SemaphoreCounts, Passed, Announced
<1>4. ASSUME NEW kind \in Kinds PROVE last[kind] = file[kind]
  <2>1. Positions(to_client, Asking(kind)) = {}
    <3>1. Len(to_client) = 0 /\ 1..0 = {}
      BY ONLY <1>1
    <3> QED
      BY <3>1 DEF Positions
  <2>2. Applied(kind) = file[kind]
    BY <1>1, <1>2, <1>3 DEF Applied, InHand, Target, Up, FirstChange
  <2>3. LastWins(kind)
    BY <1>1, <1>2 DEF Changes
  <2> QED
    BY <2>1, <2>2, <2>3 DEF LastWins, Newest
<1>5. last.inter = file.inter /\ last.intra = file.intra
  BY <1>2, <1>4, FieldsOfKinds DEF Kinds
<1> QED
  BY <1>2, <1>5 DEF Parallelism

\* However the updates follow each other, are merged by the socket thread or applied by
\* halves: when all of them have been applied, the file that TensorFlow reads holds the
\* threads that the record of the scheduler says, the newest of each kind.
THEOREM LatestWins == Spec => []LatestApplied
<1>1. Init => IInv /\ Changes
  BY InitIInv, InitChanges
<1>2. IInv /\ Changes /\ [Next]_vars => (IInv /\ Changes)'
  BY StepIInv, ChangesStep
<1>3. IInv /\ Changes => LatestApplied
  BY ChangesLatest
<1> QED
  BY <1>1, <1>2, <1>3, PTL DEF Spec
=============================================================================
