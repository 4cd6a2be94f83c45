--------------------- MODULE ContainerProtocolProperties ---------------------
(* What makes the conversation of a container with the scheduler correct.     *)
EXTENDS ContainerProtocol

Messages == Updates \cup {Ack, Probe, Start}
Answer == {"init", "exit", "live", "error"}

ToClient == [part : {"len", "data"}, msg : Messages]
ToScheduler == [part : {"len", "data"}, msg : Answer]
ClientThread ==
    [pc : {"first1", "first2", "len", "data", "garbled", "probe1", "probe2", "remove", "ack1", "ack2",
           "done", "failed", "spin", "dead"},
     msg : Answer \cup {""}, probing : BOOLEAN]
AttentionThread == [pc : {"idle", "data"}, msg : Messages, sent : Nat]
Main ==
    [pc : {"first", "init1", "init2", "start", "join", "exit2", "finalize", "closed"}, handled : BOOLEAN]
Socket == [pc : {"off", "len", "data", "inter", "intra", "wake", "done", "dead"}, msg : Messages]
Update ==
    [pc : {"off", "progress", "test", "wait", "inter", "intra", "done"},
     kind : {"start", "none", "inter", "intra"}, old : Nat, new : Nat]
Live == [pc : {"off", "test", "wait", "woken", "stat", "send", "done"}, msg : Answer \cup {""}]
Parallelism == [inter : Nat, intra : Nat]

StreamsOK == to_client \in Seq(ToClient) /\ to_scheduler \in Seq(ToScheduler)
SchedulerOK ==
    /\ world \in Worlds /\ alive \in BOOLEAN
    /\ sched \in ClientThread /\ listed \in BOOLEAN
    /\ last \in Parallelism /\ probes \in 0..MaxProbes
    /\ att \in AttentionThread /\ att.sent <= world.updates
ThreadsOK ==
    /\ train \in {"off", "running", "hung", "ended"}
    /\ main \in Main /\ sock \in Socket /\ upd \in Update /\ live \in Live
    /\ live.pc = "send" => live.msg # ""
FlagsOK ==
    /\ finalize \in BOOLEAN /\ cv_update \in Nat /\ waiting \in BOOLEAN
    /\ inter_up \in Nat /\ intra_up \in Nat /\ file \in Parallelism

\* The variables hold what the code can put in them.
TypeOK == StreamsOK /\ SchedulerOK /\ ThreadsOK /\ FlagsOK

\* An update that the socket thread has stored and the update thread has not taken
\* keeps that thread from waiting: two updates may become one, none is forgotten.
\* cv_update counts what the flags inter_up and intra_up alone would lose.
NoUpdateForgotten ==
    world.malleable /\ upd.pc \in {"test", "wait"} /\ sock.pc \notin {"intra", "wake", "dead"}
        => (inter_up = 0 /\ intra_up = 0) \/ cv_update > 0

\* When nothing is under way and the training goes on, the file that TensorFlow
\* reads holds what the record of the scheduler says: of several updates, sent in
\* two parts each, merged by the socket thread and applied by halves, the last one
\* wins for each kind of threads.
Settled ==
    /\ sched.pc \notin {"first1", "first2"} /\ att.pc = "idle" /\ to_client = <<>>
    /\ sock.pc = "len" /\ upd.pc = "wait" /\ cv_update = 0
LatestApplied == world.malleable /\ ~ finalize /\ Settled => file = last

\* While the scheduler waits for the message that ends the container, no answer to
\* a probe is under way: one that came late would answer the next probe, and keep
\* a training alive that has stopped.
AnswersMatch ==
    LET Answered(i) == to_scheduler[i].msg \in {"live", "error"}
    IN  alive /\ ~ sched.probing /\ sched.pc \in {"len", "data"}
            => (\A i \in DOMAIN to_scheduler : ~ Answered(i)) /\ live.pc \notin {"stat", "send"}

\* The container hears of its end only after the scheduler has removed it: once the
\* socket thread has ended nobody reads the updates that are sent.
EndsAfterRemoval == sock.pc = "done" => ~ listed

\* The acknowledgement is not mixed with an update, which another thread sends on
\* the same socket: the container that cannot read it never ends.
AckInOnePiece ==
    \A i \in 1..(Len(to_client) - 1) :
        to_client[i] = [part |-> "len", msg |-> Ack] => to_client[i + 1] = [part |-> "data", msg |-> Ack]

\* In a world where a timeout means that nothing more was going to come, a training
\* that runs and whose socket thread reads is never stopped and restarted.
LiveKept ==
    world.prompt /\ ~ world.crashes /\ sched.pc = "failed" => train # "running" \/ sock.pc = "dead"

\* A container that has sent its exit message does not keep its client thread
\* waiting: it is removed and acknowledged, restarted, or found gone.
ExitAttended ==
    (main.handled /\ main.pc = "join") ~> sched.pc \in {"done", "failed", "spin", "dead"}

\* An acknowledgement that arrives when finalize is set, while live_control waits and
\* the update thread has still to end and wake it, ends the three threads, whatever
\* updates are still to be applied.
AckUnderWay ==
    /\ alive /\ ~ world.crashes /\ finalize /\ sched.pc = "done" /\ sock.pc = "len"
    /\ waiting /\ upd.pc # "done"
    /\ to_client = <<[part |-> "len", msg |-> Ack], [part |-> "data", msg |-> Ack]>>
AckEndsClient == AckUnderWay ~> main.pc = "closed"

\* A container that is stopped and restarted had not finished its training.
RestartOnlyDead == sched.pc = "failed" => train # "ended"

----------------------------------------------------------------------------
(* Why an update is not forgotten and the acknowledgement not mixed: the    *)
(* inductive invariant behind the theorem ProtocolCorrect.                  *)

\* The update thread does not look at the flag of this kind of threads before it
\* waits for the semaphore again.
Passed(kind) ==
    \/ upd.pc \in {"off", "test", "wait"} \/ (upd.pc = "progress" /\ upd.kind = "start")
    \/ kind = "inter" /\ (upd.pc = "intra" \/ (upd.pc = "progress" /\ upd.kind = "intra"))

\* The socket thread is not between storing an update and raising the semaphore.
Announced == sock.pc \notin {"intra", "wake", "dead"} \/ sock.msg = Probe

\* While the semaphore is down, a flag that the update thread has passed is not set.
SemaphoreCounts ==
    /\ main.pc \in {"first", "init1", "init2", "start"} =>
          upd.pc = "off" /\ upd.kind = "start" /\ sock.pc = "off"
    /\ upd.pc = "progress" => upd.kind # "none"
    /\ world.malleable /\ Announced /\ cv_update = 0 =>
          (Passed("inter") => inter_up = 0) /\ (Passed("intra") => intra_up = 0)

\* The acknowledgement comes after the removal, and after that no thread but that of
\* the container writes to its socket.
RemovedFirst ==
    /\ sched.pc \in {"ack1", "ack2", "done"} => ~ listed
    /\ ~ listed => att.pc = "idle"
    /\ att.msg # Ack
    /\ \A i \in 1..Len(to_client) : to_client[i].msg = Ack => ~ listed
    /\ sock.msg = Ack => ~ listed
    /\ sock.pc = "done" => sock.msg = Ack

AckParts ==
    \A i \in 1..Len(to_client) :
        to_client[i] = [part |-> "len", msg |-> Ack] =>
            IF i = Len(to_client) THEN sched.pc = "ack2"
            ELSE to_client[i + 1] = [part |-> "data", msg |-> Ack]

IInv == TypeOK /\ SemaphoreCounts /\ RemovedFirst /\ AckParts

----------------------------------------------------------------------------
(* Why an answer belongs to its probe: the inductive invariant behind the   *)
(* theorem AnswersBelong.                                                   *)

\* Where the data of these messages are in a stream.
Positions(stream, messages) ==
    {i \in 1..Len(stream) : stream[i].part = "data" /\ stream[i].msg \in messages}
AtMostOne(S) == \A i, j \in S : i = j

\* Where a probe is, or what has become of it, from the timeout to its answer.
ProbeSent == sched.pc \in {"probe1", "probe2"}
Asked == Positions(to_client, {Probe})
ProbeHeld == sock.pc \in {"inter", "intra", "wake"} /\ sock.msg = Probe
LiveAsked == (live.pc = "woken" /\ ~ finalize) \/ live.pc \in {"stat", "send"}
LiveAnswers == {"live", "error"}
Given == Positions(to_scheduler, LiveAnswers)

\* It is in one place at most, and in none while the scheduler does not wait for it.
OneProbe ==
    /\ ProbeSent => Asked = {} /\ ~ ProbeHeld /\ ~ LiveAsked /\ Given = {}
    /\ Asked # {} => ~ ProbeHeld /\ ~ LiveAsked /\ Given = {}
    /\ ProbeHeld => ~ LiveAsked /\ Given = {}
    /\ LiveAsked => Given = {}
    /\ AtMostOne(Asked) /\ AtMostOne(Given)
NoProbe == ~ ProbeSent /\ Asked = {} /\ ~ ProbeHeld /\ ~ LiveAsked /\ Given = {}

\* The first part of an answer is followed by a second one, or live_control is about
\* to send it; only the client thread sends probes.
AnswerParts ==
    /\ \A i \in 1..Len(to_scheduler) :
          to_scheduler[i].part = "len" /\ to_scheduler[i].msg \in LiveAnswers =>
              live.pc = "send" \/ \E j \in Given : i < j
    /\ live.pc = "send" => live.msg \in LiveAnswers
    /\ att.msg # Probe

\* live_control waits only where it says, and does nothing before main starts it.
Starting == main.pc \in {"first", "init1", "init2", "start"}
LiveWaits == (waiting => live.pc = "wait") /\ (Starting => live.pc = "off")

Probes == LiveWaits /\ (alive => OneProbe /\ (~ sched.probing => NoProbe)) /\ AnswerParts

----------------------------------------------------------------------------
(* Why a training that runs is kept: the inductive invariant behind the     *)
(* theorem LivesKept.                                                       *)

\* Nothing has ended before the training has, and a thread that was removed is on its
\* way to the acknowledgement.
RunsOn ==
    /\ train \in {"off", "running"} =>
          /\ ~ main.handled /\ ~ finalize /\ main.pc \notin {"exit2", "finalize"}
          /\ live.pc # "done" /\ upd.pc # "done"
    /\ main.pc = "first" => train = "off"
    /\ train = "running" => main.pc # "closed"
    /\ ~ listed => sched.pc \in {"ack1", "ack2", "done"}
    /\ sched.pc = "failed" => ~ alive
    /\ ~ alive => world.crashes \/ sched.pc \in {"failed", "spin"}
    /\ world.prompt /\ sched.probing => ~ Starting

\* The probe of a training that runs is somewhere on its way, and the way is clear.
OnItsWay ==
    \/ /\ ProbeSent \/ (sched.pc = "len" /\ (Asked # {} \/ ProbeHeld))
       /\ waiting /\ live.pc = "wait" /\ to_scheduler = <<>>
    \/ sched.pc = "len" /\ live.pc \in {"woken", "stat"} /\ to_scheduler = <<>>
    \/ /\ live.pc = "send" /\ live.msg = "live"
       /\ \/ sched.pc = "len" /\ to_scheduler = <<[part |-> "len", msg |-> "live"]>>
          \/ sched.pc = "data" /\ to_scheduler = <<>>
    \/ /\ sched.pc = "len"
       /\ to_scheduler = <<[part |-> "len", msg |-> "live"], [part |-> "data", msg |-> "live"]>>
    \/ sched.pc = "data" /\ to_scheduler = <<[part |-> "data", msg |-> "live"]>>

ProbeKept ==
    alive /\ world.prompt /\ ~ world.crashes /\ train = "running" /\ sched.probing /\ sock.pc # "dead"
        => main.pc = "join" /\ OnItsWay

Lives == RunsOn /\ ProbeKept /\ LiveKept

----------------------------------------------------------------------------
(* Why the last update wins: the inductive invariant behind the theorem     *)
(* LatestWins.                                                              *)

Kinds == {"inter", "intra"}

\* The updates of this kind of threads in a stream.  The newest of them is what is
\* granted, and without one it is what has been applied.
Asking(kind) == {m \in Messages : m[kind] > 0}
Newest(stream, kind, granted, applied) ==
    LET coming == Positions(stream, Asking(kind))
    IN  /\ coming = {} => granted = applied
        /\ \A i \in coming : (\A j \in coming : j <= i) => granted = stream[i].msg[kind]

\* What the update thread makes of the file, and the update that the socket thread has
\* in hand before that.
Up(kind) == IF kind = "inter" THEN inter_up ELSE intra_up
FirstChange(kind) == kind = "intra" /\ upd.pc = "progress" /\ upd.kind = "start"
Target(kind) ==
    IF Up(kind) # 0 THEN Up(kind)
    ELSE IF Starting \/ FirstChange(kind) THEN First[kind] ELSE file[kind]
InHand(kind) ==
    sock.msg[kind] > 0 /\ (sock.pc = "inter" \/ (kind = "intra" /\ sock.pc = "intra"))
Applied(kind) == IF InHand(kind) THEN sock.msg[kind] ELSE Target(kind)

\* The record of the scheduler says what the newest update said.
LastWins(kind) == Newest(to_client, kind, last[kind], Applied(kind))

\* A change goes on from what the file says to what was asked for, under its mutex.
ChangeKept ==
    /\ upd.pc = "progress" /\ upd.kind = "start" => upd.old = file["intra"] /\ upd.new = First["intra"]
    /\ \A kind \in Kinds : upd.pc = "progress" /\ upd.kind = kind =>
          upd.old = file[kind] /\ upd.new = Up(kind) /\ upd.new # 0
    /\ upd.pc \notin {"off", "progress"} => upd.kind = "none"
    /\ Starting => inter_up = 0 /\ intra_up = 0
    /\ main.pc \in {"init1", "init2", "start"} => file["inter"] = First["inter"]
    /\ main.pc = "closed" => sock.pc \in {"off", "done", "dead"}

Changes ==
    world.malleable =>
        ChangeKept /\ (sock.pc # "dead" /\ main.pc # "closed" => \A kind \in Kinds : LastWins(kind))
=============================================================================
