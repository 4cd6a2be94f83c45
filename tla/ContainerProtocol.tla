------------------------- MODULE ContainerProtocol --------------------------
(* The conversation of one container with the scheduler: container_client   *)
(* of scheduler.py and the updates of the attention thread on one side, the *)
(* main thread of client.py, its signal handler and its three threads on    *)
(* the other, and between them a stream of bytes in each direction, on      *)
(* which every message is sent in two parts.                                *)
EXTENDS Integers, Sequences, FiniteSets

CONSTANTS
    Worlds,      \* [malleable, prompt, crashes, no_epochs : BOOLEAN, updates : Nat], where
                 \*   malleable: the version of TensorFlow follows changes of its threads
                 \*   prompt: a read times out only when nothing more was going to come
                 \*   crashes: the container may die
                 \*   no_epochs: the file of the epochs is missing
                 \*   updates: how many updates are sent (the program has no limit)
    Updates,     \* what the attention thread may send: [inter, intra], 0 for no change
    MaxProbes,   \* how often a training that runs is probed (no limit either)
    First,       \* the threads the container is started with: [inter, intra]
    CoresCpu     \* cores_cpu, the intra threads TensorFlow is started with

ASSUME ProtocolAssumption ==
    /\ First \in [inter : Nat \ {0}, intra : Nat]
    /\ Updates \subseteq [inter : Nat, intra : Nat]
    /\ \A w \in Worlds : w.updates \in Nat
    /\ MaxProbes \in Nat /\ CoresCpu \in Nat \ {0}

VARIABLES
    world, alive,                      \* alive: the container has not been stopped and has not died
    to_client, to_scheduler,           \* the bytes under way: [part, msg]
    sched, listed, last, probes,       \* client thread of the scheduler; what execInfo_list says
    att,                               \* attention thread: the update it is sending
    train,                             \* the training: running, hung or ended
    main, sock, upd, live,             \* threads of client.py
    finalize, cv_update, waiting,      \* waiting: live_control is in cv_live_control.wait()
    inter_up, intra_up, file           \* file: tf_parallelism.txt

scheduler == <<sched, listed, last, probes, att>>
threads == <<main, sock, upd, live>>
flags == <<finalize, cv_update, waiting>>
updates == <<inter_up, intra_up, file>>
streams == <<to_client, to_scheduler>>
vars == <<world, alive, streams, scheduler, train, threads, flags, updates>>

\* What is not an update: the acknowledgement of the end, the probe, and the first
\* message, the only one with the version of TensorFlow.
Ack == [inter |-> -1, intra |-> -1]
Probe == [inter |-> -2, intra |-> -2]
Start == [inter |-> -3, intra |-> -3]

\* _send: the length and then the data, in two calls.
Part(stream, part, msg) == Append(stream, [part |-> part, msg |-> msg])

Init ==
    /\ world \in Worlds
    /\ alive = TRUE
    /\ to_client = <<>> /\ to_scheduler = <<>>
    /\ sched = [pc |-> "first1", msg |-> "", probing |-> FALSE]
    /\ listed = TRUE /\ last = First /\ probes = 0
    /\ att = [pc |-> "idle", msg |-> Start, sent |-> 0]
    /\ train = "off"
    /\ main = [pc |-> "first", handled |-> FALSE]
    /\ sock = [pc |-> "off", msg |-> Start]
    /\ upd = [pc |-> "off", kind |-> "start", old |-> 0, new |-> 0]
    /\ live = [pc |-> "off", msg |-> ""]
    /\ finalize = FALSE /\ cv_update = 0 /\ waiting = FALSE
    /\ inter_up = 0 /\ intra_up = 0 /\ file = [inter |-> 0, intra |-> 0]

----------------------------------------------------------------------------
(* The scheduler: container_client.                                         *)

SchedSend(from, part, msg, to) ==
    /\ sched.pc = from
    /\ to_client' = Part(to_client, part, msg)
    /\ sched' = [sched EXCEPT !.pc = to]

\* The first message, the probe and the acknowledgement, the last thing it sends.
SendFirst ==
    /\ \/ SchedSend("first1", "len", Start, "first2")
       \/ SchedSend("first2", "data", Start, "len")
    /\ UNCHANGED <<world, alive, to_scheduler, listed, last, probes, att, train, threads, flags, updates>>

SendProbe ==
    /\ SchedSend("probe1", "len", Probe, "probe2") \/ SchedSend("probe2", "data", Probe, "len")
    /\ UNCHANGED <<world, alive, to_scheduler, listed, last, probes, att, train, threads, flags, updates>>

SendAck ==
    /\ SchedSend("ack1", "len", Ack, "ack2") \/ SchedSend("ack2", "data", Ack, "done")
    /\ UNCHANGED <<world, alive, to_scheduler, listed, last, probes, att, train, threads, flags, updates>>

\* container_failed_attention stops the container and queues its restart.
Fail(pc) ==
    /\ sched' = [sched EXCEPT !.pc = pc, !.probing = FALSE]
    /\ alive' = FALSE

Answers(msg) == msg = "live"

\* A message was read: init, an answer to the probe, or the end of the training.
\* Any answer but live restarts the container; without the file of the epochs the
\* end is lost.
Received(msg) ==
    IF sched.probing /\ ~ Answers(msg) THEN Fail("failed")
    ELSE /\ sched' = [pc |-> IF ~ sched.probing /\ msg = "exit" /\ ~ world.no_epochs
                             THEN "remove" ELSE "len",
                      msg |-> msg, probing |-> FALSE]
         /\ UNCHANGED alive

\* _recv reads a line and then as many bytes as the line says.  Bytes of one part
\* read as the other are an error, which ends the thread if it waits for an answer
\* (the answer is read in an except clause); and then every line that is read ends
\* with the length of the message whose data come next, so that no message is found.
Read ==
    /\ sched.pc \in {"len", "data", "garbled"} /\ to_scheduler # <<>>
    /\ to_scheduler' = Tail(to_scheduler)
    /\ LET part == Head(to_scheduler).part
           raises == part = "len" /\ sched.pc # "len"
       IN  IF part = "data" /\ sched.pc = "data" THEN Received(Head(to_scheduler).msg)
           ELSE /\ sched' = [sched EXCEPT !.pc = CASE raises /\ sched.probing -> "dead"
                                                   [] part = "len" /\ ~ raises -> "data"
                                                   [] OTHER -> "garbled"]
                /\ UNCHANGED alive
    /\ UNCHANGED <<world, to_client, listed, last, probes, att, train, threads, flags, updates>>

\* Faulty variant: remove_container without the lock.
RemoveAnytime ==
    /\ sched.pc = "remove"
    /\ listed' = FALSE
    /\ sched' = [sched EXCEPT !.pc = "ack1"]
    /\ UNCHANGED <<world, alive, streams, last, probes, att, train, threads, flags, updates>>

\* remove_container, under the lock that the attention thread sends its updates with.
Remove ==
    /\ sched.pc = "remove" /\ att.pc = "idle"
    /\ listed' = FALSE
    /\ sched' = [sched EXCEPT !.pc = "ack1"]
    /\ UNCHANGED <<world, alive, streams, last, probes, att, train, threads, flags, updates>>

\* The threads of the container have nothing to do and nothing is under way.
Quiet ==
    /\ to_scheduler = <<>>
    /\ sock.pc \in {"done", "dead"} \/ (sock.pc = "len" /\ to_client = <<>>)
    /\ waiting \/ live.pc = "done"
    /\ main.pc = "join" /\ (train = "ended" => main.handled)

\* Faulty variant: a container that does not answer gets another chance.
FailGoesOn(pc) ==
    /\ sched' = [sched EXCEPT !.pc = "len", !.probing = FALSE]
    /\ UNCHANGED alive
NoAnswer(pc) == Fail(pc)

\* socket.timeout, which forgets the part of a message that was read: a probe, and
\* when the probe is not answered a restart.  After ten timeouts a container that
\* sends no first message is restarted too, and its thread goes on reading.
Timeout ==
    /\ sched.pc \in {"len", "data", "garbled"} /\ to_scheduler = <<>>
    /\ alive /\ main.pc # "closed" /\ (world.prompt => Quiet)
    /\ \/ /\ sched.msg = "" /\ NoAnswer("spin")
          /\ UNCHANGED probes
       \/ /\ sched.msg # "" /\ sched.probing /\ NoAnswer("failed")
          /\ UNCHANGED probes
       \/ /\ sched.msg # "" /\ ~ sched.probing
          /\ probes < MaxProbes \/ train # "running"
          /\ probes' = IF probes < MaxProbes THEN probes + 1 ELSE probes
          /\ sched' = [sched EXCEPT !.pc = "probe1", !.probing = TRUE]
          /\ UNCHANGED alive
    /\ UNCHANGED <<world, streams, listed, last, att, train, threads, flags, updates>>

\* The end of the stream is an empty read, and _recv makes them for ever; bytes that
\* the container has not read make it an error instead.
EndOfStream ==
    /\ sched.pc \in {"len", "data", "garbled"} /\ to_scheduler = <<>> /\ (~ alive \/ main.pc = "closed")
    /\ sched' \in {[sched EXCEPT !.pc = pc] : pc \in IF sched.probing THEN {"spin", "dead"} ELSE {"spin"}}
    /\ UNCHANGED <<world, alive, streams, listed, last, probes, att, train, threads, flags, updates>>

\* The attention thread sends an update of a container that is in the list, and
\* update_parallelism writes the record.
SendUpdate ==
    \/ /\ att.pc = "idle" /\ listed /\ alive /\ att.sent < world.updates
       /\ \E u \in Updates :
            /\ to_client' = Part(to_client, "len", u)
            /\ att' = [pc |-> "data", msg |-> u, sent |-> att.sent + 1]
       /\ UNCHANGED <<world, alive, to_scheduler, sched, listed, last, probes, train, threads, flags, updates>>
    \/ /\ att.pc = "data"
       /\ to_client' = Part(to_client, "data", att.msg)
       /\ att' = [att EXCEPT !.pc = "idle"]
       /\ last' = [inter |-> IF att.msg.inter > 0 THEN att.msg.inter ELSE last.inter,
                   intra |-> IF att.msg.intra > 0 THEN att.msg.intra ELSE last.intra]
       /\ UNCHANGED <<world, alive, to_scheduler, sched, listed, probes, train, threads, flags, updates>>

----------------------------------------------------------------------------
(* The container: main and the signal handler.                              *)

MainStart ==
    /\ alive
    /\ \/ /\ main.pc = "first" /\ Len(to_client) > 1
          /\ to_client' = Tail(Tail(to_client))
          /\ IF SubSeq(to_client, 1, 2) = Part(Part(<<>>, "len", Start), "data", Start)
             THEN /\ main' = [main EXCEPT !.pc = "init1"]
                  /\ file' = [inter |-> First.inter, intra |-> CoresCpu]
                  /\ train' = "running"
             ELSE main' = [main EXCEPT !.pc = "closed"] /\ UNCHANGED <<file, train>>
          /\ UNCHANGED <<to_scheduler, sock, upd, live>>
       \/ /\ main.pc = "init1"
          /\ to_scheduler' = Part(to_scheduler, "len", "init")
          /\ main' = [main EXCEPT !.pc = "init2"]
          /\ UNCHANGED <<to_client, file, train, sock, upd, live>>
       \/ /\ main.pc = "init2"
          /\ to_scheduler' = Part(to_scheduler, "data", "init")
          /\ main' = [main EXCEPT !.pc = "start"]
          /\ UNCHANGED <<to_client, file, train, sock, upd, live>>
       \/ /\ main.pc = "start"
          /\ upd' = [upd EXCEPT !.pc = IF world.malleable THEN "progress" ELSE "test",
                                !.old = file.intra, !.new = First.intra]
          /\ sock' = [sock EXCEPT !.pc = "len"]
          /\ live' = [live EXCEPT !.pc = "test"]
          /\ main' = [main EXCEPT !.pc = "join"]
          /\ UNCHANGED <<streams, file, train>>
    /\ UNCHANGED <<world, alive, scheduler, flags, inter_up, intra_up>>

\* The training ends and signals the client, or its log gets old.
Training ==
    /\ alive /\ train = "running" /\ main.pc = "join"
    /\ train' \in {"ended", "hung"}
    /\ UNCHANGED <<world, alive, streams, scheduler, threads, flags, updates>>

\* receiveSignal: the exit message, and only then finalize.
Handler ==
    /\ alive
    /\ \/ /\ main.pc = "join" /\ train = "ended" /\ ~ main.handled
          /\ to_scheduler' = Part(to_scheduler, "len", "exit")
          /\ main' = [pc |-> "exit2", handled |-> TRUE]
          /\ UNCHANGED finalize
       \/ /\ main.pc = "exit2"
          /\ to_scheduler' = Part(to_scheduler, "data", "exit")
          /\ main' = [main EXCEPT !.pc = "finalize"]
          /\ UNCHANGED finalize
       \/ /\ main.pc = "finalize"
          /\ finalize' = TRUE
          /\ main' = [main EXCEPT !.pc = "join"]
          /\ UNCHANGED to_scheduler
    /\ UNCHANGED <<world, alive, to_client, scheduler, train, sock, upd, live, cv_update, waiting, updates>>

MainEnd ==
    /\ alive /\ main.pc = "join"
    /\ upd.pc = "done" /\ sock.pc \in {"done", "dead"} /\ live.pc = "done"
    /\ main' = [main EXCEPT !.pc = "closed"]
    /\ UNCHANGED <<world, alive, streams, scheduler, train, sock, upd, live, flags, updates>>

----------------------------------------------------------------------------
(* attention_socket.                                                        *)

\* An exception of _recv ends the thread: `except socket_scheduler.timeout' names
\* no class of exceptions.
SockRead ==
    /\ alive /\ sock.pc \in {"len", "data"} /\ to_client # <<>>
    /\ to_client' = Tail(to_client)
    /\ sock' = [pc |-> IF Head(to_client).part # sock.pc THEN "dead"
                       ELSE IF sock.pc = "len" THEN "data" ELSE "inter",
                msg |-> Head(to_client).msg]
    /\ UNCHANGED <<world, alive, to_scheduler, scheduler, train, main, upd, live, flags, updates>>

\* The mutexes that the update thread holds while it changes the threads.
SockInter ==
    /\ alive /\ sock.pc = "inter"
    /\ sock.msg.inter > 0 => upd.kind # "inter"
    /\ inter_up' = IF sock.msg.inter > 0 THEN sock.msg.inter ELSE inter_up
    /\ sock' = [sock EXCEPT !.pc = "intra"]
    /\ UNCHANGED <<world, alive, streams, scheduler, train, main, upd, live, flags, intra_up, file>>

SockIntra ==
    /\ alive /\ sock.pc = "intra"
    /\ sock.msg.intra > 0 => upd.kind # "intra"
    /\ intra_up' = IF sock.msg.intra > 0 THEN sock.msg.intra ELSE intra_up
    /\ sock' = [sock EXCEPT !.pc = "wake"]
    /\ UNCHANGED <<world, alive, streams, scheduler, train, main, upd, live, flags, inter_up, file>>

\* Faulty variant: only inter threads wake the update thread.
ReleaseForInter == cv_update' = IF sock.msg.inter > 0 THEN cv_update + 1 ELSE cv_update
Release == cv_update' = cv_update + 1

\* Faulty variant: nobody is notified.
NotifyNobody == UNCHANGED <<waiting, live>>
\* notify() wakes live_control if it waits.
NotifyLive ==
    /\ waiting' = FALSE
    /\ live' = [live EXCEPT !.pc = IF waiting THEN "woken" ELSE @]

\* What is done with the message: an update wakes the update thread, a probe
\* live_control, and the acknowledgement ends the thread, which wakes the update
\* thread a last time.
SockWake ==
    /\ alive /\ sock.pc = "wake"
    /\ sock' = [sock EXCEPT !.pc = IF sock.msg = Ack THEN "done" ELSE "len"]
    /\ IF sock.msg = Probe THEN NotifyLive /\ UNCHANGED cv_update
       ELSE Release /\ UNCHANGED <<waiting, live>>
    /\ UNCHANGED <<world, alive, streams, scheduler, train, main, upd, finalize, updates>>

----------------------------------------------------------------------------
(* attentionUpdate and progressive_update_threads.                          *)

\* Faulty variant: both kinds of threads are written in the first column.
WrittenFirstColumn(n) == [file EXCEPT !.inter = n]
\* replace_line: the file with n threads of the kind that changes.
Written(n) == IF upd.kind = "inter" THEN [file EXCEPT !.inter = n] ELSE [file EXCEPT !.intra = n]

\* The next number of threads: up at once, down by halves.
NextThreads(old, new) == IF old < new \/ old - 1 < new THEN new ELSE old \div 2

\* The test of the loop, and the only wake-up that live_control gets at the end.
UpdTest ==
    /\ alive /\ upd.pc = "test"
    /\ IF finalize THEN NotifyLive /\ upd' = [upd EXCEPT !.pc = "done"]
       ELSE upd' = [upd EXCEPT !.pc = "wait"] /\ UNCHANGED <<waiting, live>>
    /\ UNCHANGED <<world, alive, streams, scheduler, train, main, sock, finalize, cv_update, updates>>

UpdWait ==
    /\ alive /\ upd.pc = "wait" /\ cv_update > 0
    /\ cv_update' = cv_update - 1
    /\ upd' = [upd EXCEPT !.pc = IF world.malleable THEN "inter" ELSE "test"]
    /\ UNCHANGED <<world, alive, streams, scheduler, train, main, sock, live, finalize, waiting, updates>>

\* Takes the mutex of a kind of threads, if there is something to change for it.
UpdTake ==
    /\ alive /\ upd.pc \in {"inter", "intra"}
    /\ LET new == IF upd.pc = "inter" THEN inter_up ELSE intra_up
           next == IF upd.pc = "inter" THEN "intra" ELSE "test"
       IN  upd' = IF new = 0 THEN [upd EXCEPT !.pc = next]
                  ELSE [pc |-> "progress", kind |-> upd.pc, old |-> file[upd.pc], new |-> new]
    /\ UNCHANGED <<world, alive, streams, scheduler, train, main, sock, live, flags, updates>>

\* One signal to TensorFlow, or the end of the change and of the mutex.
UpdProgress ==
    /\ alive /\ upd.pc = "progress"
    /\ IF upd.old # upd.new
       THEN LET n == NextThreads(upd.old, upd.new)
            IN  /\ upd' = [upd EXCEPT !.old = n]
                /\ file' = Written(n)
                /\ UNCHANGED <<inter_up, intra_up>>
       ELSE /\ upd' = [pc |-> IF upd.kind = "inter" THEN "intra" ELSE "test", kind |-> "none",
                       old |-> 0, new |-> 0]
            /\ inter_up' = IF upd.kind = "inter" THEN 0 ELSE inter_up
            /\ intra_up' = IF upd.kind = "intra" THEN 0 ELSE intra_up
            /\ UNCHANGED file
    /\ UNCHANGED <<world, alive, streams, scheduler, train, main, sock, live, flags>>

----------------------------------------------------------------------------
(* live_control.                                                            *)

\* The test of the loop is under mutex_finalize, the wait is not.
LiveTest ==
    /\ alive /\ live.pc \in {"test", "woken"}
    /\ live' = [live EXCEPT !.pc = CASE finalize -> "done"
                                     [] ~ finalize /\ live.pc = "test" -> "wait"
                                     [] OTHER -> "stat"]
    /\ UNCHANGED <<world, alive, streams, scheduler, train, main, sock, upd, flags, updates>>

LiveWait ==
    /\ alive /\ live.pc = "wait" /\ ~ waiting
    /\ waiting' = TRUE
    /\ UNCHANGED <<world, alive, streams, scheduler, train, threads, finalize, cv_update, updates>>

\* The age of the log says whether the training goes on.
LiveAnswer ==
    /\ alive
    /\ \/ /\ live.pc = "stat"
          /\ live' = [pc |-> "send", msg |-> IF train = "hung" THEN "error" ELSE "live"]
          /\ to_scheduler' = Part(to_scheduler, "len", live'.msg)
       \/ /\ live.pc = "send"
          /\ to_scheduler' = Part(to_scheduler, "data", live.msg)
          /\ live' = [pc |-> "test", msg |-> ""]
    /\ UNCHANGED <<world, alive, to_client, scheduler, train, main, sock, upd, flags, updates>>

----------------------------------------------------------------------------
\* The container dies without a word.
Crash ==
    /\ world.crashes /\ alive /\ main.pc # "closed"
    /\ alive' = FALSE
    /\ UNCHANGED <<world, streams, scheduler, train, threads, flags, updates>>

SchedulerThread ==
    \/ SendFirst \/ SendProbe \/ SendAck \/ Read \/ Remove \/ EndOfStream
SocketThread == SockRead \/ SockInter \/ SockIntra \/ SockWake
UpdateThread == UpdTest \/ UpdWait \/ UpdTake \/ UpdProgress
LiveThread == LiveTest \/ LiveWait \/ LiveAnswer
MainThread == MainStart \/ Handler \/ MainEnd

Next ==
    \/ SchedulerThread \/ Timeout \/ SendUpdate
    \/ MainThread \/ SocketThread \/ UpdateThread \/ LiveThread
    \/ Training \/ Crash

Spec == Init /\ [][Next]_vars

\* Threads run, and a read that gets nothing times out.
FairSpec ==
    /\ Spec
    /\ WF_vars(SchedulerThread) /\ WF_vars(Timeout) /\ WF_vars(SendUpdate /\ att.pc = "data")
    /\ WF_vars(MainThread) /\ WF_vars(SocketThread)
    /\ WF_vars(UpdateThread) /\ WF_vars(LiveThread)
=============================================================================
