-------------------------------- MODULE Privsep --------------------------------
(***************************************************************************)
(* The launcher child of nfcapd: src/src/collector/privsep.c and launch.c, *)
(* and what nfcapd.c does with it.  After each rotation the collector      *)
(* writes a launch message to a pipe; the child's pipeReader thread cuts   *)
(* the bytes into messages and puts them on a list, from which the         *)
(* launcher thread takes them and runs the command.  An exit message ends  *)
(* the child.                                                              *)
(*                                                                         *)
(* A message is HeaderSize cells (message_t) and, unless it is the exit    *)
(* message, BodySize cells more.  Writes of a message are atomic: it is    *)
(* taken to be no longer than PIPE_BUF.  A read takes all there is, as far *)
(* as there is room in the buffer of MAXMSGSIZE.                           *)
(***************************************************************************)
EXTENDS Integers, Sequences

CONSTANTS
    HeaderSize, BodySize,
    MaxMsgSize,     (* MAXMSGSIZE, no less than any message                *)
    PipeSize,       (* capacity of the pipe                                *)
    Rotations,      (* bound: launch messages                              *)
    Signals,        (* signals somebody may send to the child, once each   *)
    ExpandMayFail,  (* cmd_expand may return NULL                          *)
    MayCrash        (* the collector may die                               *)

ASSUME PrivsepAssumption ==
    /\ HeaderSize \in Nat \ {0} /\ BodySize \in Nat
    /\ MaxMsgSize \in Nat /\ MaxMsgSize >= HeaderSize + BodySize
    /\ PipeSize \in Nat /\ PipeSize >= HeaderSize + BodySize
    /\ Rotations \in Nat
    /\ Signals \subseteq {"TERM", "INT"}
    /\ ExpandMayFail \in BOOLEAN /\ MayCrash \in BOOLEAN

VARIABLES
    pipe, pfdOpen,      (* the bytes in the pipe; its write end is open    *)
    collector,          (* nfcapd                                          *)
    sent,               (* launch messages written                         *)
    reader,             (* where pipeReader is                             *)
    buffer,             (* the part of a message kept for the next read    *)
    rest,               (* the bytes read, from p to eod                   *)
    list,               (* messageQueue                                    *)
    readerDone,         (* done of privsep.c                               *)
    launcher,           (* where launcher() is                             *)
    launcherDone,       (* done of launch.c                                *)
    job,                (* the message it processes                        *)
    commands,           (* commands that are running                       *)
    executed,           (* history: messages whose command was started     *)
    signals             (* history: signals the child got                  *)

stream == <<pipe, pfdOpen>>
parent == <<collector, sent>>
input  == <<reader, buffer, rest>>
flags  == <<readerDone, launcherDone>>
runner == <<launcher, job, commands, executed>>
vars   == <<stream, parent, input, list, flags, runner, signals>>

Exit     == 0
Launches == 1 .. Rotations
Messages == Launches \cup {Exit}

Length(m) == IF m = Exit THEN HeaderSize ELSE HeaderSize + BodySize
Bytes(m)  == [k \in 1 .. Length(m) |-> [msg |-> m, pos |-> k]]
Byte      == [msg : Messages, pos : 1 .. HeaderSize + BodySize]

Init ==
    /\ pipe = <<>> /\ pfdOpen = TRUE
    /\ collector = "run" /\ sent = 0
    /\ reader = "test" /\ buffer = <<>> /\ rest = <<>>
    /\ list = <<>>
    /\ readerDone = FALSE /\ launcherDone = FALSE
    /\ launcher = "loop" /\ job = Exit /\ commands = 0 /\ executed = <<>>
    /\ signals = {}
-------------------------------------------------------------------------------
(* nfcapd                                                                  *)
Write(m) ==
    /\ launcher # "exited"
    /\ Len(pipe) + Length(m) <= PipeSize
    /\ pipe' = pipe \o Bytes(m)

(* TriggerLauncher after a rotation                                        *)
SendLauncherMessage ==
    /\ collector = "run" /\ pfdOpen
    /\ sent < Rotations
    /\ Write(sent + 1)
    /\ sent' = sent + 1
    /\ UNCHANGED <<pfdOpen, collector, input, list, flags, runner, signals>>

(* the child is gone: the launcher is disabled                             *)
SendLauncherMessageFails ==
    /\ collector = "run" /\ pfdOpen
    /\ sent < Rotations
    /\ launcher = "exited"
    /\ pfdOpen' = FALSE
    /\ UNCHANGED <<pipe, parent, input, list, flags, runner, signals>>

(* signalPrivsepChild: the exit message, or a signal to a child that does  *)
(* not read any more, and waitpid                                          *)
SendExit ==
    /\ collector = "run" /\ pfdOpen
    /\ Write(Exit)
    /\ collector' = "wait"
    /\ UNCHANGED <<pfdOpen, sent, input, list, flags, runner, signals>>

SendExitFails ==
    /\ collector = "run"
    /\ launcher = "exited"
    /\ collector' = "wait"
    /\ UNCHANGED <<stream, sent, input, list, flags, runner, signals>>

WaitChild ==
    /\ collector = "wait"
    /\ launcher = "exited"
    /\ collector' = "end"
    /\ UNCHANGED <<stream, sent, input, list, flags, runner, signals>>

CollectorDies ==
    /\ MayCrash
    /\ collector \in {"run", "wait"}
    /\ collector' = "dead"
    /\ pfdOpen' = FALSE
    /\ UNCHANGED <<pipe, sent, input, list, flags, runner, signals>>
-------------------------------------------------------------------------------
(* pipeReader: the loop                                                    *)
ReaderTest ==
    /\ reader = "test"
    /\ reader' = IF readerDone THEN "exited" ELSE "read"
    /\ UNCHANGED <<stream, parent, buffer, rest, list, flags, runner, signals>>

Smaller(a, b) == IF a < b THEN a ELSE b

(* Mutant of Read: the bytes go to the begin of the buffer.                *)
ReadOverwrites ==
    /\ reader = "read"
    /\ pipe # <<>>
    /\ LET n == Smaller(Len(pipe), MaxMsgSize - Len(buffer))
       IN  /\ rest' = SubSeq(pipe, 1, n)
           /\ pipe' = SubSeq(pipe, n + 1, Len(pipe))
    /\ buffer' = <<>>
    /\ reader' = "parse"
    /\ UNCHANGED <<pfdOpen, parent, list, flags, runner, signals>>

Read ==
    /\ reader = "read"
    /\ pipe # <<>>
    /\ LET n == Smaller(Len(pipe), MaxMsgSize - Len(buffer))
       IN  /\ rest' = buffer \o SubSeq(pipe, 1, n)
           /\ pipe' = SubSeq(pipe, n + 1, Len(pipe))
    /\ buffer' = <<>>
    /\ reader' = "parse"
    /\ UNCHANGED <<pfdOpen, parent, list, flags, runner, signals>>

(* The end of the pipe: nobody is told.                                    *)
ReadEOF ==
    /\ reader = "read"
    /\ pipe = <<>> /\ ~pfdOpen
    /\ buffer' = <<>>
    /\ readerDone' = TRUE
    /\ reader' = "test"
    /\ UNCHANGED <<stream, parent, rest, list, launcherDone, runner, signals>>

(* the header is there, and with it the rest of the message                *)
Complete == Len(rest) >= HeaderSize /\ Len(rest) >= Length(rest[1].msg)

(* Mutant of KeepRest: the part of a message is not kept.                  *)
KeepNothing ==
    /\ reader = "parse"
    /\ ~Complete
    /\ rest' = <<>>
    /\ reader' = "test"
    /\ UNCHANGED <<stream, parent, buffer, list, flags, runner, signals>>

KeepRest ==
    /\ reader = "parse"
    /\ ~Complete
    /\ buffer' = rest
    /\ rest' = <<>>
    /\ reader' = "test"
    /\ UNCHANGED <<stream, parent, list, flags, runner, signals>>

(* Mutants of TakeMessage: the exit message does not set done; it is not   *)
(* queued.                                                                 *)
TakeMessageExitQueued ==
    /\ reader = "parse"
    /\ Complete
    /\ reader' = "push"
    /\ UNCHANGED <<stream, parent, buffer, rest, list, flags, runner, signals>>

TakeMessageExitAlone ==
    /\ reader = "parse"
    /\ Complete
    /\ readerDone' = (readerDone \/ rest[1].msg = Exit)
    /\ IF rest[1].msg = Exit
         THEN rest' = SubSeq(rest, HeaderSize + 1, Len(rest)) /\ UNCHANGED reader
         ELSE reader' = "push" /\ UNCHANGED rest
    /\ UNCHANGED <<stream, parent, buffer, list, launcherDone, runner, signals>>

(* a whole message: an exit message sets done before it is queued          *)
TakeMessage ==
    /\ reader = "parse"
    /\ Complete
    /\ readerDone' = (readerDone \/ rest[1].msg = Exit)
    /\ reader' = "push"
    /\ UNCHANGED <<stream, parent, buffer, rest, list, launcherDone, runner, signals>>

Advance ==
    /\ rest' = SubSeq(rest, Length(rest[1].msg) + 1, Len(rest))
    /\ reader' = "parse"

(* pushMessage wakes the launcher when the list was empty                  *)
PushMessage ==
    /\ reader = "push"
    /\ list' = Append(list, rest[1].msg)
    /\ launcher' = IF list = <<>> /\ launcher = "wait" THEN "get" ELSE launcher
    /\ Advance
    /\ UNCHANGED <<stream, parent, buffer, flags, job, commands, executed, signals>>
-------------------------------------------------------------------------------
(* launcher, getMessage                                                    *)
LauncherLoop ==
    /\ launcher = "loop"
    /\ launcher' = IF launcherDone THEN "join" ELSE "get"
    /\ UNCHANGED <<stream, parent, input, list, flags, job, commands, executed, signals>>

GetMessageWaits ==
    /\ launcher = "get"
    /\ list = <<>> /\ ~readerDone
    /\ launcher' = "wait"
    /\ UNCHANGED <<stream, parent, input, list, flags, job, commands, executed, signals>>

SpuriousWakeup ==
    /\ launcher = "wait"
    /\ launcher' = "get"
    /\ UNCHANGED <<stream, parent, input, list, flags, job, commands, executed, signals>>

(* done: -1 is returned, whatever is on the list                           *)
GetMessageDone ==
    /\ launcher = "get"
    /\ readerDone
    /\ launcherDone' = TRUE
    /\ launcher' = "join"
    /\ UNCHANGED <<stream, parent, input, list, readerDone, job, commands, executed, signals>>

(* Mutant of GetMessage: the list is forgotten with its first element.     *)
GetMessageOfMany ==
    /\ launcher = "get"
    /\ list # <<>> /\ ~readerDone
    /\ job' = Head(list)
    /\ list' = <<>>
    /\ launcher' = "run"
    /\ UNCHANGED <<stream, parent, input, flags, commands, executed, signals>>

GetMessage ==
    /\ launcher = "get"
    /\ list # <<>> /\ ~readerDone
    /\ job' = Head(list)
    /\ list' = Tail(list)
    /\ launcher' = "run"
    /\ UNCHANGED <<stream, parent, input, flags, commands, executed, signals>>

(* processMessage, the command in a process of its own, do_expire          *)
RunCommand ==
    /\ launcher = "run"
    /\ executed' = Append(executed, job)
    /\ commands' = commands + 1
    /\ launcher' = "loop"
    /\ UNCHANGED <<stream, parent, input, list, flags, job, signals>>

ExpandFails ==
    /\ launcher = "run"
    /\ ExpandMayFail
    /\ launcherDone' = TRUE
    /\ launcher' = "join"
    /\ UNCHANGED <<stream, parent, input, list, readerDone, job, commands, executed, signals>>

(* StartupLauncher joins the reader and returns, the child exits           *)
JoinReader ==
    /\ launcher = "join"
    /\ reader = "exited"
    /\ launcher' = "exited"
    /\ UNCHANGED <<stream, parent, input, list, flags, job, commands, executed, signals>>
-------------------------------------------------------------------------------
(* A signal that the reader handles in read(), if there is nothing to be   *)
(* read; it has no effect on a reader just before or after it, or if the   *)
(* other thread handles it.                                                *)
MayInterrupt ==
    \/ UNCHANGED input
    \/ /\ reader = "read" /\ pipe = <<>>
       /\ reader' = "test"
       /\ buffer' = <<>>
       /\ UNCHANGED rest

(* SIGCHLD: a command has ended                                            *)
CommandEnds ==
    /\ commands > 0
    /\ launcher # "exited"
    /\ commands' = commands - 1
    /\ MayInterrupt
    /\ UNCHANGED <<stream, parent, list, flags, launcher, job, executed, signals>>

(* SIGTERM: SignalHandler of launch.c sends the reader a SIGINT            *)
Terminated ==
    /\ "TERM" \in Signals \ signals
    /\ launcher # "exited"
    /\ signals' = signals \cup {"TERM"}
    /\ launcherDone' = TRUE
    /\ readerDone' = TRUE
    /\ MayInterrupt
    /\ UNCHANGED <<stream, parent, list, runner>>

(* SIGINT: IntHandler of privsep.c                                         *)
Interrupted ==
    /\ "INT" \in Signals \ signals
    /\ launcher # "exited"
    /\ signals' = signals \cup {"INT"}
    /\ readerDone' = TRUE
    /\ MayInterrupt
    /\ UNCHANGED <<stream, parent, list, launcherDone, runner>>

Finished ==
    /\ collector \in {"end", "dead"} /\ launcher = "exited"
    /\ UNCHANGED vars
-------------------------------------------------------------------------------
Reader   == ReaderTest \/ Read \/ ReadEOF \/ KeepRest \/ TakeMessage \/ PushMessage

Launcher == LauncherLoop \/ GetMessageWaits \/ GetMessageDone \/ GetMessage
                \/ RunCommand \/ JoinReader

Next ==
    \/ SendLauncherMessage \/ SendLauncherMessageFails
    \/ SendExit \/ SendExitFails \/ WaitChild \/ CollectorDies
    \/ Reader
    \/ Launcher \/ SpuriousWakeup \/ ExpandFails
    \/ CommandEnds \/ Terminated \/ Interrupted
    \/ Finished

Spec == Init /\ [][Next]_vars

(* The threads of the child and waitpid go on whenever they can.  Nobody   *)
(* has to rotate a file, to end nfcapd or to send a signal.                *)
FairSpec == Spec /\ WF_vars(Reader) /\ WF_vars(Launcher) /\ WF_vars(WaitChild)
-------------------------------------------------------------------------------
(* The buffers hold bytes of messages and the threads are where the code   *)
(* has a place for them.                                                   *)
TypeOK ==
    /\ pipe \in Seq(Byte) /\ Len(pipe) <= PipeSize /\ pfdOpen \in BOOLEAN
    /\ collector \in {"run", "wait", "end", "dead"} /\ sent \in 0 .. Rotations
    /\ reader \in {"test", "read", "parse", "push", "exited"}
    /\ buffer \in Seq(Byte) /\ rest \in Seq(Byte)
    /\ Len(buffer) < HeaderSize + BodySize /\ Len(rest) <= MaxMsgSize
    /\ list \in Seq(Messages)
    /\ readerDone \in BOOLEAN /\ launcherDone \in BOOLEAN
    /\ launcher \in {"loop", "get", "wait", "run", "join", "exited"}
    /\ job \in Messages /\ commands \in Nat /\ executed \in Seq(Messages)
    /\ signals \subseteq Signals

(* pipeReader cuts the stream where messages begin, wherever its reads     *)
(* were cut; and an interrupted read, which forgets the part of a message  *)
(* kept in the buffer, finds none there.                                   *)
FramingKept ==
    /\ rest # <<>> => rest[1].pos = 1
    /\ reader = "read" /\ buffer # <<>> => pipe # <<>>

(* pushMessage wakes the launcher only when the list was empty: a launcher *)
(* that waits has nothing to wait for but the next message.                *)
NoMessageStranded == launcher = "wait" => list = <<>>

(* The commands are run for the rotations in order, for each at most once, *)
(* and never for the exit message.                                         *)
CommandsInOrder == \A k \in DOMAIN executed : executed[k] = k

(* What else every step preserves.  Each byte under way belongs to a whole *)
(* message under way (Whole); what the buffer keeps is no whole message;   *)
(* and as long as the child takes messages, the launcher's job, the list   *)
(* and the stream hold the launch messages in the order of sending.        *)
Held   == IF reader \in {"parse", "push"} THEN rest ELSE buffer
Stream == Held \o pipe

Whole(s) ==
    \A i \in 1 .. Len(s) :
        /\ s[i].pos <= i /\ s[i].pos <= Length(s[i].msg)
        /\ i - s[i].pos + Length(s[i].msg) <= Len(s)
        /\ \A k \in 1 .. Length(s[i].msg) :
             s[i - s[i].pos + k] = [msg |-> s[i].msg, pos |-> k]

Partial(s) == s = <<>> \/ Len(s) < Length(s[1].msg)

Buffers ==
    /\ reader \in {"parse", "push"} => buffer = <<>>
    /\ reader \notin {"parse", "push"} => rest = <<>>
    /\ Partial(buffer)
    /\ reader = "push" => Complete /\ (rest[1].msg = Exit => readerDone)

ExitComesLast ==
    (\E i \in 1 .. Len(Stream) : Stream[i].msg = Exit) => collector # "run"

JobNext == launcher = "run" => job = Len(executed) + 1

Taken    == Len(executed) + (IF launcher = "run" THEN 1 ELSE 0)
Handed   == Taken + Len(list)
Taking   == ~readerDone /\ launcher \notin {"join", "exited"}

InSequence ==
    Taking =>
        /\ \A k \in DOMAIN list : list[k] = Taken + k
        /\ Stream = <<>> => Handed = sent
        /\ Stream # <<>> => /\ Stream[1].msg \in {Handed + 1, Exit}
                            /\ Stream[Len(Stream)].msg \in {sent, Exit}
        /\ \A i \in 1 .. Len(Stream) - 1 :
             Stream[i].msg # Exit /\ Stream[i].pos = Length(Stream[i].msg)
                => Stream[i + 1].msg \in {Stream[i].msg + 1, Exit}

(* The inductive invariant of the child and its pipe.                      *)
IInv ==
    /\ TypeOK /\ Buffers /\ Whole(Stream) /\ ExitComesLast
    /\ NoMessageStranded /\ JobNext /\ InSequence /\ CommandsInOrder

(* As long as the collector runs and nobody sends a signal, each rotation  *)
(* is followed by its command (or one cannot be expanded, which ends the   *)
(* launcher).                                                              *)
CommandsRun ==
    \A k \in Launches :
        sent >= k ~> Len(executed) >= k \/ collector # "run" \/ signals # {} \/ launcherDone

(* The exit message ends the child, which nfcapd waits for, unless the     *)
(* child got a signal before.                                              *)
ChildEnds ==
    collector = "wait" ~> collector \in {"end", "dead"} \/ signals # {}

(* nfcapd runs the command at the end of every interval.                   *)
CommandForEveryInterval == collector = "end" => Len(executed) = sent
===============================================================================
