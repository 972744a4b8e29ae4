----------------------------- MODULE Pm3Session -----------------------------
(***************************************************************************)
(* One PM3 client session (pm3/session.py).  The worker thread writes a    *)
(* command and a marker remark to the client's standard input and reads    *)
(* the output queue until the marker has been echoed and executed; a       *)
(* reader thread moves the client's output into the queue; the user may    *)
(* cancel; four timers may expire.  The client is a process of its own: it *)
(* may be slow, hang for ever or exit at any moment, and its exit becomes  *)
(* visible in steps (its output ends, then poll() tells).  Killing it is   *)
(* taken to work.                                                          *)
(*                                                                         *)
(* A line is the number of its command and what it is; the remark of the   *)
(* startup handshake has number 0.  An item of output stands for the bytes *)
(* of one line's output.                                                   *)
(***************************************************************************)
EXTENDS Integers, Sequences, FiniteSets

CONSTANTS Commands,   \* bound: commands the operation may send
          LimitSets   \* the sets of timers that may be switched on

VARIABLES at,         \* where the worker is
          cmd,        \* the command it is busy with
          limits,     \* timers whose limit is not zero
          buffer,     \* output read since the command was sent
          result,     \* results the workflow has got
          client,     \* "none", "alive", "dying" (output ended), "dead" (poll() tells)
          stdin,      \* lines the client has not taken yet
          stdout,     \* output the reader has not taken yet
          code,       \* exit code 0?
          reader,     \* the reader thread runs
          queue,      \* _output_queue
          cancelled,  \* cancel_event
          executed,   \* history: commands the client has executed
          late        \* history: commands executed after the cancellation

clientVars == <<client, code, executed, late>>
vars == <<at, cmd, limits, buffer, result, client, stdin, stdout, code, reader,
          queue, cancelled, executed, late>>

Cmd   == 1..Commands
Timers == {"startup", "idle", "command", "operation"}

ASSUME SessionParameters ==
  Commands \in Nat \ {0} /\ LimitSets # {} /\ LimitSets \subseteq SUBSET Timers

Line(kind, n) == [kind |-> kind, of |-> n]
Lines == [kind : {"command", "remark", "quit"}, of : 0..Commands]
(* "text" is an answer that the validators of pm3/results.py accept for    *)
(* any command, "error" one that infer_command_returncode rejects.         *)
Items == [kind : {"text", "error", "marker", "eof"}, of : 0..Commands]
Eof == [kind |-> "eof", of |-> 0]

NoResult == [ok |-> FALSE, text |-> FALSE, marked |-> FALSE, known |-> FALSE]
Results == [ok : BOOLEAN, text : BOOLEAN, marked : BOOLEAN, known : BOOLEAN]

Init ==
  /\ at = "open" /\ cmd = 0 /\ limits \in LimitSets
  /\ buffer = {} /\ result = [c \in Cmd |-> NoResult]
  /\ client = "none" /\ stdin = <<>> /\ stdout = <<>> /\ code = TRUE
  /\ reader = FALSE /\ queue = <<>>
  /\ cancelled = FALSE /\ executed = {} /\ late = 0
-----------------------------------------------------------------------------
Polled == client = "dead"
Marked(n) == Line("marker", n) \in buffer

(* _terminate_tree: taskkill, kill, wait.                                  *)
Terminate ==
  /\ client' = "dead" /\ stdin' = <<>>
  /\ UNCHANGED <<stdout, code, executed, late>>

Leave(place) == at' = place /\ UNCHANGED <<cmd, buffer, result>>

(* open: the client and the reader thread are started.  A failure to start *)
(* them, or any error of the handshake, leaves `with runner` before its    *)
(* body: close is not called.                                              *)
Open ==
  /\ at = "open"
  /\ \/ /\ client' = "alive" /\ reader' = TRUE
        /\ Leave("handshake")
     \/ UNCHANGED <<client, reader>> /\ Leave("done")
  /\ UNCHANGED <<limits, stdin, stdout, code, queue, cancelled, executed, late>>

(* Writing a line raises when the client is gone; while it is dying the    *)
(* line may still go into the pipe.                                        *)
Written(line) == stdin' = Append(stdin, line) /\ UNCHANGED <<clientVars, stdout>>
Broken == client \in {"dying", "dead"}

Handshake ==
  /\ at = "handshake"
  /\ \/ client # "dead" /\ Written(Line("remark", 0)) /\ Leave("check")
     \/ Broken /\ Terminate /\ Leave("done")
  /\ UNCHANGED <<limits, reader, queue, cancelled>>

(* _read_until_marker, top of the loop: cancelled?  A cancellation raises; *)
(* in the handshake that is before the body of `with runner`.              *)
CheckAtStart ==            \* mutant: looks at cancel_event in the handshake only
  /\ at = "check"
  /\ IF cancelled /\ cmd = 0 THEN Terminate /\ Leave("done")
     ELSE UNCHANGED <<clientVars, stdin, stdout>> /\ Leave("get")
  /\ UNCHANGED <<limits, reader, queue, cancelled>>
Check ==
  /\ at = "check"
  /\ \/ /\ cancelled
        /\ Terminate
        /\ Leave(IF cmd = 0 THEN "done" ELSE "close")
     \/ /\ ~ cancelled
        /\ UNCHANGED <<clientVars, stdin, stdout>>
        /\ Leave("get")
  /\ UNCHANGED <<limits, reader, queue, cancelled>>

(* ... a limit that is not zero is reached: the client is killed.          *)
Report(ok, text, marked) ==
  /\ result' = [result EXCEPT ![cmd] = [ok |-> ok, text |-> text, marked |-> marked,
                                        known |-> TRUE]]
  /\ at' = "next" /\ UNCHANGED <<cmd, buffer>>
Expirable == limits \cap ({"operation", "idle"}
                          \cup (IF cmd = 0 THEN {"startup"} ELSE {"command"}))
HasText == \E item \in buffer : item.kind = "text"
ExpireOnly ==              \* mutant: the client is left running
  /\ at = "get" /\ Expirable # {}
  /\ IF cmd = 0 THEN Leave("done") ELSE Report(FALSE, HasText, FALSE)
  /\ UNCHANGED <<clientVars, stdin, stdout, limits, reader, queue, cancelled>>
Expire ==
  /\ at = "get" /\ Expirable # {}
  /\ Terminate
  /\ IF cmd = 0 THEN Leave("done") ELSE Report(FALSE, HasText, FALSE)
  /\ UNCHANGED <<limits, reader, queue, cancelled>>

(* ... the next item of the queue; its end, or the marker, ends the loop.  *)
Take ==
  /\ at = "get" /\ queue # <<>>
  /\ queue' = Tail(queue)
  /\ IF Head(queue) = Eof
     THEN at' = "classify" /\ UNCHANGED buffer
     ELSE /\ buffer' = buffer \cup {Head(queue)}
          /\ at' = IF Head(queue) = Line("marker", cmd) THEN "classify" ELSE "check"
  /\ UNCHANGED <<cmd, limits, result, clientVars, stdin, stdout, reader, cancelled>>

(* ... nothing within 0.1 s: once more, or the end when poll() tells so,   *)
(* although the reader thread may still hold output.                       *)
EmptyBlocks ==             \* mutant: waits for output without a timeout
  /\ at = "get" /\ queue = <<>> /\ Polled /\ ~ reader
  /\ at' = "classify"
  /\ UNCHANGED <<cmd, limits, buffer, result, clientVars, stdin, stdout, reader, queue,
                 cancelled>>
Empty ==
  /\ at = "get" /\ queue = <<>>
  /\ at' = IF Polled THEN "classify" ELSE "check"
  /\ UNCHANGED <<cmd, limits, buffer, result, clientVars, stdin, stdout, reader, queue,
                 cancelled>>

(* After the loop, _perform_startup_handshake and _execute: the exit code  *)
(* counts when the client has exited without the marker; otherwise only    *)
(* the output does.                                                        *)
Classify ==
  /\ at = "classify"
  /\ IF cmd = 0
     THEN Leave(IF Polled /\ ~ Marked(0) THEN "done" ELSE "next")
     ELSE Report(IF Polled /\ ~ Marked(cmd) THEN code
                 ELSE \A item \in buffer : item.kind # "error",
                 HasText, Marked(cmd))
  /\ UNCHANGED <<limits, clientVars, stdin, stdout, reader, queue, cancelled>>

(* The workflow sends its next command or leaves the `with` block.  A      *)
(* client whose exit is known raises out of the block.                     *)
NextKeepsBuffer ==         \* mutant: one buffer for the whole session
  /\ at = "next"
  /\ \/ /\ cmd < Commands /\ ~ Polled
        /\ cmd' = cmd + 1 /\ at' = "send"
        /\ UNCHANGED <<result, buffer>>
     \/ Leave("close")
  /\ UNCHANGED <<limits, clientVars, stdin, stdout, reader, queue, cancelled>>
NextCommand ==
  /\ at = "next"
  /\ \/ /\ cmd < Commands /\ ~ Polled
        /\ cmd' = cmd + 1 /\ at' = "send" /\ buffer' = {}
        /\ UNCHANGED result
     \/ Leave("close")
  /\ UNCHANGED <<limits, clientVars, stdin, stdout, reader, queue, cancelled>>

(* _execute writes the command, then the marker; if either fails it        *)
(* reports a failure although the command may have been taken.             *)
Send ==
  /\ at = "send"
  /\ \/ /\ client # "dead"
        /\ Written(Line("command", cmd))
        /\ at' = "mark" /\ UNCHANGED <<cmd, buffer, result>>
     \/ /\ Broken
        /\ Report(FALSE, FALSE, FALSE)
        /\ UNCHANGED <<clientVars, stdin, stdout>>
  /\ UNCHANGED <<limits, reader, queue, cancelled>>
Mark ==
  /\ at = "mark"
  /\ \/ client # "dead" /\ Written(Line("remark", cmd)) /\ Leave("check")
     \/ /\ Broken
        /\ Report(FALSE, FALSE, FALSE)
        /\ UNCHANGED <<clientVars, stdin, stdout>>
  /\ UNCHANGED <<limits, reader, queue, cancelled>>

(* close: quit, five seconds of patience, kill; then at most two seconds   *)
(* for the reader thread.                                                  *)
Close ==
  /\ at = "close"
  /\ \/ client # "dead" /\ Written(Line("quit", 0)) /\ Leave("wait")
     \/ client = "dying" /\ Terminate /\ Leave("join")
     \/ client = "dead" /\ UNCHANGED <<clientVars, stdin, stdout>> /\ Leave("join")
  /\ UNCHANGED <<limits, reader, queue, cancelled>>
WaitOnly ==                \* mutant: no kill when the patience is over
  /\ at = "wait" /\ Leave("join")
  /\ UNCHANGED <<limits, clientVars, stdin, stdout, reader, queue, cancelled>>
Wait ==
  /\ at = "wait"
  /\ Leave("join")
  /\ \/ client = "dead" /\ UNCHANGED <<clientVars, stdin, stdout>>
     \/ client # "dead" /\ Terminate
  /\ UNCHANGED <<limits, reader, queue, cancelled>>
Join ==
  /\ at = "join" /\ Leave("done")
  /\ UNCHANGED <<limits, clientVars, stdin, stdout, reader, queue, cancelled>>

Worker == \/ Open \/ Handshake \/ Check \/ Take \/ Empty \/ Classify \/ NextCommand
          \/ Send \/ Mark \/ Close \/ Wait \/ Join
-----------------------------------------------------------------------------
(* _reader.                                                                *)
Reader ==
  /\ reader
  /\ \/ /\ stdout # <<>>
        /\ queue' = Append(queue, Head(stdout)) /\ stdout' = Tail(stdout)
        /\ UNCHANGED reader
     \/ /\ stdout = <<>> /\ client \in {"dying", "dead"}
        /\ queue' = Append(queue, Eof) /\ reader' = FALSE
        /\ UNCHANGED stdout
  /\ UNCHANGED <<at, cmd, limits, buffer, result, clientVars, stdin, cancelled>>

workerVars == <<at, cmd, limits, buffer, result, reader, queue, cancelled>>

(* The client takes a line: a command with an answer, an error or nothing; *)
(* a remark, which is the marker; or quit.                                 *)
ClientLine ==
  /\ client = "alive" /\ stdin # <<>>
  /\ stdin' = Tail(stdin)
  /\ LET line == Head(stdin)
     IN  \/ /\ line.kind = "command"
            /\ executed' = executed \cup {line.of}
            /\ late' = late + (IF cancelled THEN 1 ELSE 0)
            /\ \/ \E kind \in {"text", "error"} :
                    stdout' = Append(stdout, Line(kind, line.of))
               \/ UNCHANGED stdout
            /\ UNCHANGED <<client, code>>
         \/ /\ line.kind = "remark"
            /\ stdout' = Append(stdout, Line("marker", line.of))
            /\ UNCHANGED clientVars
         \/ /\ line.kind = "quit"
            /\ client' = "dying" /\ UNCHANGED <<stdout, code, executed, late>>
  /\ UNCHANGED workerVars

(* It exits, with whatever code: first its output ends.                    *)
ClientExits ==
  /\ client = "alive"
  /\ client' = "dying" /\ code' \in BOOLEAN
  /\ UNCHANGED <<stdin, stdout, executed, late, workerVars>>
ClientGone ==
  /\ client = "dying"
  /\ client' = "dead" /\ stdin' = <<>>
  /\ UNCHANGED <<stdout, code, executed, late, workerVars>>

(* _cancel_operation of the user interface.                                *)
Cancel ==
  /\ ~ cancelled /\ at # "done"
  /\ cancelled' = TRUE
  /\ UNCHANGED <<at, cmd, limits, buffer, result, clientVars, stdin, stdout, reader,
                 queue>>

Next == Worker \/ Expire \/ Reader \/ ClientLine \/ ClientExits \/ ClientGone \/ Cancel

Spec == Init /\ [][Next]_vars
(* The threads run and clocks advance; nothing is asked of the client but  *)
(* that an exit that has begun is completed.                               *)
FairSpec == /\ Spec
            /\ WF_vars(Worker) /\ WF_vars(Reader) /\ WF_vars(ClientGone)
            /\ SF_vars(Expire)
-----------------------------------------------------------------------------
TypeOK ==
  /\ at \in {"open", "handshake", "check", "get", "classify", "next", "send", "mark",
             "close", "wait", "join", "done"}
  /\ cmd \in 0..Commands /\ limits \in LimitSets
  /\ buffer \subseteq Items /\ result \in [Cmd -> Results]
  /\ client \in {"none", "alive", "dying", "dead"}
  /\ stdin \in Seq(Lines) /\ stdout \in Seq(Items) /\ queue \in Seq(Items)
  /\ code \in BOOLEAN /\ reader \in BOOLEAN /\ cancelled \in BOOLEAN
  /\ executed \subseteq Cmd /\ late \in 0..Commands
  /\ at \notin {"open", "done"} => client # "none"

(* As long as no command failed (the writing workflows stop at the first   *)
(* that does), a command that is reported to have succeeded, with an       *)
(* answer a validator accepts, has been executed, and its answer is its    *)
(* own, even where the marker never came.                                  *)
ConfirmedIsExecuted ==
  \A c \in Cmd : result[c].text /\ (\A d \in 1..c : result[d].ok) =>
    /\ 1..c \subseteq executed
    /\ c = cmd => \A item \in buffer : item.of = c

(* What is reported is over: no command is executed after its result, be   *)
(* it a success, a failure, a timeout or a broken pipe.                    *)
NothingAfterItsResult ==
  [][\A c \in executed' \ executed : ~ result[c].known]_vars

(* After a cancellation the client executes at most two more commands: the *)
(* one in progress may be completed and the next one sent, because the     *)
(* worker looks at cancel_event only while it waits for output.            *)
CancelStopsCommands == late <= 2

(* An operation that is over has no client left that could act on a tag or *)
(* hold the port.                                                          *)
ClosedIsGone == at = "done" => client \in {"none", "dead"}

(* Whatever the client does, a cancelled operation ends.                   *)
CancelEnds == cancelled ~> at = "done"

(* With the limits on, every operation ends, whatever the client does.     *)
Bounded == limits \cap {"operation", "idle"} # {} \/ {"startup", "command"} \subseteq limits

(* "Command completion is established by a unique following marker", says  *)
(* docs/ARCHITECTURE.md:160.                                               *)
CompletionIsMarked == \A c \in Cmd : result[c].ok => result[c].marked
=============================================================================
