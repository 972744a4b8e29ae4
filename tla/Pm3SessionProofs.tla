-------------------------- MODULE Pm3SessionProofs --------------------------
(***************************************************************************)
(* Theorems about Pm3Session, for every number of commands and every set   *)
(* of timers.                                                              *)
(***************************************************************************)
EXTENDS Pm3Session, TLAPS

(* What a pipe or the queue holds; nothing but the end of the output comes *)
(* after an item.                                                          *)
Held(s) == {s[i] : i \in 1..Len(s)}
AtEnd(item, s) == \A i, j \in 1..Len(s) : i < j /\ s[i] = item => s[j] = Eof

LEMMA EmptyHolds ==
  /\ Held(<<>>) = {}
  /\ \A item : AtEnd(item, <<>>)
BY DEF Held, AtEnd

LEMMA NotHeldAtEnd ==
  ASSUME NEW s, NEW item, item \notin Held(s)
  PROVE  AtEnd(item, s)
BY DEF Held, AtEnd

LEMMA NothingHeld ==
  ASSUME NEW S, NEW s \in Seq(S), Held(s) = {}
  PROVE  s = <<>>
<1>1. Len(s) \in Nat
  OBVIOUS
<1>2. CASE Len(s) = 0
  BY <1>2
<1>3. CASE Len(s) > 0
  <2>1. s[1] \in Held(s)
    BY <1>1, <1>3 DEF Held
  <2> QED
    BY <2>1
<1> QED
  BY <1>1, <1>2, <1>3

LEMMA AppendHolds ==
  ASSUME NEW S, NEW s \in Seq(S), NEW x \in S
  PROVE  /\ Append(s, x) \in Seq(S) /\ Append(s, x) # <<>>
         /\ Held(Append(s, x)) = Held(s) \cup {x}
         /\ \A item : AtEnd(item, s) /\ (item \notin Held(s) \/ x = Eof)
                      => AtEnd(item, Append(s, x))
<1> DEFINE t == Append(s, x)
<1>1. /\ t \in Seq(S) /\ Len(s) \in Nat /\ Len(t) = Len(s) + 1
      /\ \A i \in 1..Len(s) : t[i] = s[i]
      /\ t[Len(s) + 1] = x
  OBVIOUS
<1> HIDE DEF t
<1>2. Held(t) = Held(s) \cup {x}
  <2>1. ASSUME NEW y \in Held(t) PROVE y \in Held(s) \cup {x}
    <3>1. PICK i \in 1..Len(t) : y = t[i]
      BY <2>1 DEF Held
    <3> QED
      BY <1>1, <3>1 DEF Held
  <2>2. ASSUME NEW y \in Held(s) PROVE y \in Held(t)
    <3>1. PICK i \in 1..Len(s) : y = s[i]
      BY <2>2 DEF Held
    <3>2. i \in 1..Len(t) /\ y = t[i]
      BY <1>1, <3>1
    <3> QED
      BY <3>2 DEF Held
  <2>3. x \in Held(t)
    BY <1>1 DEF Held
  <2> QED
    BY <2>1, <2>2, <2>3
<1>3. ASSUME NEW item, AtEnd(item, s), item \notin Held(s) \/ x = Eof
      PROVE  AtEnd(item, t)
  <2> SUFFICES ASSUME NEW i \in 1..Len(t), NEW j \in 1..Len(t), i < j, t[i] = item
               PROVE  t[j] = Eof
    BY DEF AtEnd
  <2>1. i \in 1..Len(s) /\ s[i] = item /\ item \in Held(s)
    BY <1>1 DEF Held
  <2>2. CASE j \in 1..Len(s)
    BY <1>1, <1>3, <2>1, <2>2 DEF AtEnd
  <2>3. CASE j = Len(s) + 1
    BY <1>1, <1>3, <2>1, <2>3
  <2> QED
    BY <1>1, <2>2, <2>3
<1>4. t # <<>>
  BY <1>1
<1> QED
  BY <1>1, <1>2, <1>3, <1>4 DEF t

LEMMA TailHolds ==
  ASSUME NEW S, NEW s \in Seq(S), s # <<>>
  PROVE  /\ Head(s) \in S /\ Tail(s) \in Seq(S)
         /\ Held(s) = {Head(s)} \cup Held(Tail(s))
         /\ \A item : AtEnd(item, s) =>
              AtEnd(item, Tail(s)) /\ (item = Head(s) => Held(Tail(s)) \subseteq {Eof})
<1> DEFINE t == Tail(s)
<1>1. /\ t \in Seq(S) /\ Len(s) \in Nat /\ Len(s) > 0 /\ Len(t) = Len(s) - 1
      /\ \A i \in 1..Len(t) : t[i] = s[i + 1]
      /\ Head(s) = s[1] /\ s[1] \in S
  OBVIOUS
<1> HIDE DEF t
<1>2. Held(s) = {Head(s)} \cup Held(t)
  <2>1. ASSUME NEW y \in Held(s) PROVE y \in {Head(s)} \cup Held(t)
    <3>1. PICK i \in 1..Len(s) : y = s[i]
      BY <2>1 DEF Held
    <3>2. CASE i = 1
      BY <1>1, <3>1, <3>2
    <3>3. CASE i > 1
      <4>1. i - 1 \in 1..Len(t) /\ t[i - 1] = s[(i - 1) + 1] /\ (i - 1) + 1 = i
        BY <1>1, <3>3
      <4> QED
        BY <4>1, <3>1 DEF Held
    <3> QED
      BY <3>2, <3>3
  <2>2. ASSUME NEW y \in Held(t) PROVE y \in Held(s)
    <3>1. PICK i \in 1..Len(t) : y = t[i]
      BY <2>2 DEF Held
    <3>2. i + 1 \in 1..Len(s) /\ y = s[i + 1]
      BY <1>1, <3>1
    <3> QED
      BY <3>2 DEF Held
  <2>3. Head(s) \in Held(s)
    BY <1>1 DEF Held
  <2> QED
    BY <2>1, <2>2, <2>3
<1>3. ASSUME NEW item, AtEnd(item, s)
      PROVE  AtEnd(item, t) /\ (item = Head(s) => Held(t) \subseteq {Eof})
  <2>1. AtEnd(item, t)
    <3> SUFFICES ASSUME NEW i \in 1..Len(t), NEW j \in 1..Len(t), i < j, t[i] = item
                 PROVE  t[j] = Eof
      BY DEF AtEnd
    <3>1. /\ i + 1 \in 1..Len(s) /\ j + 1 \in 1..Len(s) /\ i + 1 < j + 1
          /\ s[i + 1] = item /\ t[j] = s[j + 1]
      BY <1>1
    <3> QED
      BY <1>3, <3>1 DEF AtEnd
  <2>2. ASSUME item = Head(s), NEW y \in Held(t) PROVE y = Eof
    <3>1. PICK j \in 1..Len(t) : y = t[j]
      BY <2>2 DEF Held
    <3>2. 1 \in 1..Len(s) /\ j + 1 \in 1..Len(s) /\ 1 < j + 1 /\ s[1] = item /\ y = s[j + 1]
      BY <1>1, <2>2, <3>1
    <3> QED
      BY <1>3, <3>2 DEF AtEnd
  <2> QED
    BY <2>1, <2>2
<1> QED
  BY <1>1, <1>2, <1>3 DEF t

(***************************************************************************)
(* The invariant.  Output is what the client has said and the worker may   *)
(* still read, or has read for the command it is busy with.                *)
(***************************************************************************)
Output == (Held(queue) \cup Held(stdout) \cup buffer) \ {Eof}
Quiet == stdout = <<>> /\ Held(queue) \subseteq {Eof}
Marker == Line("marker", cmd)

(* Where the worker is tells which command it is busy with.                *)
PlaceInv ==
  /\ at \in {"open", "handshake"} => cmd = 0
  /\ at \in {"send", "mark"} => cmd > 0
  /\ at \in {"open", "handshake", "send", "mark"} => buffer = {}
  /\ at = "open" => client = "none"
  /\ at \in {"join", "done"} => client \in {"none", "dead"}

(* Nothing is reported of a command before it is over.                     *)
ResultInv ==
  \A c \in Cmd :
    c > cmd \/ (c = cmd /\ at \in {"send", "mark", "check", "get", "classify"})
    => result[c] = NoResult

(* A live client has only lines of the current command before it, and none *)
(* when that command is over.                                              *)
InputInv ==
  client = "alive" =>
    /\ at \in {"handshake", "classify", "next", "send", "close"} => stdin = <<>>
    /\ at = "mark" => stdin \in {<<>>, <<Line("command", cmd)>>}
    /\ at \in {"check", "get"} =>
         \/ stdin \in {<<>>, <<Line("remark", cmd)>>}
         \/ cmd > 0 /\ stdin = <<Line("command", cmd), Line("remark", cmd)>>
    /\ at = "wait" => stdin \in {<<>>, <<Line("quit", 0)>>}

(* The reader thread ends after all output, and says so last.              *)
ReaderInv ==
  /\ client = "none" => stdin = <<>> /\ queue = <<>> /\ stdout = <<>> /\ buffer = {}
  /\ ~ reader => client # "alive" /\ stdout = <<>>
  /\ Eof \in Held(queue) => ~ reader
  /\ Eof \notin Held(stdout) /\ Eof \notin buffer
  /\ AtEnd(Eof, queue)

(* The marker is the last the client says of a command, and no output of   *)
(* the command is under way when the worker has classified it, unless it   *)
(* failed or the client is gone.                                           *)
MarkerInv ==
  /\ at \in {"open", "handshake", "send", "mark"} => Marker \notin Output
  /\ Marker \in Output /\ client = "alive" /\ at \in {"check", "get"} => stdin = <<>>
  /\ Marked(cmd) => Quiet
  /\ Marker \in Held(queue) => stdout = <<>>
  /\ AtEnd(Marker, queue) /\ AtEnd(Marker, stdout)
  /\ \A item \in Output : item.of <= cmd
  /\ at = "classify" => client = "dead" \/ (Quiet /\ (client = "alive" => Marked(cmd)))
  /\ at = "next" /\ client # "dead" /\ (cmd > 0 => result[cmd].ok) => Quiet

(* After a cancellation a live client gets at most one more command: what  *)
(* is pending counts as executed.                                          *)
Pending == IF client = "alive" /\ stdin # <<>> /\ Head(stdin) = Line("command", cmd)
           THEN 1 ELSE 0
LateInv ==
  /\ ~ cancelled => late = 0
  /\ client = "alive" /\ at \in {"handshake", "get", "classify", "next", "send"}
       => late + Pending <= 1
  /\ late + Pending <= 2
  /\ late + Pending <= IF at = "send" THEN cmd - 1 ELSE cmd

(* While no command has failed, all output is of the current one, and      *)
(* output shows that it and all before it were executed.                   *)
Clean == \A d \in 1..(cmd - 1) : result[d].ok
OrderInv ==
  Clean =>
    /\ \A item \in Output : item.of = cmd
    /\ Output # {} => 1..cmd \subseteq executed
    /\ client = "alive" =>
         /\ 1..(cmd - 1) \subseteq executed
         /\ at \in {"classify", "next"} => 1..cmd \subseteq executed
         /\ at \in {"mark", "check", "get"} /\ cmd > 0 /\ Pending = 0 => cmd \in executed

Inv == /\ TypeOK /\ PlaceInv /\ ResultInv /\ InputInv /\ ReaderInv /\ MarkerInv
       /\ LateInv /\ OrderInv /\ ConfirmedIsExecuted

LEMMA LineTypes ==
  ASSUME TypeOK
  PROVE  /\ \A kind \in {"command", "remark", "quit"} : \A n \in {0, cmd} : Line(kind, n) \in Lines
         /\ \A kind \in {"text", "error", "marker"} : \A n \in 0..Commands :
              Line(kind, n) \in Items /\ Line(kind, n) # Eof
         /\ Eof \in Items
BY SessionParameters DEF TypeOK, Line, Lines, Items, Eof

(* The types in two parts: the provers deal with Boolean variables and     *)
(* with numbers, but not with both at once.                                *)
FlagsOK == code \in BOOLEAN /\ reader \in BOOLEAN /\ cancelled \in BOOLEAN
DataOK ==
  /\ at \in {"open", "handshake", "check", "get", "classify", "next", "send", "mark",
             "close", "wait", "join", "done"}
  /\ cmd \in 0..Commands /\ limits \in LimitSets
  /\ buffer \subseteq Items /\ result \in [Cmd -> Results]
  /\ client \in {"none", "alive", "dying", "dead"}
  /\ stdin \in Seq(Lines) /\ stdout \in Seq(Items) /\ queue \in Seq(Items)
  /\ executed \subseteq Cmd /\ late \in 0..Commands
  /\ at \notin {"open", "done"} => client # "none"

LEMMA TypeParts == TypeOK <=> FlagsOK /\ DataOK
BY DEF TypeOK, FlagsOK, DataOK

LEMMA ReportType ==
  ASSUME TypeOK, cmd > 0, NEW ok \in BOOLEAN, NEW text \in BOOLEAN, NEW marked \in BOOLEAN,
         Report(ok, text, marked)
  PROVE  result' \in [Cmd -> Results] /\ at' = "next" /\ cmd' = cmd /\ buffer' = buffer
BY DEF Report, Results, Cmd, TypeOK

LEMMA PairIs ==
  ASSUME NEW x, NEW y, NEW s \in Seq({x, y}), Len(s) = 2, s[1] = x, s[2] = y
  PROVE  s = <<x, y>>
OBVIOUS

LEMMA AppendShort ==
  ASSUME NEW x, NEW y
  PROVE  Append(<<>>, x) = <<x>> /\ Append(<<x>>, y) = <<x, y>>
<1>1. Append(<<>>, x) = <<x>>
  OBVIOUS
<1>2. <<x>> \in Seq({x, y})
  OBVIOUS
<1> DEFINE s == Append(<<x>>, y)
<1>3. s \in Seq({x, y}) /\ Len(s) = 2 /\ s[1] = x /\ s[2] = y
  BY <1>2
<1> HIDE DEF s
<1>4. s = <<x, y>>
  BY <1>3, PairIs
<1> QED
  BY <1>1, <1>4 DEF s

LEMMA TerminateType ==
  ASSUME DataOK, Terminate
  PROVE  /\ client' = "dead" /\ stdin' \in Seq(Lines)
         /\ UNCHANGED <<stdout, executed, late>>
BY DEF DataOK, Terminate

LEMMA WrittenType ==
  ASSUME DataOK, NEW kind \in {"command", "remark", "quit"}, NEW n \in {0, cmd},
         Written(Line(kind, n))
  PROVE  stdin' \in Seq(Lines) /\ UNCHANGED <<client, stdout, executed, late>>
<1>1. Line(kind, n) \in Lines
  BY SessionParameters DEF DataOK, Line, Lines
<1>2. stdin' = Append(stdin, Line(kind, n)) /\ UNCHANGED <<client, stdout, executed, late>>
  BY DEF Written, clientVars
<1> QED
  BY <1>1, <1>2 DEF DataOK

(* What the client takes is the current command, its marker, or quit.      *)
Answer ==
  /\ at \in {"mark", "check", "get"} /\ cmd > 0 /\ Pending = 1
  /\ stdin' = IF at = "mark" THEN <<>> ELSE <<Line("remark", cmd)>>
  /\ executed' = executed \cup {cmd}
  /\ late' = late + (IF cancelled THEN 1 ELSE 0)
  /\ \/ \E kind \in {"text", "error"} : stdout' = Append(stdout, Line(kind, cmd))
     \/ UNCHANGED stdout
  /\ UNCHANGED client
Remark ==
  /\ at \in {"check", "get"} /\ stdin = <<Line("remark", cmd)>> /\ stdin' = <<>>
  /\ stdout' = Append(stdout, Marker)
  /\ UNCHANGED clientVars
Quit ==
  /\ at = "wait" /\ stdin' = <<>> /\ client' = "dying"
  /\ UNCHANGED <<stdout, executed, late>>

LEMMA ClientLineCases ==
  ASSUME TypeOK, InputInv, PlaceInv, ClientLine
  PROVE  client = "alive" /\ UNCHANGED workerVars /\ (Answer \/ Remark \/ Quit)
<1> DEFINE line == Head(stdin)
<1>1. client = "alive" /\ stdin # <<>> /\ stdin' = Tail(stdin) /\ UNCHANGED workerVars
  BY DEF ClientLine
<1>2. CASE stdin = <<Line("command", cmd)>>
  <2>1. line = Line("command", cmd) /\ Tail(stdin) = <<>>
    BY <1>2
  <2>2. line.kind = "command" /\ line.of = cmd
    BY <2>1 DEF Line
  <2>3. at = "mark" /\ cmd > 0
    BY <1>1, <1>2, <2>2 DEF InputInv, PlaceInv, Line, TypeOK
  <2>4. Answer
    BY <1>1, <2>1, <2>2, <2>3 DEF ClientLine, Answer, Pending
  <2> QED
    BY <1>1, <2>4
<1>3. CASE stdin = <<Line("command", cmd), Line("remark", cmd)>>
  <2>1. line = Line("command", cmd) /\ Tail(stdin) = <<Line("remark", cmd)>>
    BY <1>3
  <2>2. line.kind = "command" /\ line.of = cmd
    BY <2>1 DEF Line
  <2>3. at \in {"check", "get"} /\ cmd > 0
    BY <1>1, <1>3 DEF InputInv, PlaceInv, TypeOK
  <2>4. Answer
    BY <1>1, <2>1, <2>2, <2>3 DEF ClientLine, Answer, Pending
  <2> QED
    BY <1>1, <2>4
<1>4. CASE stdin = <<Line("remark", cmd)>>
  <2>1. line = Line("remark", cmd) /\ Tail(stdin) = <<>>
    BY <1>4
  <2>2. line.kind = "remark" /\ line.of = cmd
    BY <2>1 DEF Line
  <2>3. at \in {"check", "get"}
    BY <1>1, <1>4, <2>2 DEF InputInv, PlaceInv, TypeOK, Line
  <2>4. Remark
    BY <1>1, <1>4, <2>1, <2>2, <2>3 DEF ClientLine, Remark, Marker
  <2> QED
    BY <1>1, <2>4
<1>5. CASE stdin = <<Line("quit", 0)>>
  <2>1. line = Line("quit", 0) /\ Tail(stdin) = <<>>
    BY <1>5
  <2>2. line.kind = "quit"
    BY <2>1 DEF Line
  <2>3. at = "wait"
    BY <1>1, <1>5, <2>2 DEF InputInv, PlaceInv, TypeOK, Line
  <2>4. Quit
    BY <1>1, <2>1, <2>2, <2>3 DEF ClientLine, Quit
  <2> QED
    BY <1>1, <2>4
<1> QED
  BY <1>1, <1>2, <1>3, <1>4, <1>5 DEF InputInv, PlaceInv, TypeOK

LEMMA InitInv == Init => Inv
<1> SUFFICES ASSUME Init PROVE Inv
  OBVIOUS
<1>1. Output = {}
  BY EmptyHolds DEF Init, Output
<1>2. TypeOK
  <2>1. FlagsOK
    BY DEF Init, FlagsOK
  <2>2. result \in [Cmd -> Results]
    BY DEF Init, NoResult, Results
  <2>3. DataOK
    BY <2>2, SessionParameters DEF Init, DataOK
  <2> QED
    BY <2>1, <2>3, TypeParts
<1>3. PlaceInv
  BY DEF Init, PlaceInv
<1>10. ResultInv
  BY DEF Init, ResultInv
<1>4. InputInv
  BY DEF Init, InputInv
<1>5. ReaderInv
  BY EmptyHolds DEF Init, ReaderInv
<1>6. MarkerInv
  BY <1>1, EmptyHolds DEF Init, MarkerInv, Marked
<1>7. LateInv
  BY DEF Init, LateInv, Pending
<1>8. OrderInv
  BY <1>1 DEF Init, OrderInv
<1>9. ConfirmedIsExecuted
  BY DEF Init, ConfirmedIsExecuted, NoResult
<1> QED
  BY <1>2, <1>3, <1>4, <1>5, <1>6, <1>7, <1>8, <1>9, <1>10 DEF Inv

LEMMA TypeStep ==
  ASSUME Inv, [Next]_vars
  PROVE  TypeOK'
<1> USE SessionParameters
<1>a. TypeOK /\ FlagsOK /\ DataOK /\ PlaceInv /\ InputInv /\ LateInv
  BY TypeParts DEF Inv
<1>b. FlagsOK'
  BY <1>a DEF Next, Worker, vars, Open, Handshake, Check, Take, Empty, Classify, NextCommand,
     Send, Mark, Close, Wait, Join, Expire, Reader, ClientLine, ClientExits, ClientGone,
     Cancel, Leave, Report, Written, Terminate, clientVars, workerVars, FlagsOK
<1>c. DataOK'
  <2>1. CASE Open
    BY <1>a, <2>1 DEF Open, DataOK, Leave
  <2>2. CASE Handshake
    BY <1>a, <2>2, WrittenType, TerminateType DEF Handshake, DataOK, Leave
  <2>3. CASE Check
    BY <1>a, <2>3, TerminateType DEF Check, DataOK, Leave, clientVars
  <2>4. CASE Take
    BY <1>a, <2>4, TailHolds DEF Take, DataOK, clientVars
  <2>5. CASE Empty
    BY <1>a, <2>5 DEF Empty, DataOK, clientVars, Polled
  <2>6. CASE Classify
    <3>1. CASE cmd = 0
      BY <1>a, <2>6, <3>1 DEF Classify, DataOK, clientVars, Leave
    <3>2. CASE cmd > 0
      <4> DEFINE ok == IF Polled /\ ~ Marked(cmd) THEN code
                       ELSE \A item \in buffer : item.kind # "error"
      <4>2. HasText \in BOOLEAN
        BY DEF HasText
      <4>6. Marked(cmd) \in BOOLEAN
        BY DEF Marked
      <4>4. ok \in BOOLEAN
        BY <1>a DEF FlagsOK
      <4>5. cmd # 0
        BY <3>2
      <4>3. Report(ok, HasText, Marked(cmd))
        BY <2>6, <4>5 DEF Classify
      <4> HIDE DEF ok
      <4>1. result' \in [Cmd -> Results] /\ at' = "next" /\ UNCHANGED <<cmd, buffer>>
        BY <1>a, <3>2, <4>2, <4>3, <4>4, <4>6, ReportType
      <4> QED
        BY <1>a, <2>6, <4>1 DEF Classify, DataOK, clientVars
    <3> QED
      BY <1>a, <3>1, <3>2 DEF DataOK
  <2>7. CASE NextCommand
    BY <1>a, <2>7 DEF NextCommand, DataOK, clientVars, Polled, Leave
  <2>8. CASE Send
    <3>1. CASE Written(Line("command", cmd)) /\ at' = "mark" /\ UNCHANGED <<cmd, buffer, result>>
      BY <1>a, <2>8, <3>1, WrittenType DEF Send, DataOK, PlaceInv
    <3>2. CASE Report(FALSE, FALSE, FALSE) /\ UNCHANGED <<clientVars, stdin, stdout>>
      BY <1>a, <2>8, <3>2, ReportType DEF Send, DataOK, PlaceInv, clientVars
    <3> QED
      BY <2>8, <3>1, <3>2 DEF Send
  <2>9. CASE Mark
    <3>1. CASE Written(Line("remark", cmd)) /\ Leave("check")
      BY <1>a, <2>9, <3>1, WrittenType DEF Mark, DataOK, PlaceInv, Leave
    <3>2. CASE Report(FALSE, FALSE, FALSE) /\ UNCHANGED <<clientVars, stdin, stdout>>
      BY <1>a, <2>9, <3>2, ReportType DEF Mark, DataOK, PlaceInv, clientVars
    <3> QED
      BY <2>9, <3>1, <3>2 DEF Mark
  <2>10. CASE Close
    BY <1>a, <2>10, WrittenType, TerminateType DEF Close, DataOK, clientVars, Leave
  <2>11. CASE Wait
    BY <1>a, <2>11, TerminateType DEF Wait, DataOK, clientVars, Leave
  <2>12. CASE Join
    BY <1>a, <2>12 DEF Join, DataOK, clientVars, Leave
  <2>13. CASE Expire
    <3>1. CASE cmd = 0
      BY <1>a, <2>13, <3>1, TerminateType DEF Expire, DataOK, Leave
    <3>2. CASE cmd > 0
      <4>3. HasText \in BOOLEAN
        BY DEF HasText
      <4>4. cmd # 0
        BY <3>2
      <4>2. Report(FALSE, HasText, FALSE)
        BY <2>13, <4>4 DEF Expire
      <4>1. result' \in [Cmd -> Results] /\ at' = "next" /\ UNCHANGED <<cmd, buffer>>
        BY <1>a, <3>2, <4>2, <4>3, ReportType
      <4> QED
        BY <1>a, <2>13, <4>1, TerminateType DEF Expire, DataOK
    <3> QED
      BY <1>a, <3>1, <3>2 DEF DataOK
  <2>14. CASE Reader
    <3>1. queue' \in Seq(Items) /\ stdout' \in Seq(Items)
      <4>1. \A x \in Items : Append(queue, x) \in Seq(Items)
        BY <1>a DEF DataOK
      <4>2. stdout # <<>> => Head(stdout) \in Items /\ Tail(stdout) \in Seq(Items)
        BY <1>a DEF DataOK
      <4> QED
        BY <1>a, <2>14, <4>1, <4>2, LineTypes DEF Reader, DataOK
    <3> QED
      BY <1>a, <2>14, <3>1 DEF Reader, DataOK, clientVars
  <2>15. CASE ClientLine
    <3>1. UNCHANGED workerVars
      BY <2>15 DEF ClientLine
    <3>2. stdin' \in Seq(Lines)
      BY <1>a, <2>15 DEF ClientLine, DataOK
    <3>3. \A x \in Items : Append(stdout, x) \in Seq(Items)
      BY <1>a DEF DataOK
    <3>4. \A kind \in {"text", "error", "marker"} : Line(kind, cmd) \in Items
      BY <1>a, LineTypes DEF DataOK
    <3>5. CASE Answer
      <4>1. late' \in 0..Commands
        <5>1. Pending = 1 /\ at # "send" /\ late' \in {late, late + 1}
          BY <3>5, <1>a DEF Answer, DataOK
        <5> QED
          BY <5>1, <1>a DEF DataOK, LateInv
      <4>2. stdout' \in Seq(Items)
        BY <1>a, <3>3, <3>4, <3>5 DEF Answer, DataOK
      <4> QED
        BY <1>a, <3>1, <3>2, <3>5, <4>1, <4>2 DEF Answer, DataOK, workerVars, Cmd
    <3>6. CASE Remark
      BY <1>a, <3>1, <3>2, <3>3, <3>4, <3>6 DEF Remark, DataOK, workerVars, clientVars, Marker
    <3>7. CASE Quit
      BY <1>a, <3>1, <3>2, <3>7 DEF Quit, DataOK, workerVars
    <3> QED
      BY <1>a, <2>15, <3>5, <3>6, <3>7, ClientLineCases
  <2>16. CASE ClientExits
    BY <1>a, <2>16 DEF ClientExits, DataOK, workerVars
  <2>17. CASE ClientGone
    BY <1>a, <2>17 DEF ClientGone, DataOK, workerVars
  <2>18. CASE Cancel
    BY <1>a, <2>18 DEF Cancel, DataOK, clientVars
  <2>19. CASE UNCHANGED vars
    BY <1>a, <2>19 DEF vars, DataOK
  <2> QED
    BY <2>1, <2>2, <2>3, <2>4, <2>5, <2>6, <2>7, <2>8, <2>9, <2>10, <2>11, <2>12, <2>13,
       <2>14, <2>15, <2>16, <2>17, <2>18, <2>19 DEF Next, Worker
<1> QED
  BY <1>b, <1>c DEF TypeOK, FlagsOK, DataOK

LEMMA PlaceStep ==
  ASSUME Inv, [Next]_vars
  PROVE  PlaceInv'
<1>a. TypeOK /\ DataOK /\ PlaceInv
  BY TypeParts DEF Inv
<1>1. CASE Open
  BY <1>a, <1>1 DEF Open, Leave, PlaceInv, DataOK, clientVars
<1>2. CASE Handshake
  BY <1>a, <1>2 DEF Handshake, Leave, Written, Terminate, Broken, PlaceInv, DataOK, clientVars
<1>3. CASE Check
  BY <1>a, <1>3 DEF Check, Leave, Terminate, PlaceInv, DataOK, clientVars
<1>4. CASE Take
  BY <1>a, <1>4 DEF Take, PlaceInv, DataOK, clientVars
<1>5. CASE Empty
  BY <1>a, <1>5 DEF Empty, Polled, PlaceInv, DataOK, clientVars
<1>6. CASE Classify
  BY <1>a, <1>6 DEF Classify, Polled, Leave, Report, PlaceInv, DataOK, clientVars
<1>7. CASE NextCommand
  BY <1>a, <1>7 DEF NextCommand, Polled, Leave, PlaceInv, DataOK, clientVars
<1>8. CASE Send
  BY <1>a, <1>8 DEF Send, Broken, Report, Written, PlaceInv, DataOK, clientVars
<1>9. CASE Mark
  BY <1>a, <1>9 DEF Mark, Broken, Leave, Report, Written, PlaceInv, DataOK, clientVars
<1>10. CASE Close
  BY <1>a, <1>10 DEF Close, Leave, Written, Terminate, PlaceInv, DataOK, clientVars
<1>11. CASE Wait
  BY <1>a, <1>11 DEF Wait, Leave, Terminate, PlaceInv, DataOK, clientVars
<1>12. CASE Join
  BY <1>a, <1>12 DEF Join, Leave, PlaceInv, DataOK, clientVars
<1>13. CASE Expire
  BY <1>a, <1>13 DEF Expire, Leave, Report, Terminate, PlaceInv, DataOK, clientVars
<1>14. CASE Reader
  BY <1>a, <1>14 DEF Reader, PlaceInv, DataOK, clientVars
<1>15. CASE ClientLine
  BY <1>a, <1>15 DEF ClientLine, workerVars, PlaceInv, DataOK
<1>16. CASE ClientExits
  BY <1>a, <1>16 DEF ClientExits, workerVars, PlaceInv, DataOK, clientVars
<1>17. CASE ClientGone
  BY <1>a, <1>17 DEF ClientGone, workerVars, PlaceInv, DataOK, clientVars
<1>18. CASE Cancel
  BY <1>a, <1>18 DEF Cancel, PlaceInv, DataOK, clientVars
<1>19. CASE UNCHANGED vars
  BY <1>a, <1>19 DEF vars, PlaceInv, DataOK
<1> QED
  BY <1>1, <1>2, <1>3, <1>4, <1>5, <1>6, <1>7, <1>8, <1>9, <1>10, <1>11, <1>12, <1>13,
     <1>14, <1>15, <1>16, <1>17, <1>18, <1>19 DEF Next, Worker

LEMMA ResultStep ==
  ASSUME Inv, [Next]_vars
  PROVE  ResultInv'
<1> USE SessionParameters
<1>a. TypeOK /\ DataOK /\ PlaceInv /\ ResultInv
  BY TypeParts DEF Inv
<1>1. CASE Open
  BY <1>a, <1>1 DEF Open, Leave, ResultInv, DataOK, Cmd, clientVars
<1>2. CASE Handshake
  BY <1>a, <1>2 DEF Handshake, Leave, ResultInv, DataOK, PlaceInv, Cmd
<1>3. CASE Check
  BY <1>a, <1>3 DEF Check, Leave, Terminate, ResultInv, DataOK, Cmd, clientVars
<1>4. CASE Take
  BY <1>a, <1>4 DEF Take, ResultInv, DataOK, Cmd, clientVars
<1>5. CASE Empty
  BY <1>a, <1>5 DEF Empty, Polled, ResultInv, DataOK, Cmd, clientVars
<1>6. CASE Classify
  <2>1. /\ cmd' = cmd /\ (result' = result \/ \E r : result' = [result EXCEPT ![cmd] = r])
        /\ result' = result \/ at' = "next"
        /\ cmd = 0 => result' = result /\ at' \in {"done", "next"}
    BY <1>6 DEF Classify, Report, Leave
  <2> QED
    BY <1>a, <1>6, <2>1 DEF Classify, ResultInv, DataOK, Cmd
<1>7. CASE NextCommand
  BY <1>a, <1>7 DEF NextCommand, Polled, Leave, ResultInv, DataOK, Cmd, clientVars
<1>8. CASE Send
  <2>1. /\ cmd' = cmd /\ (result' = result \/ \E r : result' = [result EXCEPT ![cmd] = r])
        /\ result' = result \/ at' = "next"
        /\ at' \in {"mark", "next"}
    BY <1>8 DEF Send, Report
  <2> QED
    BY <1>a, <1>8, <2>1 DEF Send, ResultInv, DataOK, Cmd
<1>9. CASE Mark
  <2>1. /\ cmd' = cmd /\ (result' = result \/ \E r : result' = [result EXCEPT ![cmd] = r])
        /\ result' = result \/ at' = "next"
        /\ at' \in {"check", "next"}
    BY <1>9 DEF Mark, Report, Leave
  <2> QED
    BY <1>a, <1>9, <2>1 DEF Mark, ResultInv, DataOK, Cmd
<1>10. CASE Close
  BY <1>a, <1>10 DEF Close, Leave, Written, Terminate, ResultInv, DataOK, Cmd, clientVars
<1>11. CASE Wait
  BY <1>a, <1>11 DEF Wait, Leave, Terminate, ResultInv, DataOK, Cmd, clientVars
<1>12. CASE Join
  BY <1>a, <1>12 DEF Join, Leave, ResultInv, DataOK, Cmd, clientVars
<1>13. CASE Expire
  <2>1. /\ cmd' = cmd /\ (result' = result \/ \E r : result' = [result EXCEPT ![cmd] = r])
        /\ result' = result \/ at' = "next"
        /\ cmd = 0 => result' = result /\ at' = "done"
    BY <1>13 DEF Expire, Report, Leave
  <2> QED
    BY <1>a, <1>13, <2>1 DEF Expire, ResultInv, DataOK, Cmd
<1>14. CASE Reader
  BY <1>a, <1>14 DEF Reader, ResultInv, DataOK, Cmd, clientVars
<1>15. CASE ClientLine
  BY <1>a, <1>15 DEF ClientLine, workerVars, ResultInv
<1>16. CASE ClientExits
  BY <1>a, <1>16 DEF ClientExits, workerVars, ResultInv, DataOK, Cmd, clientVars
<1>17. CASE ClientGone
  BY <1>a, <1>17 DEF ClientGone, workerVars, ResultInv, DataOK, Cmd, clientVars
<1>18. CASE Cancel
  BY <1>a, <1>18 DEF Cancel, ResultInv, DataOK, Cmd, clientVars
<1>19. CASE UNCHANGED vars
  BY <1>a, <1>19 DEF vars, ResultInv, DataOK, Cmd
<1> QED
  BY <1>1, <1>2, <1>3, <1>4, <1>5, <1>6, <1>7, <1>8, <1>9, <1>10, <1>11, <1>12, <1>13,
     <1>14, <1>15, <1>16, <1>17, <1>18, <1>19 DEF Next, Worker

LEMMA InputStep ==
  ASSUME Inv, [Next]_vars
  PROVE  InputInv'
<1>a. TypeOK /\ DataOK /\ PlaceInv /\ InputInv /\ MarkerInv /\ ReaderInv
  BY TypeParts DEF Inv
<1>1. CASE Open
  BY <1>a, <1>1 DEF Open, Leave, InputInv, ReaderInv, PlaceInv
<1>2. CASE Handshake
  BY <1>a, <1>2, AppendShort DEF Handshake, Written, Terminate, Leave, InputInv, PlaceInv, clientVars
<1>3. CASE Check
  BY <1>a, <1>3 DEF Check, Leave, Terminate, InputInv, DataOK, clientVars
<1>4. CASE Take
  <2>1. CASE Head(queue) = Eof
    BY <1>a, <1>4, <2>1, TailHolds DEF Take, clientVars, InputInv, DataOK, ReaderInv
  <2>2. CASE Head(queue) = Marker
    BY <1>a, <1>4, <2>2, TailHolds, LineTypes DEF Take, clientVars, InputInv, DataOK, MarkerInv, Output, Marker
  <2>3. CASE Head(queue) # Eof /\ Head(queue) # Marker
    BY <1>a, <1>4, <2>3 DEF Take, clientVars, InputInv, Marker
  <2> QED
    BY <2>1, <2>2, <2>3
<1>5. CASE Empty
  BY <1>a, <1>5 DEF Empty, Polled, InputInv, DataOK, clientVars
<1>6. CASE Classify
  BY <1>a, <1>6 DEF Classify, Polled, Leave, Report, InputInv, DataOK, clientVars
<1>7. CASE NextCommand
  BY <1>a, <1>7 DEF NextCommand, Polled, Leave, InputInv, DataOK, clientVars
<1>8. CASE Send
  BY <1>a, <1>8, AppendShort DEF Send, Written, Report, InputInv, clientVars, Broken
<1>9. CASE Mark
  BY <1>a, <1>9, AppendShort DEF Mark, Written, Report, Leave, InputInv, PlaceInv, clientVars, Broken
<1>10. CASE Close
  BY <1>a, <1>10, AppendShort DEF Close, Written, Terminate, Leave, InputInv, clientVars
<1>11. CASE Wait
  BY <1>a, <1>11 DEF Wait, Leave, Terminate, InputInv, DataOK, clientVars
<1>12. CASE Join
  BY <1>a, <1>12 DEF Join, Leave, InputInv, DataOK, clientVars
<1>13. CASE Expire
  BY <1>a, <1>13 DEF Expire, Leave, Report, Terminate, InputInv, DataOK, clientVars
<1>14. CASE Reader
  BY <1>a, <1>14 DEF Reader, InputInv, DataOK, clientVars
<1>15. CASE ClientLine
  BY <1>a, <1>15, ClientLineCases DEF Answer, Remark, Quit, clientVars, workerVars, InputInv, DataOK
<1>16. CASE ClientExits
  BY <1>a, <1>16 DEF ClientExits, workerVars, InputInv, DataOK, clientVars
<1>17. CASE ClientGone
  BY <1>a, <1>17 DEF ClientGone, workerVars, InputInv, DataOK, clientVars
<1>18. CASE Cancel
  BY <1>a, <1>18 DEF Cancel, InputInv, DataOK, clientVars
<1>19. CASE UNCHANGED vars
  BY <1>a, <1>19 DEF vars, InputInv, DataOK
<1> QED
  BY <1>1, <1>2, <1>3, <1>4, <1>5, <1>6, <1>7, <1>8, <1>9, <1>10, <1>11, <1>12, <1>13,
     <1>14, <1>15, <1>16, <1>17, <1>18, <1>19 DEF Next, Worker

(* What moves on the way to the worker stays output.                       *)
LEMMA TakeMoves ==
  ASSUME Inv, Take
  PROVE  /\ Output' = Output /\ Held(queue) = {Head(queue)} \cup Held(queue')
         /\ \A item : AtEnd(item, queue) =>
              AtEnd(item, queue') /\ (item = Head(queue) => Held(queue') \subseteq {Eof})
<1>1. queue \in Seq(Items) /\ queue # <<>> /\ queue' = Tail(queue) /\ stdout' = stdout
  BY TypeParts DEF Inv, DataOK, Take
<1>2. /\ Held(queue) = {Head(queue)} \cup Held(queue')
      /\ \A item : AtEnd(item, queue) =>
           AtEnd(item, queue') /\ (item = Head(queue) => Held(queue') \subseteq {Eof})
  BY <1>1, TailHolds
<1>3. buffer' = IF Head(queue) = Eof THEN buffer ELSE buffer \cup {Head(queue)}
  BY DEF Take
<1>4. Output' = Output
  BY <1>1, <1>2, <1>3 DEF Output
<1> QED
  BY <1>2, <1>4

LEMMA ReaderMoves ==
  ASSUME Inv, Reader
  PROVE  /\ Output' = Output /\ Eof \notin Held(queue) /\ UNCHANGED <<at, cmd, client, buffer>>
         /\ \/ /\ reader' /\ stdout # <<>>
               /\ Head(stdout) \in Held(stdout) /\ Head(stdout) # Eof
               /\ Held(queue') = Held(queue) \cup {Head(stdout)}
               /\ Held(stdout) = {Head(stdout)} \cup Held(stdout')
               /\ \A item : AtEnd(item, stdout) =>
                    AtEnd(item, stdout') /\ (item = Head(stdout) => stdout' = <<>>)
               /\ \A item : AtEnd(item, queue) /\ item \notin Held(queue) => AtEnd(item, queue')
            \/ /\ ~ reader' /\ client \in {"dying", "dead"} /\ stdout = <<>> /\ stdout' = <<>>
               /\ Held(queue') = Held(queue) \cup {Eof}
               /\ \A item : AtEnd(item, queue) => AtEnd(item, queue')
<1>1. /\ queue \in Seq(Items) /\ stdout \in Seq(Items) /\ Eof \in Items
      /\ Eof \notin Held(queue) /\ Eof \notin Held(stdout) /\ buffer' = buffer
      /\ UNCHANGED <<at, cmd, client>>
  BY TypeParts, LineTypes DEF Inv, DataOK, Reader, ReaderInv, clientVars
<1>2. CASE stdout # <<>> /\ queue' = Append(queue, Head(stdout)) /\ stdout' = Tail(stdout)
           /\ UNCHANGED reader
  <2>1. /\ Head(stdout) \in Items
        /\ Tail(stdout) \in Seq(Items)
        /\ Held(stdout) = {Head(stdout)} \cup Held(stdout')
        /\ \A item : AtEnd(item, stdout) =>
             AtEnd(item, stdout') /\ (item = Head(stdout) => Held(stdout') \subseteq {Eof})
    BY <1>1, <1>2, TailHolds
  <2>2. /\ Held(queue') = Held(queue) \cup {Head(stdout)}
        /\ \A item : AtEnd(item, queue) /\ item \notin Held(queue) => AtEnd(item, queue')
    BY <1>1, <1>2, <2>1, AppendHolds
  <2>3. Held(stdout') \subseteq {Eof} => stdout' = <<>>
    <3>1. Held(stdout') \subseteq {Eof} => Held(stdout') = {}
      BY <1>1, <2>1
    <3> QED
      BY <1>2, <2>1, <3>1, NothingHeld
  <2>4. Output' = Output
    BY <1>1, <2>1, <2>2 DEF Output
  <2>5. reader'
    BY <1>2 DEF Reader
  <2> QED
    BY <1>1, <1>2, <2>1, <2>2, <2>3, <2>4, <2>5
<1>3. CASE stdout = <<>> /\ client \in {"dying", "dead"} /\ queue' = Append(queue, Eof)
           /\ reader' = FALSE /\ UNCHANGED stdout
  <2>1. /\ Held(queue') = Held(queue) \cup {Eof}
        /\ \A item : AtEnd(item, queue) => AtEnd(item, queue')
    BY <1>1, <1>3, AppendHolds
  <2>2. Output' = Output
    BY <1>1, <1>3, <2>1 DEF Output
  <2>3. stdout' = <<>>
    BY <1>3
  <2> QED
    BY <1>1, <1>3, <2>1, <2>2, <2>3
<1> QED
  BY <1>2, <1>3 DEF Reader

(* What the client says is of the current command; nothing comes after its *)
(* marker.                                                                 *)
LEMMA ClientSays ==
  ASSUME Inv, ClientLine
  PROVE  /\ client = "alive" /\ reader /\ UNCHANGED workerVars
         /\ \/ stdout' = stdout /\ Output' = Output /\ (Answer \/ Quit)
            \/ \E item \in Items :
                 /\ item # Eof /\ item.of = cmd
                 /\ (item # Marker /\ Answer) \/ (item = Marker /\ Remark)
                 /\ stdout' # <<>> /\ Output' = Output \cup {item}
                 /\ Held(stdout') = Held(stdout) \cup {item}
                 /\ \A x : AtEnd(x, stdout) /\ x \notin Held(stdout) => AtEnd(x, stdout')
<1>1. /\ client = "alive" /\ reader /\ UNCHANGED workerVars /\ (Answer \/ Remark \/ Quit)
      /\ stdout \in Seq(Items) /\ queue' = queue /\ buffer' = buffer /\ Marker \in Items
  <2>1. client = "alive" /\ UNCHANGED workerVars /\ (Answer \/ Remark \/ Quit)
    BY ClientLineCases DEF Inv
  <2>2. reader
    BY <2>1 DEF Inv, ReaderInv
  <2>3. cmd \in 0..Commands
    BY DEF Inv, TypeOK
  <2>4. Marker \in Items
    BY <2>3, LineTypes DEF Inv, Marker
  <2>5. stdout \in Seq(Items)
    BY DEF Inv, TypeOK
  <2> QED
    BY <2>1, <2>2, <2>4, <2>5 DEF workerVars
<1>2. CASE stdout' = stdout /\ (Answer \/ Quit)
  <2>1. Output' = Output
    BY <1>1, <1>2 DEF Output
  <2> QED
    BY <1>1, <1>2, <2>1
<1>3. ASSUME NEW item \in Items, item # Eof, item.of = cmd,
             (item # Marker /\ Answer) \/ (item = Marker /\ Remark),
             stdout' = Append(stdout, item)
      PROVE  /\ stdout' # <<>> /\ Output' = Output \cup {item}
             /\ Held(stdout') = Held(stdout) \cup {item}
             /\ \A x : AtEnd(x, stdout) /\ x \notin Held(stdout) => AtEnd(x, stdout')
  <2>1. /\ stdout' # <<>>
        /\ Held(stdout') = Held(stdout) \cup {item}
        /\ \A x : AtEnd(x, stdout) /\ x \notin Held(stdout) => AtEnd(x, stdout')
    BY <1>1, <1>3, AppendHolds
  <2>2. Output' = Output \cup {item}
    BY <1>1, <1>3, <2>1 DEF Output
  <2> QED
    BY <2>1, <2>2
<1>4. CASE Remark
  <2>1. stdout' = Append(stdout, Marker) /\ Marker # Eof /\ Marker.of = cmd
    BY <1>4 DEF Remark, Marker, Line, Eof
  <2>2. /\ stdout' # <<>> /\ Output' = Output \cup {Marker}
        /\ Held(stdout') = Held(stdout) \cup {Marker}
        /\ \A x : AtEnd(x, stdout) /\ x \notin Held(stdout) => AtEnd(x, stdout')
    BY <1>1, <1>3, <1>4, <2>1
  <2> QED
    BY <1>1, <1>4, <2>1, <2>2
<1>5. ASSUME Answer, NEW kind \in {"text", "error"}, stdout' = Append(stdout, Line(kind, cmd))
      PROVE  \E item \in Items :
                 /\ item # Eof /\ item.of = cmd
                 /\ (item # Marker /\ Answer) \/ (item = Marker /\ Remark)
                 /\ stdout' # <<>> /\ Output' = Output \cup {item}
                 /\ Held(stdout') = Held(stdout) \cup {item}
                 /\ \A x : AtEnd(x, stdout) /\ x \notin Held(stdout) => AtEnd(x, stdout')
  <2> DEFINE item == Line(kind, cmd)
  <2>1. item # Marker /\ item # Eof /\ item.of = cmd
    BY <1>5 DEF Marker, Line, Eof
  <2>2. item \in Items
    BY <1>5, LineTypes DEF Inv, TypeOK
  <2>3. stdout' = Append(stdout, item)
    BY <1>5
  <2> HIDE DEF item
  <2>4. /\ stdout' # <<>> /\ Output' = Output \cup {item}
        /\ Held(stdout') = Held(stdout) \cup {item}
        /\ \A x : AtEnd(x, stdout) /\ x \notin Held(stdout) => AtEnd(x, stdout')
    BY <1>3, <1>5, <2>1, <2>2, <2>3
  <2> QED
    BY <1>5, <2>1, <2>2, <2>4
<1>6. CASE Answer /\ stdout' # stdout
  <2>1. PICK kind \in {"text", "error"} : stdout' = Append(stdout, Line(kind, cmd))
    BY <1>6 DEF Answer
  <2> QED
    BY <1>1, <1>5, <1>6, <2>1
<1>7. Quit => stdout' = stdout
  BY DEF Quit
<1> QED
  BY <1>1, <1>2, <1>4, <1>6, <1>7

LEMMA ReaderStep ==
  ASSUME Inv, [Next]_vars
  PROVE  ReaderInv'
<1>a. DataOK /\ PlaceInv /\ ReaderInv
  BY TypeParts DEF Inv
<1>1. CASE Open
  BY <1>a, <1>1 DEF Open, Leave, ReaderInv, PlaceInv
<1>2. CASE Handshake
  BY <1>a, <1>2 DEF Handshake, Leave, Written, Terminate, Broken, ReaderInv, DataOK, clientVars
<1>3. CASE Check
  BY <1>a, <1>3 DEF Check, Leave, Terminate, ReaderInv, DataOK, clientVars
<1>4. CASE Take
  BY <1>a, <1>4, TakeMoves DEF Take, clientVars, ReaderInv, DataOK
<1>5. CASE Empty
  BY <1>a, <1>5 DEF Empty, Polled, ReaderInv, DataOK, clientVars
<1>6. CASE Classify
  BY <1>a, <1>6 DEF Classify, Polled, Leave, Report, ReaderInv, DataOK, clientVars
<1>7. CASE NextCommand
  BY <1>a, <1>7 DEF NextCommand, Polled, Leave, ReaderInv, DataOK, clientVars
<1>8. CASE Send
  BY <1>a, <1>8 DEF Send, Broken, Report, Written, ReaderInv, DataOK, clientVars
<1>9. CASE Mark
  BY <1>a, <1>9 DEF Mark, Broken, Leave, Report, Written, ReaderInv, DataOK, clientVars
<1>10. CASE Close
  BY <1>a, <1>10 DEF Close, Leave, Written, Terminate, ReaderInv, DataOK, clientVars
<1>11. CASE Wait
  BY <1>a, <1>11 DEF Wait, Leave, Terminate, ReaderInv, DataOK, clientVars
<1>12. CASE Join
  BY <1>a, <1>12 DEF Join, Leave, ReaderInv, DataOK, clientVars
<1>13. CASE Expire
  BY <1>a, <1>13 DEF Expire, Leave, Report, Terminate, ReaderInv, DataOK, clientVars
<1>14. CASE Reader
  BY <1>a, <1>14, ReaderMoves DEF ReaderInv
<1>15. CASE ClientLine
  BY <1>a, <1>15, ClientSays DEF Answer, Remark, Quit, clientVars, workerVars, ReaderInv
<1>16. CASE ClientExits
  BY <1>a, <1>16 DEF ClientExits, workerVars, ReaderInv, DataOK, clientVars
<1>17. CASE ClientGone
  BY <1>a, <1>17 DEF ClientGone, workerVars, ReaderInv, DataOK, clientVars
<1>18. CASE Cancel
  BY <1>a, <1>18 DEF Cancel, ReaderInv, DataOK, clientVars
<1>19. CASE UNCHANGED vars
  BY <1>a, <1>19 DEF vars, ReaderInv, DataOK
<1> QED
  BY <1>1, <1>2, <1>3, <1>4, <1>5, <1>6, <1>7, <1>8, <1>9, <1>10, <1>11, <1>12, <1>13,
     <1>14, <1>15, <1>16, <1>17, <1>18, <1>19 DEF Next, Worker

LEMMA TypedOutput ==
  ASSUME DataOK
  PROVE  \A item \in Output : item \in Items /\ item.of \in Int
<1>1. \A item \in Items : item.of \in Int
  BY SessionParameters DEF Items
<1>2. Held(queue) \subseteq Items /\ Held(stdout) \subseteq Items /\ buffer \subseteq Items
  BY DEF DataOK, Held
<1> QED
  BY <1>1, <1>2 DEF Output

LEMMA MarkerStep ==
  ASSUME Inv, [Next]_vars
  PROVE  MarkerInv'
<1>a. DataOK /\ PlaceInv /\ ReaderInv /\ MarkerInv
  BY TypeParts DEF Inv
<1>1. CASE Open
  <2>1. Output' = Output /\ Output = {} /\ Marker' = Marker /\ UNCHANGED <<queue, stdout, buffer, cmd>>
    BY <1>a, <1>1, EmptyHolds DEF Output, Marker, Open, Leave, PlaceInv, ReaderInv
  <2> QED
    BY <1>a, <1>1, <2>1 DEF Open, Leave, MarkerInv, Marked, Quiet
<1>2. CASE Handshake
  <2>1. Output' = Output /\ Marker' = Marker /\ UNCHANGED <<queue, stdout, buffer, cmd>>
    BY <1>2 DEF Output, Marker, Handshake, Leave, Written, Terminate, clientVars
  <2> QED
    BY <1>a, <1>2, <2>1 DEF Handshake, Leave, Written, Terminate, clientVars, MarkerInv, Marked, Quiet, DataOK, PlaceInv
<1>3. CASE Check
  <2>1. Output' = Output /\ Marker' = Marker /\ UNCHANGED <<queue, stdout, buffer, cmd>>
    BY <1>3 DEF Output, Marker, Check, Leave, Terminate, clientVars
  <2> QED
    BY <1>a, <1>3, <2>1 DEF Check, Leave, Terminate, clientVars, MarkerInv, Marked, Quiet, DataOK, PlaceInv
<1>4. CASE Take
  <2>1. /\ Output' = Output /\ Marker' = Marker
        /\ Held(queue) = {Head(queue)} \cup Held(queue')
        /\ \A item : AtEnd(item, queue) =>
              AtEnd(item, queue') /\ (item = Head(queue) => Held(queue') \subseteq {Eof})
        /\ UNCHANGED <<stdout, cmd, client, stdin, result>>
    BY <1>4, TakeMoves DEF Take, Marker, clientVars
  <2>2. AtEnd(Marker, queue) /\ AtEnd(Eof, queue) /\ Marker # Eof
    BY <1>a DEF MarkerInv, ReaderInv, Marker, Line, Eof
  <2>3. CASE Head(queue) = Eof
    <3>1. at' = "classify" /\ buffer' = buffer /\ client # "alive" /\ Quiet'
      BY <1>a, <1>4, <2>1, <2>2, <2>3 DEF Take, ReaderInv, Quiet
    <3> QED
      BY <1>a, <2>1, <2>2, <3>1 DEF MarkerInv, Marked
  <2>4. CASE Head(queue) = Marker
    <3>1. at' = "classify" /\ buffer' = buffer \cup {Marker} /\ Quiet' /\ Marked(cmd)'
      BY <1>a, <1>4, <2>1, <2>2, <2>4 DEF Take, MarkerInv, Quiet, Marker, Marked
    <3> QED
      BY <1>a, <2>1, <2>2, <3>1 DEF MarkerInv
  <2>5. CASE Head(queue) # Eof /\ Head(queue) # Marker
    <3>1. at' = "check" /\ buffer' = buffer \cup {Head(queue)}
      BY <1>4, <2>5 DEF Take, Marker
    <3>2. ~ Marked(cmd)'
      BY <1>a, <2>1, <2>5, <3>1 DEF MarkerInv, Marked, Quiet, Marker
    <3> QED
      BY <1>a, <1>4, <2>1, <2>2, <3>1, <3>2 DEF MarkerInv, Take
  <2> QED
    BY <2>3, <2>4, <2>5
<1>5. CASE Empty
  <2>1. Output' = Output /\ Marker' = Marker /\ UNCHANGED <<queue, stdout, buffer, cmd>>
    BY <1>5 DEF Output, Marker, Empty, clientVars, Polled
  <2> QED
    BY <1>a, <1>5, <2>1 DEF Empty, clientVars, Polled, MarkerInv, Marked, Quiet, DataOK, PlaceInv
<1>6. CASE Classify
  <2>1. Output' = Output /\ Marker' = Marker /\ UNCHANGED <<queue, stdout, buffer, cmd, client, stdin>>
        /\ at' \in {"next", "done"}
    BY <1>6 DEF Output, Marker, Classify, Leave, Report, clientVars
  <2> QED
    BY <1>a, <1>6, <2>1 DEF Classify, MarkerInv, Marked, Quiet
<1>7. CASE NextCommand
  <2>1. CASE at' = "send"
    <3>1. /\ cmd' = cmd + 1 /\ buffer' = {} /\ UNCHANGED <<queue, stdout, result>>
          /\ Output' \subseteq Output
      BY <1>7, <2>1 DEF NextCommand, Leave, Output
    <3>2. Marker' \notin Output
      BY <1>a, <3>1 DEF MarkerInv, Marker, Line, DataOK
    <3>3. Marker' \notin Held(queue') /\ Marker' \notin Held(stdout') /\ Marker' # Eof
      BY <3>1, <3>2 DEF Output, Marker, Line, Eof
    <3>4. AtEnd(Marker', queue') /\ AtEnd(Marker', stdout')
      BY <3>3, NotHeldAtEnd
    <3>9. \A item \in Output : item.of \in Int
      BY <1>a, TypedOutput
    <3>5. \A item \in Output' : item.of <= cmd'
      BY <1>a, <3>1, <3>9 DEF MarkerInv, DataOK
    <3>6. ~ Marked(cmd)'
      BY <3>1 DEF Marked
    <3> QED
      BY <2>1, <3>1, <3>2, <3>3, <3>4, <3>5, <3>6 DEF MarkerInv
  <2>2. CASE at' # "send"
    <3>1. at' = "close" /\ Output' = Output /\ Marker' = Marker /\ UNCHANGED <<queue, stdout, buffer, cmd>>
      BY <1>7, <2>2 DEF NextCommand, Leave, Output, Marker
    <3> QED
      BY <1>a, <3>1 DEF MarkerInv, Marked, Quiet
  <2> QED
    BY <2>1, <2>2
<1>8. CASE Send
  <2>1. Output' = Output /\ Marker' = Marker /\ UNCHANGED <<queue, stdout, buffer, cmd>>
    BY <1>8 DEF Output, Marker, Send, Report, Written, clientVars
  <2>2. \/ at' = "mark" /\ UNCHANGED result
        \/ at' = "next" /\ cmd \in Cmd /\ result'[cmd].ok = FALSE
    <3>1. cmd \in Cmd /\ result \in [Cmd -> Results]
      BY <1>a, <1>8, SessionParameters DEF Send, PlaceInv, DataOK, Cmd
    <3> QED
      BY <3>1, <1>8 DEF Send, Report
  <2> QED
    BY <1>a, <1>8, <2>1, <2>2 DEF Send, MarkerInv, Marked, Quiet, PlaceInv
<1>9. CASE Mark
  <2>1. Output' = Output /\ Marker' = Marker /\ UNCHANGED <<queue, stdout, buffer, cmd>>
    BY <1>9 DEF Output, Marker, Mark, Leave, Report, Written, clientVars
  <2>2. \/ at' = "check" /\ UNCHANGED result
        \/ at' = "next" /\ cmd \in Cmd /\ result'[cmd].ok = FALSE
    <3>1. cmd \in Cmd /\ result \in [Cmd -> Results]
      BY <1>a, <1>9, SessionParameters DEF Mark, PlaceInv, DataOK, Cmd
    <3> QED
      BY <3>1, <1>9 DEF Mark, Leave, Report
  <2> QED
    BY <1>a, <1>9, <2>1, <2>2 DEF Mark, MarkerInv, Marked, Quiet, PlaceInv
<1>10. CASE Close
  <2>1. Output' = Output /\ Marker' = Marker /\ UNCHANGED <<queue, stdout, buffer, cmd>>
    BY <1>10 DEF Output, Marker, Close, Leave, Written, Terminate, clientVars
  <2> QED
    BY <1>a, <1>10, <2>1 DEF Close, Leave, Written, Terminate, clientVars, MarkerInv, Marked, Quiet, DataOK, PlaceInv
<1>11. CASE Wait
  <2>1. Output' = Output /\ Marker' = Marker /\ UNCHANGED <<queue, stdout, buffer, cmd>>
    BY <1>11 DEF Output, Marker, Wait, Leave, Terminate, clientVars
  <2> QED
    BY <1>a, <1>11, <2>1 DEF Wait, Leave, Terminate, clientVars, MarkerInv, Marked, Quiet, DataOK, PlaceInv
<1>12. CASE Join
  <2>1. Output' = Output /\ Marker' = Marker /\ UNCHANGED <<queue, stdout, buffer, cmd>>
    BY <1>12 DEF Output, Marker, Join, Leave, clientVars
  <2> QED
    BY <1>a, <1>12, <2>1 DEF Join, Leave, clientVars, MarkerInv, Marked, Quiet, DataOK, PlaceInv
<1>13. CASE Expire
  <2>1. Output' = Output /\ Marker' = Marker /\ UNCHANGED <<queue, stdout, buffer, cmd>>
        /\ client' = "dead" /\ at' \in {"next", "done"}
    BY <1>13 DEF Output, Marker, Expire, Leave, Report, Terminate
  <2> QED
    BY <1>a, <1>13, <2>1 DEF MarkerInv, Marked, Quiet
<1>14. CASE Reader
  <2>1. Output' = Output /\ Marker' = Marker /\ UNCHANGED <<at, cmd, client, buffer, stdin, result>>
    BY <1>14, ReaderMoves DEF Reader, Marker, clientVars
  <2>2. CASE stdout # <<>>
    <3>1. ~ Marked(cmd) /\ Marker \notin Held(queue)
      BY <1>a, <2>2 DEF MarkerInv, Quiet
    <3>2. /\ Marker \in Held(queue') => stdout' = <<>>
          /\ AtEnd(Marker, queue') /\ AtEnd(Marker, stdout')
      BY <1>a, <1>14, <2>2, <3>1, ReaderMoves DEF MarkerInv
    <3> QED
      BY <1>a, <2>1, <2>2, <3>1, <3>2 DEF MarkerInv, Marked, Quiet
  <2>3. CASE stdout = <<>>
    <3>1. /\ stdout' = <<>> /\ Held(queue') = Held(queue) \cup {Eof}
          /\ AtEnd(Marker, queue')
      BY <1>a, <1>14, <2>3, ReaderMoves DEF MarkerInv
    <3>2. Quiet => Quiet'
      BY <3>1 DEF Quiet
    <3> QED
      BY <1>a, <2>1, <2>3, <3>1, <3>2 DEF MarkerInv, Marked
  <2> QED
    BY <2>2, <2>3
<1>15. CASE ClientLine
  <2>1. Marker' = Marker /\ UNCHANGED <<at, cmd, buffer, queue, result>> /\ client = "alive"
    BY <1>15, ClientSays DEF workerVars, Marker
  <2>2. CASE Quit /\ Output' = Output /\ stdout' = stdout
    BY <1>a, <2>1, <2>2 DEF Quit, MarkerInv, Marked, Quiet
  <2>3. ASSUME Answer \/ Remark
        PROVE  at \in {"mark", "check", "get"} /\ Marker \notin Output /\ ~ Marked(cmd)
    <3>1. stdin # <<>> /\ at \in {"mark", "check", "get"}
      <4>1. Answer => stdin # <<>> /\ at \in {"mark", "check", "get"}
        BY DEF Answer, Pending
      <4>2. Remark => stdin # <<>> /\ at \in {"mark", "check", "get"}
        BY DEF Remark
      <4> QED
        BY <2>3, <4>1, <4>2
    <3>2. Marker \notin Output
      BY <1>a, <2>1, <3>1 DEF MarkerInv
    <3> QED
      BY <3>1, <3>2 DEF Output, Marked, Marker, Line, Eof
  <2>4. CASE Answer /\ Output' = Output /\ stdout' = stdout
    BY <1>a, <2>1, <2>3, <2>4 DEF MarkerInv, Marked
  <2>5. ASSUME NEW item \in Items,
               item # Eof, item.of = cmd,
               (item # Marker /\ Answer) \/ (item = Marker /\ Remark),
               Output' = Output \cup {item},
               Held(stdout') = Held(stdout) \cup {item},
               \A x : AtEnd(x, stdout) /\ x \notin Held(stdout) => AtEnd(x, stdout')
        PROVE  MarkerInv'
    <3>1. /\ at \in {"mark", "check", "get"} /\ Marker \notin Output /\ ~ Marked(cmd)
          /\ Marker \notin Held(queue) /\ Marker \notin Held(stdout)
      BY <2>3, <2>5 DEF Output, Marker, Line, Eof
    <3>2. AtEnd(Marker, queue) /\ AtEnd(Marker, stdout')
      BY <1>a, <2>5, <3>1 DEF MarkerInv
    <3>3. CASE Answer /\ item # Marker
      BY <1>a, <2>1, <2>5, <3>1, <3>2, <3>3 DEF MarkerInv, Marked, DataOK
    <3>4. CASE Remark /\ item = Marker
      BY <1>a, <2>1, <2>5, <3>1, <3>2, <3>4 DEF MarkerInv, Marked, DataOK, Remark
    <3> QED
      BY <2>5, <3>3, <3>4
  <2> QED
    BY <1>15, <2>2, <2>4, <2>5, ClientSays
<1>16. CASE ClientExits
  <2>1. Output' = Output /\ Marker' = Marker /\ UNCHANGED <<queue, stdout, buffer, cmd>>
    BY <1>16 DEF Output, Marker, ClientExits, workerVars
  <2> QED
    BY <1>a, <1>16, <2>1 DEF ClientExits, workerVars, MarkerInv, Marked, Quiet, DataOK, PlaceInv
<1>17. CASE ClientGone
  <2>1. Output' = Output /\ Marker' = Marker /\ UNCHANGED <<queue, stdout, buffer, cmd>>
    BY <1>17 DEF Output, Marker, ClientGone, workerVars
  <2> QED
    BY <1>a, <1>17, <2>1 DEF ClientGone, workerVars, MarkerInv, Marked, Quiet, DataOK, PlaceInv
<1>18. CASE Cancel
  <2>1. Output' = Output /\ Marker' = Marker /\ UNCHANGED <<queue, stdout, buffer, cmd>>
    BY <1>18 DEF Output, Marker, Cancel, clientVars
  <2> QED
    BY <1>a, <1>18, <2>1 DEF Cancel, clientVars, MarkerInv, Marked, Quiet, DataOK, PlaceInv
<1>19. CASE UNCHANGED vars
  <2>1. Output' = Output /\ Marker' = Marker /\ UNCHANGED <<queue, stdout, buffer, cmd>>
    BY <1>19 DEF Output, Marker, vars, clientVars
  <2> QED
    BY <1>a, <1>19, <2>1 DEF vars, clientVars, MarkerInv, Marked, Quiet, DataOK, PlaceInv
<1> QED
  BY <1>1, <1>2, <1>3, <1>4, <1>5, <1>6, <1>7, <1>8, <1>9, <1>10, <1>11, <1>12, <1>13,
     <1>14, <1>15, <1>16, <1>17, <1>18, <1>19 DEF Next, Worker

LEMMA PendingIs == Pending \in {0, 1} /\ (client # "alive" \/ stdin = <<>> => Pending = 0)
BY DEF Pending

LEMMA PendingKept ==
  ASSUME UNCHANGED <<client, stdin, cmd>>
  PROVE  Pending' = Pending
BY DEF Pending

LEMMA PendingGone ==
  ASSUME client' # "alive" \/ stdin' = <<>>
  PROVE  Pending' = 0
BY DEF Pending

LEMMA MarkPending ==
  ASSUME TypeOK, InputInv, Mark, client = "alive"
  PROVE  Pending' = Pending
<1>1. client' = client /\ cmd' = cmd
  BY DEF Mark, Leave, Written, Report, clientVars
<1>2. client = "alive" => stdin' = Append(stdin, Line("remark", cmd))
  BY DEF Mark, Written, Broken
<1>3. CASE client = "alive" /\ stdin = <<>>
  <2>1. stdin' = <<Line("remark", cmd)>>
    BY <1>2, <1>3, AppendShort
  <2> QED
    BY <1>1, <1>3, <2>1 DEF Pending, Line
<1>4. CASE client = "alive" /\ stdin = <<Line("command", cmd)>>
  <2>1. stdin' = <<Line("command", cmd), Line("remark", cmd)>>
    BY <1>2, <1>4, AppendShort
  <2> QED
    BY <1>1, <1>4, <2>1 DEF Pending, Line
<1> QED
  BY <1>3, <1>4 DEF InputInv, Mark

LEMMA LateStep ==
  ASSUME Inv, [Next]_vars
  PROVE  LateInv'
<1>a. TypeOK /\ FlagsOK /\ DataOK /\ PlaceInv /\ InputInv /\ ReaderInv /\ LateInv
  BY TypeParts DEF Inv
<1>1. CASE Open
  <2>1. Pending' = 0
    BY <1>a, <1>1, PendingGone DEF Open, ReaderInv, PlaceInv
  <2> QED
    BY <1>a, <1>1, <2>1, PendingIs DEF Open, Leave, LateInv, DataOK, PlaceInv
<1>2. CASE Handshake
  <2>1. late' = late /\ UNCHANGED <<cmd, cancelled>> /\ Pending' = 0
    <3>1. CASE Written(Line("remark", 0))
      <4>1. client' = client /\ (client = "alive" => stdin' = <<Line("remark", 0)>>)
        BY <1>a, <1>2, <3>1, AppendShort DEF Handshake, Written, clientVars, InputInv
      <4> QED
        BY <1>2, <3>1, <4>1 DEF Handshake, Leave, Written, clientVars, Pending, Line
    <3>2. CASE Terminate
      BY <1>2, <3>2, PendingGone DEF Handshake, Leave, Terminate
    <3> QED
      BY <1>2, <3>1, <3>2 DEF Handshake
  <2> QED
    BY <1>a, <1>2, <2>1, PendingIs DEF Handshake, Leave, LateInv, DataOK, PlaceInv
<1>3. CASE Check
  <2>1. CASE cancelled /\ Terminate
    <3>1. Pending' = 0 /\ client' = "dead"
      BY <2>1, PendingGone DEF Terminate
    <3> QED
      BY <1>a, <1>3, <2>1, <3>1, PendingIs DEF Check, Leave, LateInv, DataOK, Terminate
  <2>2. CASE ~ cancelled /\ UNCHANGED <<clientVars, stdin, stdout>> /\ Leave("get")
    <3>1. Pending' = Pending
      BY <2>2, PendingKept DEF clientVars, Leave
    <3> QED
      BY <1>a, <1>3, <2>2, <3>1, PendingIs DEF Check, Leave, LateInv, DataOK, clientVars
  <2> QED
    BY <1>3, <2>1, <2>2 DEF Check
<1>4. CASE Take
  <2>1. Pending' = Pending
    BY <1>4, PendingKept DEF Take, clientVars
  <2> QED
    BY <1>a, <1>4, <2>1 DEF Take, clientVars, LateInv, DataOK
<1>5. CASE Empty
  <2>1. Pending' = Pending
    BY <1>5, PendingKept DEF Empty, clientVars, Polled
  <2> QED
    BY <1>a, <1>5, <2>1 DEF Empty, clientVars, Polled, LateInv, DataOK
<1>6. CASE Classify
  <2>1. late' = late /\ UNCHANGED <<cmd, client, stdin, cancelled>> /\ at' \in {"next", "done"}
    BY <1>6 DEF Classify, Leave, Report, clientVars
  <2>2. Pending' = Pending
    BY <2>1, PendingKept
  <2> QED
    BY <1>a, <1>6, <2>1, <2>2 DEF Classify, LateInv, DataOK
<1>7. CASE NextCommand
  <2>1. Pending' = 0
    BY <1>a, <1>7, PendingGone DEF NextCommand, clientVars, InputInv
  <2> QED
    BY <1>a, <1>7, <2>1, PendingIs DEF NextCommand, Leave, clientVars, LateInv, DataOK
<1>8. CASE Send
  <2>1. late' = late /\ cmd' = cmd /\ UNCHANGED <<client, cancelled>> /\ Pending' \in {0, 1}
        /\ at' \in {"mark", "next"} /\ (at' = "next" => client # "alive")
    BY <1>8, PendingIs DEF Send, Written, Report, clientVars, Broken, Pending
  <2>2. client # "alive" => Pending' = 0
    BY <2>1, PendingGone
  <2>3. Pending = 0
    BY <1>a, <1>8 DEF Send, InputInv, Pending
  <2>4. late <= cmd - 1 /\ late <= 2 /\ (client = "alive" => late <= 1)
    BY <1>a, <1>8, <2>3 DEF Send, LateInv, DataOK
  <2>5. late + Pending' <= cmd /\ late + Pending' <= 2
    <3>1. late \in Int /\ cmd \in Int
      BY <1>a, SessionParameters DEF DataOK
    <3>2. CASE Pending' = 0
      BY <2>4, <3>1, <3>2
    <3>3. CASE Pending' = 1
      BY <2>2, <2>4, <3>1, <3>3
    <3> QED
      BY <2>1, <3>2, <3>3
  <2> QED
    BY <1>a, <2>1, <2>2, <2>5 DEF LateInv
<1>9. CASE Mark
  <2>1. late' = late /\ cmd' = cmd /\ UNCHANGED <<client, cancelled>>
        /\ at' \in {"check", "next"} /\ (at' = "next" => client # "alive")
    BY <1>9 DEF Mark, Leave, Written, Report, clientVars, Broken
  <2>2. client # "alive" => Pending' = 0
    BY <2>1, PendingGone
  <2>3. client = "alive" => Pending' = Pending
    BY <1>a, <1>9, MarkPending
  <2> QED
    BY <1>a, <1>9, <2>1, <2>2, <2>3, PendingIs DEF Mark, LateInv, DataOK
<1>10. CASE Close
  <2>1. late' = late /\ cmd' = cmd /\ UNCHANGED cancelled /\ at' \in {"wait", "join"}
    BY <1>10 DEF Close, Leave, Written, Terminate, clientVars
  <2>2. Pending' = 0
    <3>1. CASE client' # "alive"
      BY <3>1, PendingGone
    <3>2. CASE client' = "alive"
      <4>1. stdin' = <<Line("quit", 0)>>
        BY <1>a, <1>10, <3>2, AppendShort DEF Close, Written, Terminate, clientVars, InputInv
      <4> QED
        BY <4>1 DEF Pending, Line
    <3> QED
      BY <3>1, <3>2
  <2> QED
    BY <1>a, <1>10, <2>1, <2>2, PendingIs DEF Close, LateInv, DataOK
<1>11. CASE Wait
  <2>1. Pending' = 0
    BY <1>11, PendingGone DEF Wait, Terminate, clientVars
  <2> QED
    BY <1>a, <1>11, <2>1, PendingIs DEF Wait, Leave, Terminate, clientVars, LateInv, DataOK
<1>12. CASE Join
  <2>1. Pending' = Pending
    BY <1>12, PendingKept DEF Join, Leave, clientVars
  <2> QED
    BY <1>a, <1>12, <2>1 DEF Join, Leave, clientVars, LateInv, DataOK
<1>13. CASE Expire
  <2>1. Pending' = 0 /\ late' = late /\ client' = "dead" /\ UNCHANGED <<cmd, cancelled>>
        /\ at' \in {"next", "done"}
    BY <1>13, PendingGone DEF Expire, Leave, Report, Terminate
  <2> QED
    BY <1>a, <1>13, <2>1, PendingIs DEF Expire, LateInv, DataOK
<1>14. CASE Reader
  <2>1. Pending' = Pending
    BY <1>14, PendingKept DEF Reader, clientVars
  <2> QED
    BY <1>a, <1>14, <2>1 DEF Reader, clientVars, LateInv, DataOK
<1>15. CASE ClientLine
  <2>1. UNCHANGED <<at, cmd, cancelled>> /\ client = "alive" /\ (Answer \/ Remark \/ Quit)
    BY <1>a, <1>15, ClientLineCases DEF workerVars
  <2>2. CASE Answer
    <3>1. Pending' = 0
      BY <2>1, <2>2 DEF Answer, Pending, Line
    <3>2. Pending = 1 /\ at \in {"mark", "check", "get"} /\ late' = late + (IF cancelled THEN 1 ELSE 0)
      BY <2>2 DEF Answer
    <3> QED
      BY <1>a, <2>1, <3>1, <3>2 DEF LateInv, DataOK
  <2>3. CASE Remark \/ Quit
    <3>1. Pending' = 0 /\ late' = late /\ at \in {"check", "get", "wait"}
      BY <2>3, PendingGone DEF Remark, Quit, clientVars
    <3> QED
      BY <1>a, <2>1, <3>1, PendingIs DEF LateInv, DataOK
  <2> QED
    BY <2>1, <2>2, <2>3
<1>16. CASE ClientExits
  <2>1. Pending' = 0
    BY <1>16, PendingGone DEF ClientExits
  <2> QED
    BY <1>a, <1>16, <2>1, PendingIs DEF ClientExits, workerVars, LateInv, DataOK
<1>17. CASE ClientGone
  <2>1. Pending' = 0
    BY <1>17, PendingGone DEF ClientGone
  <2> QED
    BY <1>a, <1>17, <2>1, PendingIs DEF ClientGone, workerVars, LateInv, DataOK
<1>18. CASE Cancel
  <2>1. Pending' = Pending
    BY <1>18, PendingKept DEF Cancel, clientVars
  <2> QED
    BY <1>a, <1>18, <2>1 DEF Cancel, clientVars, LateInv, DataOK
<1>19. CASE UNCHANGED vars
  <2>1. Pending' = Pending
    BY <1>19, PendingKept DEF vars, clientVars
  <2> QED
    BY <1>a, <1>19, <2>1 DEF vars, clientVars, LateInv, DataOK
<1> QED
  BY <1>1, <1>2, <1>3, <1>4, <1>5, <1>6, <1>7, <1>8, <1>9, <1>10, <1>11, <1>12, <1>13,
     <1>14, <1>15, <1>16, <1>17, <1>18, <1>19 DEF Next, Worker

LEMMA CleanKept ==
  ASSUME DataOK, cmd' = cmd, \A c \in Cmd : c # cmd => result'[c] = result[c]
  PROVE  Clean' <=> Clean
<1>1. \A d \in 1..(cmd - 1) : d \in Cmd /\ d # cmd
  BY SessionParameters DEF DataOK, Cmd
<1> QED
  BY <1>1 DEF Clean

LEMMA ClassifyResult ==
  ASSUME DataOK, Classify
  PROVE  cmd' = cmd /\ \A c \in Cmd : c # cmd => result'[c] = result[c]
<1>1. cmd' = cmd /\ (result' = result \/ \E r : result' = [result EXCEPT ![cmd] = r])
  BY DEF Classify, Leave, Report
<1> QED
  BY <1>1 DEF DataOK

LEMMA OrderStep ==
  ASSUME Inv, [Next]_vars
  PROVE  OrderInv'
<1>a. TypeOK /\ DataOK /\ PlaceInv /\ InputInv /\ ReaderInv /\ MarkerInv /\ OrderInv
  BY TypeParts DEF Inv
<1>1. CASE Open
  <2>1. Output' = {} /\ cmd' = 0 /\ at' \in {"handshake", "done"}
    BY <1>a, <1>1, EmptyHolds DEF Output, Open, Leave, PlaceInv, ReaderInv
  <2> QED
    BY <2>1 DEF OrderInv
<1>2. CASE Handshake
  <2>1. Output' = Output /\ UNCHANGED <<cmd, executed>> /\ cmd = 0
    BY <1>a, <1>2 DEF Output, Handshake, Leave, Written, Terminate, clientVars, PlaceInv
  <2>2. Clean
    BY <2>1 DEF Clean
  <2>3. 1..cmd' = {} /\ 1..(cmd' - 1) = {}
    BY <2>1
  <2> QED
    BY <1>a, <2>1, <2>2, <2>3 DEF OrderInv
<1>3. CASE Check
  <2>1. /\ Output' = Output /\ UNCHANGED <<cmd, executed>> /\ at' \in {"get", "done", "close"}
        /\ client' = "dead" \/ UNCHANGED <<client, stdin>>
    BY <1>3 DEF Output, Check, Leave, Terminate, clientVars
  <2>3. client' = "dead" \/ (Pending' = Pending /\ client' = client)
    BY <2>1, PendingKept
  <2>2. Clean' <=> Clean
    BY <1>a, <1>3, CleanKept DEF Check, Leave
  <2> QED
    BY <1>a, <1>3, <2>1, <2>2, <2>3 DEF OrderInv, Check
<1>4. CASE Take
  <2>1. Pending' = Pending /\ Output' = Output
    BY <1>4, PendingKept, TakeMoves DEF Take, clientVars
  <2>2. Clean' <=> Clean
    BY <1>a, <1>4, CleanKept DEF Take
  <2>3. at' = "classify" => client # "alive" \/ Output # {}
    <3>1. CASE Head(queue) = Eof
      BY <1>a, <1>4, <3>1, TakeMoves DEF ReaderInv
    <3>2. CASE Head(queue) = Marker /\ Marker # Eof
      BY <3>2, <1>4, TakeMoves DEF Output
    <3> QED
      BY <1>4, <3>1, <3>2 DEF Take, Marker
  <2> QED
    BY <1>a, <1>4, <2>1, <2>2, <2>3 DEF Take, clientVars, OrderInv
<1>5. CASE Empty
  <2>1. Pending' = Pending /\ Output' = Output
    BY <1>5, PendingKept DEF Empty, clientVars, Output
  <2>2. Clean' <=> Clean
    BY <1>a, <1>5, CleanKept DEF Empty
  <2> QED
    BY <1>a, <1>5, <2>1, <2>2 DEF Empty, clientVars, OrderInv, Polled
<1>6. CASE Classify
  <2>1. Output' = Output /\ UNCHANGED <<cmd, executed, client>> /\ at' \in {"next", "done"}
    BY <1>6 DEF Output, Classify, Leave, Report, clientVars
  <2>2. Clean' <=> Clean
    BY <1>a, <1>6, ClassifyResult, CleanKept
  <2> QED
    BY <1>a, <1>6, <2>1, <2>2 DEF OrderInv, Classify
<1>7. CASE NextCommand
  <2>1. CASE at' = "send"
    <3>1. /\ cmd' = cmd + 1 /\ buffer' = {} /\ client # "dead" /\ cmd \in 0..Commands
          /\ UNCHANGED <<queue, stdout, result, executed, client>>
      BY <1>a, <1>7, <2>1 DEF NextCommand, Leave, clientVars, Polled, DataOK
    <3>2. cmd' - 1 = cmd /\ (Clean' => Clean /\ (cmd > 0 => result[cmd].ok))
      BY <3>1, SessionParameters DEF Clean
    <3>3. Clean' => Quiet
      BY <1>a, <1>7, <3>1, <3>2 DEF MarkerInv, NextCommand
    <3>4. Quiet => Output' = {}
      BY <3>1, EmptyHolds DEF Quiet, Output
    <3>5. Clean' /\ client = "alive" => 1..cmd \subseteq executed
      BY <1>a, <1>7, <3>2 DEF OrderInv, NextCommand
    <3> QED
      BY <2>1, <3>1, <3>2, <3>3, <3>4, <3>5 DEF OrderInv
  <2>2. CASE at' # "send"
    <3>1. at' = "close" /\ Output' = Output /\ UNCHANGED <<cmd, result, executed, client>>
      BY <1>7, <2>2 DEF NextCommand, Leave, Output, clientVars
    <3>2. Clean' <=> Clean
      BY <1>a, <3>1, CleanKept
    <3> QED
      BY <1>a, <3>1, <3>2 DEF OrderInv
  <2> QED
    BY <2>1, <2>2
<1>8. CASE Send
  <2>1. Output' = Output /\ UNCHANGED <<cmd, executed, client>> /\ at' \in {"mark", "next"}
        /\ (at' = "next" => client # "alive")
    BY <1>8 DEF Output, Send, Written, Report, clientVars, Broken
  <2>2. Clean' <=> Clean
    <3>1. \A c \in Cmd : c # cmd => result'[c] = result[c]
      BY <1>a, <1>8 DEF Send, Report, DataOK
    <3> QED
      BY <1>a, <2>1, <3>1, CleanKept
  <2>3. client = "alive" => Pending' = 1
    <3>1. client = "alive" => stdin' = <<Line("command", cmd)>>
      BY <1>a, <1>8, AppendShort DEF Send, Written, InputInv, Broken
    <3> QED
      BY <2>1, <3>1 DEF Pending
  <2> QED
    BY <1>a, <1>8, <2>1, <2>2, <2>3 DEF OrderInv, Send
<1>9. CASE Mark
  <2>1. Output' = Output /\ UNCHANGED <<cmd, executed, client>> /\ at' \in {"check", "next"}
        /\ (at' = "next" => client # "alive")
    BY <1>9 DEF Output, Mark, Leave, Written, Report, clientVars, Broken
  <2>2. Clean' <=> Clean
    <3>1. \A c \in Cmd : c # cmd => result'[c] = result[c]
      BY <1>a, <1>9 DEF Mark, Leave, Report, DataOK
    <3> QED
      BY <1>a, <2>1, <3>1, CleanKept
  <2>3. client = "alive" => Pending' = Pending
    BY <1>a, <1>9, MarkPending
  <2> QED
    BY <1>a, <1>9, <2>1, <2>2, <2>3 DEF OrderInv, Mark
<1>10. CASE Close
  <2>1. Output' = Output /\ UNCHANGED <<cmd, executed>> /\ at' \in {"wait", "join"}
    BY <1>10 DEF Output, Close, Leave, Written, Terminate, clientVars
  <2>2. Clean' <=> Clean
    BY <1>a, <1>10, CleanKept DEF Close, Leave, Written, Terminate, clientVars
  <2>3. client' = "alive" => client = "alive"
    BY <1>10 DEF Close, Written, Terminate, clientVars
  <2> QED
    BY <1>a, <1>10, <2>1, <2>2, <2>3 DEF OrderInv
<1>11. CASE Wait
  <2>1. Output' = Output /\ UNCHANGED <<cmd, executed>> /\ at' \in {"join"}
    BY <1>11 DEF Output, Wait, Leave, Terminate, clientVars
  <2>2. Clean' <=> Clean
    BY <1>a, <1>11, CleanKept DEF Wait, Leave, Terminate, clientVars
  <2>3. client' = "alive" => client = "alive"
    BY <1>11 DEF Wait, Terminate, clientVars
  <2> QED
    BY <1>a, <1>11, <2>1, <2>2, <2>3 DEF OrderInv
<1>12. CASE Join
  <2>1. Output' = Output /\ UNCHANGED <<cmd, executed, client>> /\ at' \in {"done"}
    BY <1>12 DEF Output, Join, Leave, clientVars
  <2>2. Clean' <=> Clean
    BY <1>a, <1>12, CleanKept DEF Join, Leave, clientVars
  <2> QED
    BY <1>a, <1>12, <2>1, <2>2 DEF OrderInv
<1>13. CASE Expire
  <2>1. Output' = Output /\ UNCHANGED <<cmd, executed>> /\ client' = "dead"
    BY <1>13 DEF Output, Expire, Leave, Report, Terminate
  <2>2. Clean' <=> Clean
    <3>1. \A c \in Cmd : c # cmd => result'[c] = result[c]
      BY <1>a, <1>13 DEF Expire, Leave, Report, DataOK
    <3> QED
      BY <1>a, <2>1, <3>1, CleanKept
  <2> QED
    BY <1>a, <2>1, <2>2 DEF OrderInv
<1>14. CASE Reader
  <2>1. Output' = Output /\ UNCHANGED <<at, cmd, executed, client, result>> /\ Pending' = Pending
    BY <1>14, ReaderMoves, PendingKept DEF Reader, clientVars
  <2>2. Clean' <=> Clean
    BY <1>a, <2>1, CleanKept
  <2> QED
    BY <1>a, <2>1, <2>2 DEF OrderInv
<1>15. CASE ClientLine
  <2>1. UNCHANGED <<at, cmd, result>> /\ client = "alive" /\ cmd \in 0..Commands
    BY <1>a, <1>15, ClientLineCases DEF workerVars, DataOK
  <2>2. Clean' <=> Clean
    BY <1>a, <2>1, CleanKept
  <2>3. CASE Answer
    <3>1. executed' = executed \cup {cmd} /\ at \in {"mark", "check", "get"} /\ cmd > 0
      BY <2>3 DEF Answer
    <3>2. Clean => 1..cmd \subseteq executed'
      BY <1>a, <2>1, <3>1, SessionParameters DEF OrderInv
    <3>3. \A item \in Output' : item \in Output \/ item.of = cmd
      BY <1>15, ClientSays
    <3>4. 1..(cmd - 1) \subseteq 1..cmd /\ (cmd > 0 => cmd \in 1..cmd)
      BY <2>1, SessionParameters
    <3> QED
      BY <1>a, <2>1, <2>2, <3>1, <3>2, <3>3, <3>4 DEF OrderInv
  <2>4. CASE Remark
    <3>1. executed' = executed /\ at \in {"check", "get"} /\ Pending = 0
      BY <2>4 DEF Remark, clientVars, Pending, Line
    <3>2. Clean => 1..cmd \subseteq executed
      BY <1>a, <2>1, <3>1, SessionParameters DEF OrderInv
    <3>3. \A item \in Output' : item \in Output \/ item.of = cmd
      BY <1>15, ClientSays
    <3>4. 1..(cmd - 1) \subseteq 1..cmd /\ (cmd > 0 => cmd \in 1..cmd)
      BY <2>1, SessionParameters
    <3> QED
      BY <1>a, <2>1, <2>2, <3>1, <3>2, <3>3, <3>4 DEF OrderInv
  <2>5. CASE Quit
    <3>1. Output' = Output /\ executed' = executed /\ client' # "alive"
      BY <1>15, <2>1, <2>5 DEF Quit, Output, ClientLine, workerVars
    <3> QED
      BY <1>a, <2>1, <2>2, <3>1 DEF OrderInv
  <2> QED
    BY <1>a, <1>15, <2>3, <2>4, <2>5, ClientLineCases
<1>16. CASE ClientExits
  <2>1. Output' = Output /\ UNCHANGED <<at, cmd, executed, result>> /\ client' # "alive"
    BY <1>16 DEF Output, ClientExits, workerVars
  <2>2. Clean' <=> Clean
    BY <1>a, <2>1, CleanKept
  <2> QED
    BY <1>a, <2>1, <2>2 DEF OrderInv
<1>17. CASE ClientGone
  <2>1. Output' = Output /\ UNCHANGED <<at, cmd, executed, result>> /\ client' # "alive"
    BY <1>17 DEF Output, ClientGone, workerVars
  <2>2. Clean' <=> Clean
    BY <1>a, <2>1, CleanKept
  <2> QED
    BY <1>a, <2>1, <2>2 DEF OrderInv
<1>18. CASE Cancel
  <2>1. Pending' = Pending /\ Output' = Output
    BY <1>18, PendingKept DEF Output, Cancel, clientVars
  <2>2. Clean' <=> Clean
    BY <1>a, <1>18, CleanKept DEF Cancel, clientVars
  <2> QED
    BY <1>a, <1>18, <2>1, <2>2 DEF Cancel, clientVars, OrderInv
<1>19. CASE UNCHANGED vars
  <2>1. Pending' = Pending /\ Output' = Output
    BY <1>19, PendingKept DEF Output, vars, clientVars
  <2>2. Clean' <=> Clean
    BY <1>a, <1>19, CleanKept DEF vars, clientVars
  <2> QED
    BY <1>a, <1>19, <2>1, <2>2 DEF vars, clientVars, OrderInv
<1> QED
  BY <1>1, <1>2, <1>3, <1>4, <1>5, <1>6, <1>7, <1>8, <1>9, <1>10, <1>11, <1>12, <1>13,
     <1>14, <1>15, <1>16, <1>17, <1>18, <1>19 DEF Next, Worker

(* A report of the current command is a success with text only if output   *)
(* of it was read.                                                         *)
LEMMA ReportConfirms ==
  ASSUME TypeOK, ResultInv, ReaderInv, OrderInv, ConfirmedIsExecuted, cmd \in Cmd,
         at \in {"send", "mark", "check", "get", "classify"},
         NEW r \in Results, r.ok /\ r.text => HasText,
         result' = [result EXCEPT ![cmd] = r], UNCHANGED <<cmd, buffer, executed>>
  PROVE  ConfirmedIsExecuted'
<1> SUFFICES ASSUME NEW c \in Cmd, result'[c].text, \A d \in 1..c : result'[d].ok
             PROVE  1..c \subseteq executed /\ (c = cmd => \A item \in buffer : item.of = c)
  BY DEF ConfirmedIsExecuted
<1>1. /\ \A d \in Cmd : d # cmd => result'[d] = result[d]
      /\ result'[cmd] = r
  BY DEF TypeOK
<1>2. CASE c > cmd
  <2>1. result'[c] = NoResult
    BY <1>1, <1>2, SessionParameters DEF ResultInv, Cmd
  <2> QED
    BY <2>1 DEF NoResult
<1>3. CASE c < cmd
  <2>1. result'[c] = result[c] /\ \A d \in 1..c : result'[d] = result[d]
    BY <1>1, <1>3, SessionParameters DEF Cmd
  <2> QED
    BY <1>3, <2>1, SessionParameters DEF ConfirmedIsExecuted, Cmd
<1>4. CASE c = cmd
  <2>1. cmd \in 1..c /\ r.ok /\ r.text
    BY <1>1, <1>4, SessionParameters DEF Cmd
  <2>2. PICK item \in buffer : item.kind = "text"
    BY <2>1 DEF HasText
  <2>3. item \in Output /\ \A x \in buffer : x \in Output
    BY <2>2 DEF Output, Eof, ReaderInv
  <2>4. Clean
    <3> SUFFICES ASSUME NEW d \in 1..(cmd - 1) PROVE result[d].ok
      BY DEF Clean
    <3>1. d \in 1..c /\ d \in Cmd /\ d # cmd
      BY <1>4, SessionParameters DEF Cmd
    <3> QED
      BY <1>1, <3>1
  <2> QED
    BY <1>4, <2>3, <2>4 DEF OrderInv
<1> QED
  BY <1>2, <1>3, <1>4, SessionParameters DEF Cmd

LEMMA ConfirmedStep ==
  ASSUME Inv, [Next]_vars
  PROVE  ConfirmedIsExecuted'
<1>a. TypeOK /\ FlagsOK /\ DataOK /\ PlaceInv /\ InputInv /\ ResultInv /\ ReaderInv /\ OrderInv
      /\ ConfirmedIsExecuted
  BY TypeParts DEF Inv
<1>1. CASE Open
  BY <1>a, <1>1 DEF Open, Leave, ConfirmedIsExecuted
<1>2. CASE Handshake
  BY <1>a, <1>2 DEF Handshake, Leave, Written, Terminate, clientVars, ConfirmedIsExecuted
<1>3. CASE Check
  BY <1>a, <1>3 DEF Check, Leave, Terminate, clientVars, ConfirmedIsExecuted
<1>4. CASE Take
  <2>1. result[cmd] = NoResult \/ cmd \notin Cmd
    BY <1>a, <1>4 DEF Take, ResultInv
  <2> QED
    BY <1>a, <1>4, <2>1 DEF Take, clientVars, ConfirmedIsExecuted, NoResult
<1>5. CASE Empty
  BY <1>a, <1>5 DEF Empty, clientVars, ConfirmedIsExecuted
<1>6. CASE Classify
  <2>1. CASE cmd = 0
    BY <1>a, <1>6, <2>1 DEF Classify, Leave, clientVars, ConfirmedIsExecuted
  <2>2. CASE cmd # 0
    <3> DEFINE ok == IF Polled /\ ~ Marked(cmd) THEN code
                     ELSE \A item \in buffer : item.kind # "error"
               r == [ok |-> ok, text |-> HasText, marked |-> Marked(cmd), known |-> TRUE]
    <3>1. HasText \in BOOLEAN
      BY DEF HasText
    <3>2. Marked(cmd) \in BOOLEAN
      BY DEF Marked
    <3>3. ok \in BOOLEAN
      BY <1>a DEF FlagsOK
    <3> HIDE DEF ok
    <3>4. r \in Results /\ r.text = HasText
      BY <3>1, <3>2, <3>3 DEF Results
    <3>5. result' = [result EXCEPT ![cmd] = r] /\ UNCHANGED <<cmd, buffer>>
      BY <1>6, <2>2 DEF Classify, Report, ok
    <3>6. executed' = executed /\ cmd \in Cmd /\ at = "classify"
      BY <1>a, <1>6, <2>2, SessionParameters DEF Classify, clientVars, DataOK, Cmd
    <3> HIDE DEF r
    <3>7. r.ok /\ r.text => HasText
      BY <3>4
    <3> QED
      BY <1>a, <3>4, <3>5, <3>6, <3>7, ReportConfirms
  <2> QED
    BY <2>1, <2>2
<1>7. CASE NextCommand
  <2>1. CASE at' = "send"
    <3>1. cmd' = cmd + 1 /\ UNCHANGED <<result, executed>> /\ cmd \in 0..Commands
      BY <1>a, <1>7, <2>1 DEF NextCommand, Leave, clientVars, DataOK
    <3>2. \A c \in Cmd : c = cmd' => result'[c] = NoResult
      BY <1>a, <3>1, SessionParameters DEF ResultInv, Cmd
    <3> QED
      BY <1>a, <3>1, <3>2 DEF ConfirmedIsExecuted, NoResult
  <2>2. CASE at' # "send"
    <3>1. UNCHANGED <<cmd, result, executed, buffer>>
      BY <1>7, <2>2 DEF NextCommand, Leave, clientVars
    <3> QED
      BY <1>a, <3>1 DEF ConfirmedIsExecuted
  <2> QED
    BY <2>1, <2>2
<1>8. CASE Send
  <2>1. CASE Written(Line("command", cmd)) /\ UNCHANGED <<cmd, buffer, result>>
    BY <1>a, <1>8, <2>1 DEF Send, Leave, Written, Terminate, clientVars, ConfirmedIsExecuted
  <2>2. CASE Report(FALSE, FALSE, FALSE) /\ UNCHANGED <<clientVars, stdin, stdout>>
    <3> DEFINE r == [ok |-> FALSE, text |-> FALSE, marked |-> FALSE, known |-> TRUE]
    <3>1. HasText \in BOOLEAN
      BY DEF HasText
    <3>2. r \in Results /\ ~ r.ok
      BY <3>1 DEF Results
    <3>3. /\ result' = [result EXCEPT ![cmd] = r] /\ UNCHANGED <<cmd, buffer, executed>>
          /\ cmd \in Cmd /\ at \in {"send", "mark", "get"}
      BY <1>a, <1>8, <2>2, SessionParameters DEF Send, Report, Terminate, clientVars, PlaceInv, DataOK, Cmd
    <3> HIDE DEF r
    <3> QED
      BY <1>a, <3>2, <3>3, ReportConfirms
  <2> QED
    BY <1>8, <2>1, <2>2 DEF Send
<1>9. CASE Mark
  <2>1. CASE Written(Line("remark", cmd)) /\ Leave("check")
    BY <1>a, <1>9, <2>1 DEF Mark, Leave, Written, Terminate, clientVars, ConfirmedIsExecuted
  <2>2. CASE Report(FALSE, FALSE, FALSE) /\ UNCHANGED <<clientVars, stdin, stdout>>
    <3> DEFINE r == [ok |-> FALSE, text |-> FALSE, marked |-> FALSE, known |-> TRUE]
    <3>1. HasText \in BOOLEAN
      BY DEF HasText
    <3>2. r \in Results /\ ~ r.ok
      BY <3>1 DEF Results
    <3>3. /\ result' = [result EXCEPT ![cmd] = r] /\ UNCHANGED <<cmd, buffer, executed>>
          /\ cmd \in Cmd /\ at \in {"send", "mark", "get"}
      BY <1>a, <1>9, <2>2, SessionParameters DEF Mark, Report, Terminate, clientVars, PlaceInv, DataOK, Cmd
    <3> HIDE DEF r
    <3> QED
      BY <1>a, <3>2, <3>3, ReportConfirms
  <2> QED
    BY <1>9, <2>1, <2>2 DEF Mark
<1>10. CASE Close
  BY <1>a, <1>10 DEF Close, Leave, Written, Terminate, clientVars, ConfirmedIsExecuted
<1>11. CASE Wait
  BY <1>a, <1>11 DEF Wait, Leave, Terminate, clientVars, ConfirmedIsExecuted
<1>12. CASE Join
  BY <1>a, <1>12 DEF Join, Leave, clientVars, ConfirmedIsExecuted
<1>13. CASE Expire
  <2>1. CASE cmd = 0 /\ Leave("done")
    BY <1>a, <1>13, <2>1 DEF Expire, Leave, Written, Terminate, clientVars, ConfirmedIsExecuted
  <2>2. CASE cmd # 0 /\ Report(FALSE, HasText, FALSE)
    <3> DEFINE r == [ok |-> FALSE, text |-> HasText, marked |-> FALSE, known |-> TRUE]
    <3>1. HasText \in BOOLEAN
      BY DEF HasText
    <3>2. r \in Results /\ ~ r.ok
      BY <3>1 DEF Results
    <3>3. /\ result' = [result EXCEPT ![cmd] = r] /\ UNCHANGED <<cmd, buffer, executed>>
          /\ cmd \in Cmd /\ at \in {"send", "mark", "get"}
      BY <1>a, <1>13, <2>2, SessionParameters DEF Expire, Report, Terminate, clientVars, PlaceInv, DataOK, Cmd
    <3> HIDE DEF r
    <3> QED
      BY <1>a, <3>2, <3>3, ReportConfirms
  <2> QED
    BY <1>13, <2>1, <2>2 DEF Expire
<1>14. CASE Reader
  BY <1>a, <1>14 DEF Reader, clientVars, ConfirmedIsExecuted
<1>15. CASE ClientLine
  <2>1. UNCHANGED <<cmd, result, buffer>> /\ executed \subseteq executed'
    BY <1>a, <1>15, ClientLineCases DEF workerVars, clientVars, Answer, Remark, Quit
  <2> QED
    BY <1>a, <2>1 DEF ConfirmedIsExecuted
<1>16. CASE ClientExits
  BY <1>a, <1>16 DEF ClientExits, workerVars, ConfirmedIsExecuted
<1>17. CASE ClientGone
  BY <1>a, <1>17 DEF ClientGone, workerVars, ConfirmedIsExecuted
<1>18. CASE Cancel
  BY <1>a, <1>18 DEF Cancel, clientVars, ConfirmedIsExecuted
<1>19. CASE UNCHANGED vars
  BY <1>a, <1>19 DEF vars, ConfirmedIsExecuted
<1> QED
  BY <1>1, <1>2, <1>3, <1>4, <1>5, <1>6, <1>7, <1>8, <1>9, <1>10, <1>11, <1>12, <1>13,
     <1>14, <1>15, <1>16, <1>17, <1>18, <1>19 DEF Next, Worker

(* The invariant holds.                                                    *)
THEOREM SessionInvariant == Spec => []Inv
<1>1. Inv /\ [Next]_vars => Inv'
  BY TypeStep, PlaceStep, ResultStep, InputStep, ReaderStep, MarkerStep, LateStep, OrderStep,
     ConfirmedStep DEF Inv
<1> QED
  BY InitInv, <1>1, PTL DEF Spec

(* Every variable of a session has its type; in particular no more         *)
(* commands are executed than were sent.                                   *)
THEOREM SessionTypes == Spec => []TypeOK
<1>1. Inv => TypeOK
  BY DEF Inv
<1> QED
  BY SessionInvariant, <1>1, PTL

(* A command that a workflow may take for done, as no command before it    *)
(* failed and a validator accepts its answer, was executed like all before *)
(* it, and its answer is its own, even without a marker.                   *)
THEOREM ConfirmedCorrect == Spec => []ConfirmedIsExecuted
<1>1. Inv => ConfirmedIsExecuted
  BY DEF Inv
<1> QED
  BY SessionInvariant, <1>1, PTL

(* The client executes at most two commands after a cancellation.          *)
THEOREM CancellationBound == Spec => []CancelStopsCommands
<1>1. Inv => CancelStopsCommands
  <2> SUFFICES ASSUME Inv PROVE late <= 2
    BY DEF CancelStopsCommands
  <2>1. late \in Int /\ late + Pending <= 2
    BY SessionParameters DEF Inv, TypeOK, LateInv
  <2> QED
    BY <2>1, PendingIs
<1> QED
  BY SessionInvariant, <1>1, PTL

(* No client outlives its operation.                                       *)
THEOREM NoClientLeft == Spec => []ClosedIsGone
<1>1. Inv => ClosedIsGone
  BY DEF Inv, PlaceInv, ClosedIsGone
<1> QED
  BY SessionInvariant, <1>1, PTL

(* No command is executed once its result is known, whatever it was.       *)
THEOREM ResultIsFinal == Spec => NothingAfterItsResult
<1>1. ASSUME Inv, [Next]_vars PROVE \A c \in executed' \ executed : ~ result[c].known
  <2> SUFFICES ASSUME NEW c \in executed' \ executed PROVE ~ result[c].known
    OBVIOUS
  <2>1. CASE ClientLine
    <3>1. c = cmd /\ at \in {"mark", "check", "get"}
      BY <1>1, <2>1, ClientLineCases DEF Inv, Answer, Remark, Quit, clientVars
    <3>2. cmd \in Cmd
      <4>1. Answer
        BY <1>1, <2>1, ClientLineCases DEF Inv, Remark, Quit, clientVars
      <4> QED
        BY <1>1, <4>1, SessionParameters DEF Inv, TypeOK, Answer, Cmd
    <3>3. result[c] = NoResult
      BY <1>1, <3>1, <3>2 DEF Inv, ResultInv
    <3> QED
      BY <3>3 DEF NoResult
  <2>2. CASE ~ ClientLine
    <3>1. executed' = executed
      BY <1>1, <2>2 DEF Next, Worker, vars, Open, Handshake, Check, Take, Empty, Classify,
         NextCommand, Send, Mark, Close, Wait, Join, Expire, Reader, ClientExits, ClientGone,
         Cancel, Written, Terminate, clientVars
    <3> QED
      BY <3>1
  <2> QED
    BY <2>1, <2>2
<1>2. Inv /\ [Next]_vars => [\A c \in executed' \ executed : ~ result[c].known]_vars
  BY <1>1
<1> QED
  BY SessionInvariant, <1>2, PTL DEF Spec, NothingAfterItsResult
=============================================================================
