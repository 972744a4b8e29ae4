------------------------- MODULE ApplicationProofs -------------------------
(***************************************************************************)
(* Theorems about Application, for every set of presets and values, any    *)
(* number of threads and of dialogs over each other.  The hypothesis is    *)
(* AtMostOneTrouble: with both troubles at once the window can be closed   *)
(* during an operation, as the run window_closed shows.                    *)
(***************************************************************************)
EXTENDS Application, SequenceTheorems, TLAPS

(* No run in which the settings cannot be saved is one in which the window *)
(* is asked to close while a dialog is open.                               *)
AtMostOneTrouble == \A w \in Worlds : ~ (w.saveFails /\ w.closeOverDialogs)

Kind   == {"confirm", "wipe", "wipe again", "notice", "report"}
Asking == {"confirm", "wipe", "wipe again"}

(* The dialog that holds the grab is open.                                 *)
GrabInv == grab # 0 => stack[grab].dialog = "open"

(* A question that leads to an operation or to the end of the program is   *)
(* the innermost dialog and nothing is under way; while it is open it      *)
(* holds the grab, so that neither the settings nor the page change before *)
(* it is answered.                                                         *)
AskInv ==
  window = "open" => \A i \in DOMAIN stack :
    /\ stack[i].kind \in Asking =>
         /\ i = Len(stack) /\ ~ busy
         /\ stack[i].dialog = "open" => grab = i
    /\ stack[i].kind = "confirm" => mode = "work" /\ stack[i].options = options

(* The event in the queue is that of an operation that has ended.          *)
EventInv ==
  window = "open" => /\ Len(events) <= 1
                     /\ \A k \in DOMAIN events : run[events[k].id].state = "posted"

(* What runs while the event is set is what the user has cancelled.        *)
CancelInv == \A i \in Id : Running(i) /\ cancel => run[i].asked

RunInv == OneOperation /\ EventInv /\ CancelIsAimed /\ CancelInv /\ CloseWaits

(* A profile that is shown by its name has its values.                     *)
OptionsInv == options.profile # Custom => options.values = Preset[options.profile]

DialogInv == GrabInv /\ AskInv
Inv == TypeOK /\ DialogInv /\ RunInv /\ OptionsInv
-----------------------------------------------------------------------------
(* What is loaded is a legal choice of options, and a profile of that name *)
(* has these values.                                                       *)
LEMMA DetectRight ==
  ASSUME NEW v \in Values
  PROVE  /\ Detect(v) \in Named \cup {Custom}
         /\ Detect(v) # Custom => Preset[Detect(v)] = v
<1>1. CASE \E p \in Named : Preset[p] = v
  <2>1. Detect(v) = CHOOSE p \in Named : Preset[p] = v
    BY <1>1 DEF Detect
  <2> QED
    BY <1>1, <2>1, Zenon
<1>2. CASE ~ \E p \in Named : Preset[p] = v
  BY <1>2 DEF Detect
<1> QED
  BY <1>1, <1>2

LEMMA LoadedRight ==
  ASSUME file \in Options \cup {Nothing}
  PROVE  /\ Loaded \in Options
         /\ Loaded.profile # Custom => Loaded.values = Preset[Loaded.profile]
<1> DEFINE v == IF file = Nothing THEN Preset[DefaultProfile]
                ELSE IF file.profile = Custom THEN file.values ELSE Preset[file.profile]
<1>1. v \in Values
  BY ApplicationParameters DEF Options
<1>2. Loaded = [profile |-> Detect(v), values |-> v]
  BY DEF Loaded
<1> HIDE DEF v
<1>3. Loaded \in Options
  BY <1>1, <1>2, DetectRight DEF Options
<1> QED
  BY <1>1, <1>2, <1>3, DetectRight

(* What opening a dialog over a stack of them does.                        *)
LEMMA OpenedRight ==
  ASSUME NEW below \in Seq(Frame), NEW kind \in Kind,
         NEW opts \in Options \cup {Nothing}, Opened(below, kind, opts)
  PROVE  /\ stack' \in Seq(Frame) /\ Len(stack') = Len(below) + 1
         /\ \A i \in 1..Len(below) : stack'[i] = below[i]
         /\ stack'[Len(stack')] = [kind |-> kind, options |-> opts, dialog |-> "open"]
         /\ grab' = Len(stack') /\ Len(below) \in Nat
<1> DEFINE frame == [kind |-> kind, options |-> opts, dialog |-> "open"]
<1>1. frame \in Frame
  BY DEF Frame, Kind
<1>2. stack' = Append(below, frame) /\ grab' = Len(below) + 1
  BY DEF Opened
<1> HIDE DEF frame
<1>3. /\ stack' \in Seq(Frame) /\ Len(stack') = Len(below) + 1 /\ Len(below) \in Nat
      /\ \A i \in 1..Len(below) : stack'[i] = below[i]
      /\ stack'[Len(stack')] = frame
  BY <1>1, <1>2
<1> QED
  BY <1>2, <1>3 DEF frame

(* What is below the innermost dialog.                                     *)
Below == SubSeq(stack, 1, Len(stack) - 1)

LEMMA BelowRight ==
  ASSUME stack \in Seq(Frame), stack # <<>>
  PROVE  /\ Below \in Seq(Frame) /\ Len(Below) = Len(stack) - 1
         /\ Len(stack) \in Nat /\ Len(Below) \in Nat /\ stack[Len(stack)] \in Frame
         /\ \A i \in 1..Len(Below) : Below[i] = stack[i]
<1> DEFINE n == Len(stack) - 1
<1>1. Len(stack) \in Nat /\ 1 <= Len(stack) /\ n \in Nat
  BY EmptySeq
<1>2. \A i \in 1..Len(stack) : stack[i] \in Frame
  OBVIOUS
<1>3. \A i \in 1..n : stack[i] \in Frame
  BY <1>1, <1>2
<1>4. /\ Below \in Seq(Frame) /\ Len(Below) = IF 1 <= n THEN n - 1 + 1 ELSE 0
      /\ \A i \in 1..n-1+1 : Below[i] = stack[1+i-1]
  <2> HIDE DEF n
  <2>1. n \in Int
    BY <1>1
  <2>2. Below = SubSeq(stack, 1, n)
    BY DEF Below, n
  <2> QED
    BY <2>1, <2>2, <1>3, SubSeqProperties
<1>5. Len(Below) = n /\ \A i \in 1..n : Below[i] = stack[i]
  <2> HIDE DEF n
  <2>1. Len(Below) = n
    BY <1>1, <1>4
  <2>2. \A i \in 1..n : 1+i-1 = i
    BY <1>1
  <2> QED
    BY <1>1, <1>4, <2>1, <2>2
<1>6. stack[Len(stack)] \in Frame
  BY <1>1, <1>2
<1> QED
  BY <1>1, <1>4, <1>5, <1>6

(* When the main window is rebuilt, every open dialog is gone.             *)
LEMMA RebuiltRight ==
  ASSUME stack \in Seq(Frame)
  PROVE  /\ Rebuilt \in Seq(Frame) /\ Len(Rebuilt) = Len(stack) /\ Len(stack) \in Nat
         /\ \A i \in 1..Len(stack) :
              /\ Rebuilt[i].kind = stack[i].kind
              /\ Rebuilt[i].options = stack[i].options
              /\ Rebuilt[i].dialog # "open"
<1>1. Len(stack) \in Nat /\ DOMAIN stack = 1..Len(stack) /\ \A i \in 1..Len(stack) : stack[i] \in Frame
  OBVIOUS
<1>2. \A i \in 1..Len(stack) :
        Rebuilt[i] = IF stack[i].dialog = "open" THEN [stack[i] EXCEPT !.dialog = "no"] ELSE stack[i]
  BY <1>1 DEF Rebuilt
<1>3. \A i \in 1..Len(stack) :
        /\ Rebuilt[i] \in Frame
        /\ Rebuilt[i].kind = stack[i].kind /\ Rebuilt[i].options = stack[i].options
        /\ Rebuilt[i].dialog # "open"
  BY <1>1, <1>2 DEF Frame
<1>4. DOMAIN Rebuilt = 1..Len(stack) /\ Rebuilt = [i \in 1..Len(stack) |-> Rebuilt[i]]
  BY <1>1 DEF Rebuilt
<1>5. Rebuilt \in [1..Len(stack) -> Frame]
  BY <1>3, <1>4
<1>6. Rebuilt \in Seq(Frame)
  BY <1>1, <1>5, SeqDef
<1>7. Len(Rebuilt) = Len(stack)
  BY <1>1, <1>4, <1>6
<1> QED
  BY <1>1, <1>3, <1>6, <1>7
-----------------------------------------------------------------------------
(* Nothing is asked that leads to an operation or the end of the program.  *)
NoneAsks(frames) == \A i \in DOMAIN frames : frames[i].kind \notin Asking

LEMMA AtHandNoneAsks ==
  ASSUME TypeOK, AskInv, window = "open", AtHand \/ busy
  PROVE  NoneAsks(stack)
<1>1. Len(stack) \in Nat /\ DOMAIN stack = 1..Len(stack)
  BY DEF TypeOK
<1> SUFFICES ASSUME NEW i \in 1..Len(stack), stack[i].kind \in Asking PROVE FALSE
  BY <1>1 DEF NoneAsks
<1>2. i = Len(stack) /\ ~ busy /\ (stack[i].dialog = "open" => grab = i)
  BY <1>1 DEF AskInv
<1>3. AtHand /\ stack # <<>>
  BY <1>1, <1>2
<1> QED
  BY <1>2, <1>3 DEF AtHand, Waiting

LEMMA BelowNoneAsks ==
  ASSUME TypeOK, DialogInv, window = "open", stack # <<>>, stack[Len(stack)].dialog # "open"
  PROVE  /\ NoneAsks(Below)
         /\ grab \in 0..Len(Below) /\ (grab # 0 => Below[grab].dialog = "open")
<1>1. stack \in Seq(Frame) /\ grab \in 0..Len(stack) /\ DOMAIN stack = 1..Len(stack)
  BY DEF TypeOK
<1>2. /\ Below \in Seq(Frame) /\ Len(Below) = Len(stack) - 1
      /\ Len(stack) \in Nat /\ Len(Below) \in Nat
      /\ \A i \in 1..Len(Below) : Below[i] = stack[i]
  BY <1>1, BelowRight
<1>3. DOMAIN Below = 1..Len(Below)
  BY <1>2
<1>4. NoneAsks(Below)
  BY <1>1, <1>2, <1>3 DEF NoneAsks, DialogInv, AskInv
<1>5. grab # Len(stack)
  BY <1>2 DEF DialogInv, GrabInv
<1>6. grab \in 0..Len(Below)
  <2>1. grab \in 0..Len(stack) /\ Len(Below) = Len(stack) - 1 /\ Len(stack) \in Nat
    BY <1>1, <1>2
  <2> QED
    BY <2>1, <1>5
<1>7. grab # 0 => Below[grab] = stack[grab] /\ stack[grab].dialog = "open"
  BY <1>2, <1>6 DEF DialogInv, GrabInv
<1> QED
  BY <1>4, <1>6, <1>7

(* Where none asks the innermost dialog can go, and one that only informs  *)
(* can be put over the rest.                                               *)
LEMMA PlainDialog ==
  ASSUME NEW below \in Seq(Frame), NoneAsks(below),
         \/ /\ NoDialog(below)
            /\ grab \in 0..Len(below) /\ (grab # 0 => below[grab].dialog = "open")
         \/ \E kind \in Kind \ Asking, opts \in Options \cup {Nothing} : Opened(below, kind, opts)
  PROVE  /\ stack' \in Seq(Frame) /\ grab' \in 0..Len(stack') /\ DialogInv'
         /\ NoneAsks(stack')
<1>1. CASE /\ NoDialog(below)
           /\ grab \in 0..Len(below) /\ (grab # 0 => below[grab].dialog = "open")
  <2>1. stack' = below /\ grab' = grab
    BY <1>1 DEF NoDialog
  <2> QED
    BY <1>1, <2>1 DEF DialogInv, GrabInv, AskInv, NoneAsks, Asking
<1>2. CASE \E kind \in Kind \ Asking, opts \in Options \cup {Nothing} : Opened(below, kind, opts)
  <2>1. PICK kind \in Kind \ Asking, opts \in Options \cup {Nothing} : Opened(below, kind, opts)
    BY <1>2
  <2>2. /\ stack' \in Seq(Frame) /\ Len(stack') = Len(below) + 1
        /\ \A i \in 1..Len(below) : stack'[i] = below[i]
        /\ stack'[Len(stack')] = [kind |-> kind, options |-> opts, dialog |-> "open"]
        /\ grab' = Len(stack') /\ Len(below) \in Nat
    BY <2>1, OpenedRight
  <2>3. DOMAIN stack' = 1..Len(stack') /\ DOMAIN below = 1..Len(below)
    BY <2>2
  <2>4. ASSUME NEW i \in 1..Len(stack') PROVE stack'[i].kind \notin Asking
    BY <2>2, <2>3 DEF NoneAsks
  <2>5. NoneAsks(stack')
    BY <2>3, <2>4 DEF NoneAsks
  <2>6. AskInv'
    BY <2>5 DEF AskInv, NoneAsks, Asking
  <2> QED
    BY <2>2, <2>5, <2>6 DEF DialogInv, GrabInv
<1> QED
  BY <1>1, <1>2

(* Nothing changes in the dialogs, and none of them asks.                  *)
LEMMA DialogsStay ==
  ASSUME TypeOK, DialogInv, NoneAsks(stack), UNCHANGED <<stack, grab>>
  PROVE  stack' \in Seq(Frame) /\ grab' \in 0..Len(stack') /\ DialogInv'
BY DEF TypeOK, DialogInv, GrabInv, AskInv, NoneAsks, Asking
-----------------------------------------------------------------------------
(* An action that leaves the operations alone, and turns to the settings   *)
(* page only when none is under way.                                       *)
LEMMA WorkStays ==
  ASSUME RunInv, window = "open", window' = "open", UNCHANGED work,
         busy => mode' = "work"
  PROVE  RunInv'
BY DEF RunInv, OneOperation, UnderWay, EventInv, CancelIsAimed, CancelInv,
       CloseWaits, work, Running

LEMMA SeqElements ==
  ASSUME NEW S, NEW s \in Seq(S)
  PROVE  DOMAIN s = 1..Len(s) /\ Len(s) \in Nat /\ \A k \in DOMAIN s : s[k] \in S
OBVIOUS

LEMMA EventTypes ==
  ASSUME TypeOK
  PROVE  /\ DOMAIN events = 1..Len(events) /\ Len(events) \in Nat
         /\ \A k \in DOMAIN events : events[k].id \in Id
<1> DEFINE E == [id : Id, outcome : {"done", "failed"}]
<1>1. events \in Seq(E)
  BY DEF TypeOK
<1>2. \A e \in E : e.id \in Id
  OBVIOUS
<1> HIDE DEF E
<1> QED
  BY <1>1, <1>2, SeqElements

(* The start of an operation when none is under way: with what the user    *)
(* confirmed, and with nothing of an earlier one.                          *)
LEMMA Started ==
  ASSUME TypeOK, RunInv, window = "open", window' = "open", mode' = "work", ~ busy,
         NEW op \in Ops, NEW opts \in Options, NEW i \in Id, Idle(i),
         run' = [run EXCEPT ![i] = [NoRun EXCEPT !.op = op, !.options = opts, !.state = "running"]],
         busy' = TRUE, cancel' = FALSE, controls' = "cancel", UNCHANGED events
  PROVE  /\ RunInv' /\ run' \in [Id -> Run]
         /\ run'[i].options = opts /\ \A j \in Id \ {i} : run'[j] = run[j]
<1>1. run \in [Id -> Run] /\ DOMAIN events = 1..Len(events)
      /\ \A k \in DOMAIN events : events[k].id \in Id
  BY EventTypes DEF TypeOK
<1> DEFINE r == [NoRun EXCEPT !.op = op, !.options = opts, !.state = "running"]
<1>2. /\ r \in Run /\ r.state = "running" /\ r.options = opts
      /\ r.asked = FALSE /\ r.cancelled = FALSE
  BY DEF NoRun, Run, Ops
<1>3. run' = [run EXCEPT ![i] = r]
  OBVIOUS
<1> HIDE DEF r
<1>4. run'[i] = r /\ (\A j \in Id \ {i} : run'[j] = run[j]) /\ run' \in [Id -> Run]
  BY <1>1, <1>2, <1>3
<1>5. \A j \in Id : run[j].state \notin {"running", "posted", "killed"}
  BY DEF RunInv, OneOperation, CloseWaits, UnderWay
<1>6. UnderWay' = {i}
  BY <1>2, <1>4, <1>5 DEF UnderWay
<1>7. OneOperation'
  BY <1>6 DEF OneOperation
<1>8. events = <<>> \/ DOMAIN events = {}
  BY <1>1, <1>5 DEF RunInv, EventInv
<1>9. EventInv'
  BY <1>8 DEF EventInv
<1>10. CancelIsAimed' /\ CancelInv'
  <2>1. \A j \in Id : run'[j].cancelled => run'[j].asked
    BY <1>2, <1>4 DEF RunInv, CancelIsAimed
  <2>2. \A j \in Id : Running(j)' => ~ run'[j].asked
    BY <1>2, <1>4, <1>5 DEF Running
  <2> QED
    BY <2>1, <2>2 DEF CancelIsAimed, CancelInv
<1>11. CloseWaits'
  BY <1>2, <1>4, <1>5 DEF CloseWaits
<1> QED
  BY <1>2, <1>4, <1>7, <1>9, <1>10, <1>11 DEF RunInv

LEMMA StartKeepsInv ==
  ASSUME Inv, window = "open", mode = "work", ~ busy, UNCHANGED <<world, window>>,
         NEW op \in Ops, NEW opts \in Options,
         NEW below \in Seq(Frame), NoneAsks(below),
         grab \in 0..Len(below), grab # 0 => below[grab].dialog = "open",
         StartOperation(op, opts, below)
  PROVE  Inv'
<1>1. UNCHANGED <<mode, options>>
  BY DEF StartOperation, screen
<1>2. /\ stack' \in Seq(Frame) /\ grab' \in 0..Len(stack') /\ DialogInv'
  <2>1. \/ NoDialog(below)
        \/ \E kind \in Kind \ Asking, o \in Options \cup {Nothing} : Opened(below, kind, o)
    BY DEF StartOperation, Over, Kind, Asking
  <2> QED
    BY <2>1, PlainDialog
<1>3. OptionsInv'
  BY <1>1 DEF Inv, OptionsInv
<1>4. RunInv' /\ run' \in [Id -> Run] /\ busy' \in BOOLEAN /\ cancel' \in BOOLEAN
      /\ controls' \in {"start", "cancel", "none"} /\ UNCHANGED events
      /\ file' \in {file, options}
  <2>1. CASE UNCHANGED <<file, work>>
    <3>1. RunInv'
      BY <1>1, <2>1, WorkStays DEF Inv
    <3> QED
      BY <2>1, <3>1 DEF Inv, TypeOK, work
  <2>2. CASE ~ UNCHANGED <<file, work>>
    <3>1. /\ file' = options /\ busy' = TRUE /\ cancel' = FALSE /\ controls' = "cancel"
          /\ UNCHANGED events
      BY <2>2 DEF StartOperation
    <3>2. PICK i \in Id :
            /\ Idle(i)
            /\ run' = [run EXCEPT ![i] = [NoRun EXCEPT !.op = op, !.options = opts, !.state = "running"]]
      BY <2>2 DEF StartOperation
    <3>3. RunInv' /\ run' \in [Id -> Run]
      BY <1>1, <3>1, <3>2, Started DEF Inv
    <3> QED
      BY <3>1, <3>3
  <2> QED
    BY <2>1, <2>2
<1>5. TypeOK'
  BY <1>1, <1>2, <1>4 DEF Inv, TypeOK
<1> QED
  BY <1>2, <1>3, <1>4, <1>5 DEF Inv

(* The window goes when nothing is under way.                              *)
LEMMA DestroyKeepsInv ==
  ASSUME Inv, window = "open", ~ busy, UNCHANGED world, file' \in {options, Nothing},
         NEW how \in {"closed", "wiped"}, Destroy(how)
  PROVE  Inv'
<1>1. /\ window' = how /\ stack' = <<>> /\ grab' = 0
      /\ UNCHANGED <<mode, options, busy, cancel, controls, events>>
      /\ run' = [i \in Id |-> IF Running(i) THEN [run[i] EXCEPT !.state = "killed"] ELSE run[i]]
  BY DEF Destroy, screen
<1>2. \A i \in Id : ~ Running(i)
  BY DEF Inv, RunInv, OneOperation, UnderWay, Running
<1>3. run' = run
  <2>1. run \in [Id -> Run]
    BY DEF Inv, TypeOK
  <2> QED
    BY <1>1, <1>2, <2>1
<1>4. stack' \in Seq(Frame) /\ grab' \in 0..Len(stack')
  BY <1>1
<1>5. TypeOK'
  BY <1>1, <1>3, <1>4 DEF Inv, TypeOK
<1>6. DialogInv'
  BY <1>1 DEF DialogInv, GrabInv, AskInv
<1>7. RunInv'
  BY <1>1, <1>3 DEF Inv, RunInv, OneOperation, EventInv, CancelIsAimed, CancelInv, CloseWaits, Running
<1>8. OptionsInv'
  BY <1>1 DEF Inv, OptionsInv
<1> QED
  BY <1>5, <1>6, <1>7, <1>8 DEF Inv
-----------------------------------------------------------------------------
(* The invariant, one action at a time.  An action of the user on the main *)
(* window finds no grab, hence no question.                                *)
LEMMA InvTypes ==
  ASSUME Inv
  PROVE  /\ TypeOK /\ DialogInv /\ AskInv /\ GrabInv /\ RunInv /\ OptionsInv
         /\ stack \in Seq(Frame) /\ Len(stack) \in Nat /\ DOMAIN stack = 1..Len(stack)
         /\ grab \in 0..Len(stack) /\ options \in Options /\ file \in Options \cup {Nothing}
         /\ run \in [Id -> Run]
BY DEF Inv, DialogInv, TypeOK

LEMMA InitInv == Init => Inv
<1> SUFFICES ASSUME Init PROVE Inv
  OBVIOUS
<1>1. options \in Options /\ OptionsInv
  BY LoadedRight DEF Init, OptionsInv
<1>2. NoRun \in Run /\ NoRun.state = "none" /\ NoRun.asked = FALSE /\ NoRun.cancelled = FALSE
  BY DEF NoRun, Run, Ops
<1>3. TypeOK
  <2>1. [i \in Id |-> NoRun] \in [Id -> Run]
    BY <1>2
  <2>2. stack \in Seq(Frame) /\ Len(stack) = 0 /\ events \in Seq([id : Id, outcome : {"done", "failed"}])
    BY DEF Init
  <2>3. grab \in 0..Len(stack)
    BY <2>2 DEF Init
  <2>4. run \in [Id -> Run] /\ file \in Options \cup {Nothing} /\ world \in Worlds
    BY <2>1 DEF Init
  <2>5. /\ window \in {"open", "closed", "wiped"} /\ mode \in {"work", "settings"}
        /\ controls \in {"start", "cancel", "none"} /\ busy \in BOOLEAN /\ cancel \in BOOLEAN
    BY DEF Init
  <2> QED
    BY <1>1, <2>2, <2>3, <2>4, <2>5 DEF TypeOK
<1>4. DialogInv
  BY DEF Init, DialogInv, GrabInv, AskInv
<1>5. RunInv
  BY <1>2 DEF Init, RunInv, OneOperation, UnderWay, EventInv, CancelIsAimed, CancelInv, CloseWaits, Running
<1> QED
  BY <1>1, <1>3, <1>4, <1>5 DEF Inv

LEMMA LaunchKeepsInv ==
  ASSUME Inv, Launch
  PROVE  Inv'
<1>1. /\ window' = "open" /\ stack' = <<>> /\ grab' = 0 /\ mode' \in {"work", "settings"}
      /\ busy' = FALSE /\ cancel' = FALSE /\ controls' = "start" /\ options' = Loaded
      /\ run' = [i \in Id |-> NoRun] /\ events' = <<>> /\ UNCHANGED <<world, file>>
  BY DEF Launch
<1>2. options' \in Options /\ OptionsInv'
  BY <1>1, LoadedRight, InvTypes DEF OptionsInv
<1>3. NoRun \in Run /\ NoRun.state = "none" /\ NoRun.asked = FALSE /\ NoRun.cancelled = FALSE
  BY DEF NoRun, Run, Ops
<1>4. TypeOK'
  <2>1. [i \in Id |-> NoRun] \in [Id -> Run]
    BY <1>3
  <2>2. stack' \in Seq(Frame) /\ Len(stack') = 0 /\ events' \in Seq([id : Id, outcome : {"done", "failed"}])
    BY <1>1
  <2>3. world' \in Worlds /\ file' \in Options \cup {Nothing}
    BY <1>1, InvTypes DEF TypeOK
  <2>4. grab' \in 0..Len(stack')
    BY <1>1, <2>2
  <2>5. /\ window' \in {"open", "closed", "wiped"} /\ mode' \in {"work", "settings"}
        /\ controls' \in {"start", "cancel", "none"} /\ busy' \in BOOLEAN /\ cancel' \in BOOLEAN
    BY <1>1
  <2>6. run' \in [Id -> Run]
    BY <1>1, <2>1
  <2> QED
    BY <1>2, <2>2, <2>3, <2>4, <2>5, <2>6 DEF TypeOK
<1>5. DialogInv'
  BY <1>1 DEF DialogInv, GrabInv, AskInv
<1>6. RunInv'
  BY <1>1, <1>3 DEF RunInv, OneOperation, UnderWay, EventInv, CancelIsAimed, CancelInv, CloseWaits, Running
<1> QED
  BY <1>2, <1>4, <1>5, <1>6 DEF Inv

(* A dialog is put over dialogs that only inform; the page stays.          *)
LEMMA AskKeepsInv ==
  ASSUME Inv, window = "open", ~ busy, UNCHANGED <<world, window, file, screen, work>>,
         NEW below \in Seq(Frame), NoneAsks(below),
         NEW kind \in Kind, NEW opts \in Options \cup {Nothing}, Opened(below, kind, opts),
         kind = "confirm" => mode = "work" /\ opts = options
  PROVE  Inv'
<1>1. UNCHANGED <<world, window, file, mode, options, busy, cancel, controls, run, events>>
  BY DEF screen, work
<1>2. /\ stack' \in Seq(Frame) /\ Len(stack') = Len(below) + 1
      /\ \A i \in 1..Len(below) : stack'[i] = below[i]
      /\ stack'[Len(stack')] = [kind |-> kind, options |-> opts, dialog |-> "open"]
      /\ grab' = Len(stack') /\ Len(below) \in Nat
  BY OpenedRight
<1>3. TypeOK'
  BY <1>1, <1>2 DEF Inv, TypeOK
<1>4. GrabInv'
  BY <1>2 DEF GrabInv
<1>5. AskInv'
  <2>1. DOMAIN stack' = 1..Len(stack')
    BY <1>2
  <2> SUFFICES ASSUME NEW i \in 1..Len(stack')
               PROVE  /\ stack'[i].kind \in Asking => i = Len(stack') /\ ~ busy' /\ grab' = i
                      /\ stack'[i].kind = "confirm" => mode' = "work" /\ stack'[i].options = options'
    BY <2>1 DEF AskInv
  <2>2. CASE i = Len(stack')
    BY <1>1, <1>2, <2>2
  <2>3. CASE i # Len(stack')
    <3>1. i \in DOMAIN below /\ stack'[i] = below[i]
      BY <1>2, <2>3
    <3> QED
      BY <3>1 DEF NoneAsks, Asking
  <2> QED
    BY <2>2, <2>3
<1>6. RunInv' /\ OptionsInv'
  <2>1. busy => mode' = "work"
    OBVIOUS
  <2> QED
    BY <1>1, <2>1, InvTypes, WorkStays DEF OptionsInv
<1> QED
  BY <1>3, <1>4, <1>5, <1>6 DEF Inv, DialogInv

LEMMA AnswerKeepsInv ==
  ASSUME Inv, NEW i \in DOMAIN stack, Answer(i)
  PROVE  Inv'
<1>1. /\ window = "open" /\ grab \in {0, i} /\ grab' = 0
      /\ UNCHANGED <<world, window, file, mode, options, busy, cancel, controls, run, events>>
  BY DEF Answer, Waiting, screen, work
<1>2. PICK answer \in {"yes", "no"} : stack' = [stack EXCEPT ![i].dialog = answer]
  BY DEF Answer
<1>3. /\ stack' \in Seq(Frame) /\ Len(stack') = Len(stack) /\ DOMAIN stack' = DOMAIN stack
      /\ \A j \in DOMAIN stack : /\ stack'[j].kind = stack[j].kind
                                 /\ stack'[j].options = stack[j].options
                                 /\ j # i => stack'[j].dialog = stack[j].dialog
      /\ stack'[i].dialog # "open"
  <2> DEFINE e == [stack[i] EXCEPT !.dialog = answer]
  <2>1. stack[i] \in Frame
    BY InvTypes
  <2>2. e \in Frame /\ e.kind = stack[i].kind /\ e.options = stack[i].options /\ e.dialog = answer
    BY <2>1 DEF Frame
  <2>3. stack' = [stack EXCEPT ![i] = e]
    BY <1>2
  <2> HIDE DEF e
  <2>4. /\ stack' \in Seq(Frame) /\ Len(stack') = Len(stack)
        /\ \A j \in 1..Len(stack) : stack'[j] = IF j = i THEN e ELSE stack[j]
    BY <2>2, <2>3, InvTypes, ExceptSeq
  <2> QED
    BY <2>2, <2>4, InvTypes
<1>4. TypeOK'
  BY <1>1, <1>3, InvTypes DEF TypeOK
<1>5. GrabInv'
  BY <1>1 DEF GrabInv
<1>6. AskInv'
  <2> SUFFICES ASSUME NEW j \in DOMAIN stack
               PROVE  /\ stack'[j].kind \in Asking =>
                           /\ j = Len(stack') /\ ~ busy'
                           /\ stack'[j].dialog = "open" => grab' = j
                      /\ stack'[j].kind = "confirm" => mode' = "work" /\ stack'[j].options = options'
    BY <1>3 DEF AskInv
  <2>0. /\ stack'[j].kind = stack[j].kind /\ stack'[j].options = stack[j].options
        /\ j # i => stack'[j].dialog = stack[j].dialog
        /\ stack'[i].dialog # "open" /\ Len(stack') = Len(stack)
    BY <1>3
  <2>1. /\ stack[j].kind \in Asking =>
             /\ j = Len(stack) /\ ~ busy
             /\ stack[j].dialog = "open" => grab = j
        /\ stack[j].kind = "confirm" => mode = "work" /\ stack[j].options = options
    BY <1>1, InvTypes DEF AskInv
  <2>2. stack[j].kind \in Asking => stack'[j].dialog # "open"
    <3>1. stack[j].kind \in Asking /\ stack[j].dialog = "open" => j = i
      <4>1. j # 0
        BY InvTypes
      <4> QED
        BY <1>1, <2>1, <4>1
    <3> QED
      BY <2>0, <3>1
  <2>3. stack'[j].kind \in Asking =>
           j = Len(stack') /\ ~ busy' /\ (stack'[j].dialog = "open" => grab' = j)
    BY <1>1, <2>0, <2>1, <2>2
  <2>4. stack'[j].kind = "confirm" => mode' = "work" /\ stack'[j].options = options'
    BY <1>1, <2>0, <2>1
  <2> QED
    BY <2>3, <2>4
<1>7. RunInv' /\ OptionsInv'
  <2>1. busy => mode' = "work"
    BY <1>1, InvTypes DEF RunInv, OneOperation
  <2> QED
    BY <1>1, <2>1, InvTypes, WorkStays DEF OptionsInv, work
<1> QED
  BY <1>4, <1>5, <1>6, <1>7 DEF Inv, DialogInv

LEMMA CancelKeepsInv ==
  ASSUME Inv, Cancel
  PROVE  Inv'
<1>1. /\ window = "open" /\ busy /\ AtHand /\ cancel' = TRUE /\ controls = "cancel" /\ controls' = "none"
      /\ run' = [i \in Id |-> IF Running(i) THEN [run[i] EXCEPT !.asked = TRUE] ELSE run[i]]
      /\ UNCHANGED <<world, window, stack, grab, mode, options, busy, file, events>>
  BY DEF Cancel, AtHand, Waiting, screen
<1>2. /\ run' \in [Id -> Run]
      /\ \A i \in Id : run'[i].state = run[i].state
      /\ \A i \in Id : /\ run'[i].cancelled => run[i].cancelled
                       /\ run[i].asked => run'[i].asked
                       /\ Running(i) => run'[i].asked
  <2>1. ASSUME NEW i \in Id
        PROVE  /\ run'[i] \in Run
               /\ run'[i].state = run[i].state
               /\ run'[i].cancelled => run[i].cancelled
               /\ run[i].asked => run'[i].asked
               /\ Running(i) => run'[i].asked
    <3>1. run[i] \in Run
      BY InvTypes
    <3> QED
      BY <1>1, <3>1 DEF Run
  <2>2. run' = [i \in Id |-> run'[i]]
    BY <1>1
  <2> QED
    BY <2>1, <2>2
<1>3. stack' \in Seq(Frame) /\ grab' \in 0..Len(stack') /\ DialogInv'
  BY <1>1, InvTypes, AtHandNoneAsks, DialogsStay
<1>4. TypeOK'
  BY <1>1, <1>2, <1>3, InvTypes DEF TypeOK
<1>5. UnderWay' = UnderWay /\ \A i \in Id : Running(i)' <=> Running(i)
  <2>1. \A i \in Id : run'[i].state = run[i].state
    BY <1>2
  <2> QED
    BY <2>1 DEF UnderWay, Running
<1>6. OneOperation' /\ CloseWaits'
  BY <1>1, <1>2, <1>5, InvTypes DEF RunInv, OneOperation, CloseWaits
<1>7. EventInv'
  <2>1. \A k \in DOMAIN events : events[k].id \in Id
    BY InvTypes, EventTypes
  <2> QED
    BY <1>1, <1>2, <2>1, InvTypes DEF RunInv, EventInv
<1>8. CancelIsAimed' /\ CancelInv'
  BY <1>1, <1>2, <1>5, InvTypes DEF RunInv, CancelIsAimed, CancelInv
<1>9. OptionsInv'
  BY <1>1, InvTypes DEF OptionsInv
<1> QED
  BY <1>3, <1>4, <1>6, <1>7, <1>8, <1>9 DEF Inv, RunInv

(* An operation under way is the only one, and has told nothing before.    *)
LEMMA OnlyOne ==
  ASSUME Inv, window = "open", NEW i \in UnderWay
  PROVE  /\ busy /\ mode = "work" /\ UnderWay = {i} /\ NoneAsks(stack)
         /\ Running(i) => DOMAIN events = {}
<1>1. busy /\ mode = "work" /\ UnderWay = {i}
  BY InvTypes DEF RunInv, OneOperation
<1>2. NoneAsks(stack)
  BY <1>1, InvTypes, AtHandNoneAsks
<1>3. ASSUME Running(i), NEW k \in DOMAIN events PROVE FALSE
  <2>1. run[events[k].id].state = "posted" /\ events[k].id \in Id
    BY InvTypes, EventTypes DEF RunInv, EventInv
  <2>2. events[k].id \in UnderWay
    BY <2>1 DEF UnderWay
  <2>3. events[k].id = i
    BY <1>1, <2>2
  <2> QED
    BY <1>3, <2>1, <2>3 DEF Running
<1> QED
  BY <1>1, <1>2, <1>3

LEMMA WorkerEndsKeepsInv ==
  ASSUME Inv, NEW i \in Id, WorkerEnds(i)
  PROVE  Inv'
<1>1. /\ window = "open" /\ Running(i)
      /\ run' = [run EXCEPT ![i].state = "posted", ![i].cancelled = cancel]
      /\ UNCHANGED <<world, window, stack, grab, file, mode, options, busy, cancel, controls>>
  BY DEF WorkerEnds, screen
<1>2. PICK outcome \in {"done", "failed"} : events' = Append(events, [id |-> i, outcome |-> outcome])
  BY DEF WorkerEnds
<1>3. i \in UnderWay
  BY <1>1 DEF Running, UnderWay
<1>4. busy /\ mode = "work" /\ UnderWay = {i} /\ NoneAsks(stack) /\ DOMAIN events = {}
  BY <1>1, <1>3, OnlyOne
<1> DEFINE E == [id : Id, outcome : {"done", "failed"}]
           e == [id |-> i, outcome |-> outcome]
<1>5. events \in Seq(E) /\ e \in E /\ e.id = i
  BY InvTypes DEF TypeOK
<1>6. events' \in Seq(E) /\ Len(events') = 1 /\ DOMAIN events' = {1} /\ events'[1].id = i
  <2> HIDE DEF E
  <2>1. events' = Append(events, e)
    BY <1>2
  <2> HIDE DEF e
  <2>2. Len(events) = 0
    BY <1>4, <1>5, SeqElements
  <2> QED
    BY <1>5, <2>1, <2>2
<1> DEFINE r == [run[i] EXCEPT !.state = "posted", !.cancelled = cancel]
<1>7. r \in Run /\ r.state = "posted" /\ r.cancelled = cancel /\ r.asked = run[i].asked
  <2>1. run[i] \in Run /\ cancel \in BOOLEAN
    BY InvTypes DEF TypeOK
  <2> QED
    BY <2>1 DEF Run
<1>8. run' = [run EXCEPT ![i] = r]
  BY <1>1
<1> HIDE DEF r, e
<1>9. run'[i] = r /\ (\A j \in Id \ {i} : run'[j] = run[j]) /\ run' \in [Id -> Run]
  BY <1>7, <1>8, InvTypes
<1>10. stack' \in Seq(Frame) /\ grab' \in 0..Len(stack') /\ DialogInv'
  BY <1>1, <1>4, InvTypes, DialogsStay
<1>11. TypeOK'
  BY <1>1, <1>6, <1>9, <1>10, InvTypes DEF TypeOK
<1>12. UnderWay' = {i}
  BY <1>4, <1>7, <1>9 DEF UnderWay
<1>13. OneOperation'
  BY <1>1, <1>4, <1>12, InvTypes DEF RunInv, OneOperation
<1>14. EventInv'
  BY <1>6, <1>7, <1>9 DEF EventInv
<1>15. CancelIsAimed' /\ CancelInv'
  <2>1. cancel => run[i].asked
    BY <1>1, InvTypes DEF RunInv, CancelInv
  <2>2. \A j \in Id : ~ Running(j)'
    BY <1>4, <1>7, <1>9 DEF Running, UnderWay
  <2>3. \A j \in Id : run'[j].cancelled => run'[j].asked
    BY <1>7, <1>9, <2>1, InvTypes DEF RunInv, CancelIsAimed
  <2> QED
    BY <2>2, <2>3 DEF CancelIsAimed, CancelInv
<1>16. CloseWaits'
  BY <1>7, <1>9, InvTypes DEF RunInv, CloseWaits
<1>17. OptionsInv'
  BY <1>1, InvTypes DEF OptionsInv
<1> QED
  BY <1>10, <1>11, <1>13, <1>14, <1>15, <1>16, <1>17 DEF Inv, RunInv

LEMMA PollKeepsInv ==
  ASSUME Inv, Poll
  PROVE  Inv'
<1> DEFINE event == Head(events)
           i == event.id
           E == [id : Id, outcome : {"done", "failed"}]
<1>1. /\ window = "open" /\ events # <<>>
      /\ run' = [run EXCEPT ![i] = NoRun]
      /\ UNCHANGED <<stack, grab>> \/ Opened(stack, "report", Nothing)
      /\ events' = Tail(events)
      /\ busy' = FALSE /\ controls' = "start" /\ mode' = "work"
      /\ UNCHANGED <<world, window, options, file, cancel>>
  BY DEF Poll, Waiting
<1>2. events \in Seq(E)
  BY InvTypes DEF TypeOK
<1>3. event \in E /\ 1 \in DOMAIN events /\ events[1] = event /\ events' \in Seq(E)
      /\ Len(events') = Len(events) - 1 /\ Len(events) \in Nat
  <2> HIDE DEF E
  <2> QED
    BY <1>1, <1>2, HeadTailProperties, EmptySeq
<1>4. i \in Id /\ run[i].state = "posted"
  BY <1>1, <1>3, InvTypes DEF RunInv, EventInv
<1>5. i \in UnderWay
  BY <1>4 DEF UnderWay
<1> HIDE DEF event, i
<1>6. busy /\ mode = "work" /\ UnderWay = {i} /\ NoneAsks(stack)
  BY <1>1, <1>5, OnlyOne
<1>7. NoRun \in Run /\ NoRun.state = "none" /\ ~ NoRun.asked /\ ~ NoRun.cancelled
  BY DEF NoRun, Run, Ops
<1>8. run'[i] = NoRun /\ (\A j \in Id \ {i} : run'[j] = run[j]) /\ run' \in [Id -> Run]
  BY <1>1, <1>4, <1>7, InvTypes
<1>9. \A j \in Id : run'[j].state \notin {"running", "posted"}
  BY <1>6, <1>7, <1>8 DEF UnderWay
<1>10. stack' \in Seq(Frame) /\ grab' \in 0..Len(stack') /\ DialogInv'
  <2>1. CASE UNCHANGED <<stack, grab>>
    BY <1>6, <2>1, InvTypes, DialogsStay
  <2>2. CASE Opened(stack, "report", Nothing)
    BY <1>6, <2>2, InvTypes, PlainDialog DEF Kind, Asking
  <2> QED
    BY <1>1, <2>1, <2>2
<1>11. TypeOK'
  BY <1>1, <1>3, <1>8, <1>10, InvTypes DEF TypeOK
<1>12. OneOperation'
  BY <1>1, <1>9 DEF OneOperation, UnderWay
<1>13. EventInv'
  <2>1. ASSUME NEW k \in DOMAIN events' PROVE FALSE
    <3>1. Len(events') = 0
      <4>1. Len(events) <= 1
        BY <1>1, InvTypes DEF RunInv, EventInv
      <4>2. Len(events') \in Nat
        BY <1>3, SeqElements
      <4> QED
        BY <1>3, <4>1, <4>2
    <3> QED
      <4> HIDE DEF E
      <4> QED
        BY <1>3, <2>1, <3>1, SeqElements
  <2>2. Len(events') <= 1
    BY <1>1, <1>3, InvTypes DEF RunInv, EventInv
  <2> QED
    BY <2>1, <2>2 DEF EventInv
<1>14. CancelIsAimed' /\ CancelInv' /\ CloseWaits'
  BY <1>7, <1>8, <1>9, InvTypes DEF RunInv, CancelIsAimed, CancelInv, CloseWaits, Running
<1>15. OptionsInv'
  BY <1>1, InvTypes DEF OptionsInv
<1> QED
  BY <1>10, <1>11, <1>12, <1>13, <1>14, <1>15 DEF Inv, RunInv

(* An action that leaves the operations alone, puts at most a notice over  *)
(* dialogs that only inform, and keeps the options or replaces them by a   *)
(* consistent choice.                                                      *)
LEMMA QuietKeepsInv ==
  ASSUME Inv, window = "open", UNCHANGED <<world, window, busy, cancel, run, events>>,
         controls' = controls, mode' \in {"work", "settings"}, busy => mode' = "work",
         options' \in Options, OptionsInv', file' \in {file, options'},
         NEW below \in Seq(Frame), NoneAsks(below),
         \/ NoDialog(below) /\ grab \in 0..Len(below) /\ (grab # 0 => below[grab].dialog = "open")
         \/ stack' = below /\ grab' = 0
         \/ Over(below, "notice", Nothing)
  PROVE  Inv'
<1>1. stack' \in Seq(Frame) /\ grab' \in 0..Len(stack') /\ DialogInv'
  <2>1. CASE NoDialog(below) /\ grab \in 0..Len(below) /\ (grab # 0 => below[grab].dialog = "open")
    BY <2>1, PlainDialog
  <2>2. CASE stack' = below /\ grab' = 0
    <3>1. stack' \in Seq(Frame) /\ grab' \in 0..Len(stack')
      BY <2>2
    <3>2. AskInv'
      BY <2>2 DEF AskInv, NoneAsks, Asking
    <3> QED
      BY <2>2, <3>1, <3>2 DEF DialogInv, GrabInv
  <2>3. CASE Over(below, "notice", Nothing)
    BY <2>3, PlainDialog DEF Over, Kind, Asking
  <2> QED
    BY <2>1, <2>2, <2>3
<1>2. UNCHANGED work
  BY DEF work
<1>3. RunInv'
  BY <1>2, InvTypes, WorkStays
<1>4. TypeOK'
  BY <1>1, InvTypes DEF TypeOK
<1> QED
  BY <1>1, <1>3, <1>4 DEF Inv

LEMMA SelectKeepsInv ==
  ASSUME Inv, NEW m \in {"work", "settings"}, SelectMode(m)
  PROVE  Inv'
<1>1. /\ window = "open" /\ AtHand /\ controls = "start" /\ mode' = m
      /\ UNCHANGED <<world, window, stack, grab, options, file, busy, cancel, controls, run, events>>
  BY DEF SelectMode, AtHand, Waiting, work
<1>2. NoneAsks(stack) /\ ~ busy /\ grab = 0
  BY <1>1, InvTypes, AtHandNoneAsks DEF RunInv, OneOperation, AtHand
<1>3. NoDialog(stack)
  BY <1>1 DEF NoDialog
<1>4. options' \in Options /\ OptionsInv'
  BY <1>1, InvTypes DEF OptionsInv
<1> QED
  BY <1>1, <1>2, <1>3, <1>4, InvTypes, QuietKeepsInv

LEMMA ChooseKeepsInv ==
  ASSUME Inv, \/ \E p \in Named \cup {Custom} : ChooseProfile(p)
              \/ \E v \in Values : Tick(v)
  PROVE  Inv'
<1>1. /\ window = "open" /\ AtHand
      /\ UNCHANGED <<world, window, stack, grab, mode, file, busy, cancel, controls, run, events>>
  BY DEF ChooseProfile, Tick, AtHand, Waiting, work
<1>2. NoneAsks(stack) /\ grab = 0 /\ (busy => mode' = "work")
  BY <1>1, InvTypes, AtHandNoneAsks DEF RunInv, OneOperation, AtHand
<1>3. NoDialog(stack)
  BY <1>1 DEF NoDialog
<1>4. options' \in Options /\ OptionsInv'
  <2>1. CASE \E p \in Named \cup {Custom} : ChooseProfile(p)
    <3>1. PICK p \in Named \cup {Custom} : ChooseProfile(p)
      BY <2>1
    <3> DEFINE v == IF p = Custom THEN options.values ELSE Preset[p]
    <3>2. v \in Values /\ (p # Custom => v = Preset[p])
      BY InvTypes, ApplicationParameters DEF Options
    <3>3. options' = [profile |-> p, values |-> v]
      BY <3>1 DEF ChooseProfile
    <3> HIDE DEF v
    <3> QED
      BY <3>2, <3>3 DEF Options, OptionsInv
  <2>2. CASE \E v \in Values : Tick(v)
    <3>1. PICK v \in Values : options' = [profile |-> Custom, values |-> v]
      BY <2>2 DEF Tick
    <3> QED
      BY <3>1 DEF Options, OptionsInv
  <2> QED
    BY <2>1, <2>2
<1>5. mode' \in {"work", "settings"}
  BY <1>1, InvTypes DEF TypeOK
<1> QED
  BY <1>1, <1>2, <1>3, <1>4, <1>5, InvTypes, QuietKeepsInv

LEMMA SaveKeepsInv ==
  ASSUME Inv, SaveSettings
  PROVE  Inv'
<1>1. /\ window = "open" /\ AtHand
      /\ UNCHANGED <<world, window, mode, options, busy, cancel, run, events>>
      /\ controls' = controls
  <2>1. window = "open" /\ AtHand
    BY DEF SaveSettings, AtHand, Waiting
  <2>2. mode = "settings" => controls = "start"
    BY <2>1, InvTypes DEF RunInv, OneOperation
  <2> QED
    BY <2>1, <2>2 DEF SaveSettings, screen
<1>2. NoneAsks(stack) /\ grab = 0 /\ (busy => mode' = "work")
  BY <1>1, InvTypes, AtHandNoneAsks DEF RunInv, OneOperation, AtHand
<1>3. options' \in Options /\ OptionsInv' /\ mode' \in {"work", "settings"}
  BY <1>1, InvTypes DEF OptionsInv, TypeOK
<1>4. Rebuilt \in Seq(Frame) /\ NoneAsks(Rebuilt)
  <2>1. Rebuilt \in Seq(Frame) /\ Len(Rebuilt) = Len(stack)
        /\ \A i \in 1..Len(stack) : Rebuilt[i].kind = stack[i].kind
    BY InvTypes, RebuiltRight
  <2>2. DOMAIN Rebuilt = 1..Len(stack)
    BY <2>1
  <2> QED
    BY <1>2, <2>1, <2>2, InvTypes DEF NoneAsks
<1>5. /\ file' \in {file, options'}
      /\ \/ stack' = Rebuilt /\ grab' = 0
         \/ Over(Rebuilt, "notice", Nothing)
         \/ NoDialog(stack)
         \/ Over(stack, "notice", Nothing)
  BY <1>1 DEF SaveSettings, Saved, NoDialog
<1>6. CASE stack' = Rebuilt /\ grab' = 0
  BY <1>1, <1>2, <1>3, <1>4, <1>5, <1>6, QuietKeepsInv
<1>7. CASE Over(Rebuilt, "notice", Nothing)
  BY <1>1, <1>2, <1>3, <1>4, <1>5, <1>7, QuietKeepsInv
<1>8. CASE NoDialog(stack)
  BY <1>1, <1>2, <1>3, <1>5, <1>8, InvTypes, QuietKeepsInv
<1>9. CASE Over(stack, "notice", Nothing)
  BY <1>1, <1>2, <1>3, <1>5, <1>9, InvTypes, QuietKeepsInv
<1> QED
  BY <1>5, <1>6, <1>7, <1>8, <1>9

(* Two troubles at once apart, a request to close the window over a        *)
(* question is granted or finds an operation under way, when nothing asks. *)
LEMMA CloseKeepsInv ==
  ASSUME AtMostOneTrouble, Inv, CloseRequest
  PROVE  Inv'
<1>1. window = "open" /\ Waiting /\ UNCHANGED world /\ (grab = 0 \/ world.closeOverDialogs)
  BY DEF CloseRequest, Waiting
<1>2. CASE ~ busy /\ file' = options /\ Destroy("closed")
  BY <1>1, <1>2, DestroyKeepsInv
<1>3. CASE /\ busy \/ world.saveFails
           /\ Over(stack, "notice", Nothing)
           /\ UNCHANGED <<window, file, screen, work>>
  <2>1. world \in Worlds
    BY InvTypes DEF TypeOK
  <2>2. AtHand \/ busy
    BY <1>1, <1>3, <2>1 DEF AtMostOneTrouble, AtHand
  <2>3. NoneAsks(stack)
    BY <1>1, <2>2, InvTypes, AtHandNoneAsks
  <2>4. UNCHANGED <<world, window, file, mode, options, busy, cancel, controls, run, events>>
    BY <1>1, <1>3 DEF screen, work
  <2>5. mode' \in {"work", "settings"} /\ (busy => mode' = "work") /\ options' \in Options /\ OptionsInv'
    BY <1>1, <2>4, InvTypes DEF TypeOK, RunInv, OneOperation, OptionsInv
  <2> QED
    BY <1>1, <1>3, <2>3, <2>4, <2>5, InvTypes, QuietKeepsInv
<1> QED
  BY <1>2, <1>3 DEF CloseRequest

(* A button or the settings page: with nothing in the way and no operation *)
(* under way, a check starts, or the user is asked, or told what is wrong. *)
LEMMA ButtonKeepsInv ==
  ASSUME Inv, Change \/ ClearUserData \/ \E op \in {"check", "read"} : Check(op)
  PROVE  Inv'
<1>1. window = "open" /\ AtHand /\ ~ busy /\ grab = 0
  BY DEF Change, ClearUserData, Check, AtHand, Waiting
<1>2. NoneAsks(stack) /\ stack \in Seq(Frame) /\ 0 \in 0..Len(stack) /\ options \in Options
  BY <1>1, InvTypes, AtHandNoneAsks
<1>3. CASE Change
  <2>1. mode = "work" /\ UNCHANGED <<world, window, file, screen, work>>
    BY <1>3 DEF Change
  <2>2. Opened(stack, "confirm", options) \/ Opened(stack, "notice", Nothing)
    BY <1>3 DEF Change, Over
  <2> QED
    BY <1>1, <1>2, <2>1, <2>2, AskKeepsInv DEF Kind
<1>4. CASE ClearUserData
  <2>1. Opened(stack, "wipe", Nothing) /\ UNCHANGED <<world, window, file, screen, work>>
    BY <1>4 DEF ClearUserData, Over
  <2> QED
    BY <1>1, <1>2, <2>1, AskKeepsInv DEF Kind
<1>5. CASE \E op \in {"check", "read"} : Check(op)
  <2>1. PICK op \in {"check", "read"} : Check(op)
    BY <1>5
  <2>2. op \in Ops /\ mode = "work" /\ StartOperation(op, options, stack) /\ UNCHANGED <<world, window>>
    BY <2>1 DEF Check, Ops
  <2> QED
    BY <1>1, <1>2, <2>2, StartKeepsInv
<1> QED
  BY <1>3, <1>4, <1>5

(* A question is asked when nothing is under way, and what a confirmed     *)
(* operation runs with is what the page still shows.                       *)
LEMMA AskedWhenIdle ==
  ASSUME Inv, window = "open", stack # <<>>, stack[Len(stack)].kind \in Asking
  PROVE  /\ ~ busy
         /\ stack[Len(stack)].kind = "confirm" =>
              mode = "work" /\ stack[Len(stack)].options = options
<1>1. Len(stack) \in DOMAIN stack
  BY InvTypes, EmptySeq
<1> QED
  BY <1>1, InvTypes DEF AskInv

LEMMA ReturnKeepsInv ==
  ASSUME Inv, Return
  PROVE  Inv'
<1> DEFINE top == stack[Len(stack)]
<1>1. window = "open" /\ stack # <<>> /\ top.dialog # "open" /\ UNCHANGED world
  BY DEF Return
<1>2. /\ NoneAsks(Below) /\ Below \in Seq(Frame)
      /\ grab \in 0..Len(Below) /\ (grab # 0 => Below[grab].dialog = "open")
  BY <1>1, InvTypes, BelowNoneAsks, BelowRight
<1>3. CASE top.kind = "confirm" /\ StartOperation("change", top.options, Below) /\ UNCHANGED window
  <2>1. mode = "work" /\ ~ busy /\ top.options = options /\ options \in Options
    BY <1>1, <1>3, InvTypes, AskedWhenIdle DEF Asking
  <2>2. StartOperation("change", options, Below)
    BY <1>3, <2>1
  <2> QED
    BY <1>1, <1>2, <1>3, <2>1, <2>2, StartKeepsInv DEF Ops
<1>4. CASE /\ top.kind \in {"wipe", "wipe again"}
           /\ Over(Below, "wipe again", Nothing) \/ Over(Below, "notice", Nothing)
           /\ UNCHANGED <<window, file, screen, work>>
  <2>1. ~ busy
    BY <1>1, <1>4, AskedWhenIdle DEF Asking
  <2>2. Opened(Below, "wipe again", Nothing) \/ Opened(Below, "notice", Nothing)
    BY <1>4 DEF Over
  <2>3. CASE Opened(Below, "wipe again", Nothing)
    BY <1>1, <1>2, <1>4, <2>1, <2>3, AskKeepsInv DEF Kind
  <2>4. CASE Opened(Below, "notice", Nothing)
    BY <1>1, <1>2, <1>4, <2>1, <2>4, AskKeepsInv DEF Kind
  <2> QED
    BY <2>2, <2>3, <2>4
<1>5. CASE top.kind = "wipe again" /\ file' = Nothing /\ Destroy("wiped")
  <2>1. ~ busy
    BY <1>1, <1>5, AskedWhenIdle DEF Asking
  <2> QED
    BY <1>1, <1>5, <2>1, DestroyKeepsInv
<1>6. CASE NoDialog(Below) /\ UNCHANGED <<window, file, screen, work>>
  <2>1. UNCHANGED <<world, window, file, mode, options, busy, cancel, controls, run, events>>
    BY <1>1, <1>6 DEF screen, work
  <2>2. mode' \in {"work", "settings"} /\ (busy => mode' = "work") /\ options' \in Options /\ OptionsInv'
    BY <1>1, <2>1, InvTypes DEF TypeOK, RunInv, OneOperation, OptionsInv
  <2> QED
    BY <1>1, <1>2, <1>6, <2>1, <2>2, QuietKeepsInv
<1> QED
  BY <1>3, <1>4, <1>5, <1>6 DEF Return, Below

LEMMA NextKeepsInv ==
  ASSUME AtMostOneTrouble, Inv, [Next]_vars
  PROVE  Inv'
<1>1. CASE UNCHANGED vars
  <2>1. /\ UNCHANGED <<world, window, stack, grab, mode, busy, cancel, controls>>
        /\ UNCHANGED <<options, file, run, events>>
    BY <1>1 DEF vars
  <2>2. TypeOK' /\ DialogInv' /\ OptionsInv'
    BY <2>1, InvTypes DEF TypeOK, DialogInv, GrabInv, AskInv, OptionsInv
  <2>3. RunInv'
    BY <2>1, InvTypes DEF RunInv, OneOperation, UnderWay, EventInv, CancelIsAimed, CancelInv, CloseWaits, Running
  <2> QED
    BY <2>2, <2>3 DEF Inv
<1>2. CASE Change \/ ClearUserData \/ \E op \in {"check", "read"} : Check(op)
  BY <1>2, ButtonKeepsInv
<1>3. CASE Cancel
  BY <1>3, CancelKeepsInv
<1>4. CASE CloseRequest
  BY <1>4, CloseKeepsInv
<1>5. CASE SaveSettings
  BY <1>5, SaveKeepsInv
<1>6. CASE \E i \in DOMAIN stack : Answer(i)
  BY <1>6, AnswerKeepsInv
<1>7. CASE \E m \in {"work", "settings"} : SelectMode(m)
  BY <1>7, SelectKeepsInv
<1>8. CASE (\E p \in Named \cup {Custom} : ChooseProfile(p)) \/ \E v \in Values : Tick(v)
  BY <1>8, ChooseKeepsInv
<1>9. CASE Launch
  BY <1>9, LaunchKeepsInv
<1>10. CASE Poll
  BY <1>10, PollKeepsInv
<1>11. CASE Return
  BY <1>11, ReturnKeepsInv
<1>12. CASE \E i \in Id : WorkerEnds(i)
  BY <1>12, WorkerEndsKeepsInv
<1> QED
  BY <1>1, <1>2, <1>3, <1>4, <1>5, <1>6, <1>7, <1>8, <1>9, <1>10, <1>11, <1>12 DEF Next, User, Program
-----------------------------------------------------------------------------
(* The invariant holds: nothing is asked while an operation is under way,  *)
(* and what is asked is answered before anything it rests on can change.   *)
THEOREM ApplicationInvariant ==
  ASSUME AtMostOneTrouble
  PROVE  Spec => []Inv
<1>1. Inv /\ [Next]_vars => Inv'
  BY NextKeepsInv
<1> QED
  BY <1>1, InitInv, PTL DEF Spec

(* At most one operation is under way, and then, and only then, the window *)
(* says so and refuses what it must.                                       *)
THEOREM OneAtATime ==
  ASSUME AtMostOneTrouble
  PROVE  Spec => []OneOperation
<1>1. Inv => OneOperation
  BY DEF Inv, RunInv
<1> QED
  BY <1>1, ApplicationInvariant, PTL

(* No operation is killed by the end of the program.                       *)
THEOREM NothingIsKilled ==
  ASSUME AtMostOneTrouble
  PROVE  Spec => []CloseWaits
<1>1. Inv => CloseWaits
  BY DEF Inv, RunInv
<1> QED
  BY <1>1, ApplicationInvariant, PTL

(* A cancellation reaches the operation it was meant for and no other.     *)
THEOREM CancellationAimed ==
  ASSUME AtMostOneTrouble
  PROVE  Spec => []CancelIsAimed
<1>1. Inv => CancelIsAimed
  BY DEF Inv, RunInv
<1> QED
  BY <1>1, ApplicationInvariant, PTL
-----------------------------------------------------------------------------
(* What the file holds is loaded again with the values it was saved with.  *)
LEMMA SavedIsLoaded ==
  ASSUME NEW opts \in Options, file' = opts,
         opts.profile # Custom => opts.values = Preset[opts.profile]
  PROVE  Loaded'.values = opts.values
<1>1. file' # Nothing
  BY ApplicationParameters
<1>2. Loaded'.values = IF file'.profile = Custom THEN file'.values ELSE Preset[file'.profile]
  BY <1>1 DEF Loaded
<1> QED
  BY <1>2

(* What the run of an operation that starts in this step promises.         *)
Promise(i) ==
  LET opts == run'[i].options
  IN  /\ Loaded'.values = opts.values
      /\ opts.profile # Custom => opts.values = Preset[opts.profile]

LEMMA StartPromises ==
  ASSUME Inv, window = "open", UNCHANGED window, mode = "work", ~ busy, NEW op \in Ops,
         NEW below, StartOperation(op, options, below), NEW j \in Id, Idle(j), ~ Idle(j)'
  PROVE  Promise(j)
<1>1. ~ UNCHANGED <<file, work>>
  BY DEF work, Idle
<1>2. /\ file' = options /\ busy' = TRUE /\ cancel' = FALSE /\ controls' = "cancel"
      /\ UNCHANGED events /\ mode' = "work"
  BY <1>1 DEF StartOperation, screen
<1>3. PICK i \in Id :
        /\ Idle(i)
        /\ run' = [run EXCEPT ![i] = [NoRun EXCEPT !.op = op, !.options = options, !.state = "running"]]
  BY <1>1 DEF StartOperation
<1>4. run'[i].options = options /\ \A k \in Id \ {i} : run'[k] = run[k]
  BY <1>2, <1>3, InvTypes, Started
<1>5. j = i
  BY <1>4 DEF Idle
<1>6. options \in Options /\ (options.profile # Custom => options.values = Preset[options.profile])
  BY InvTypes DEF OptionsInv
<1>7. Loaded'.values = options.values
  BY <1>2, <1>6, SavedIsLoaded
<1> QED
  BY <1>4, <1>5, <1>6, <1>7 DEF Promise

(* Only a check and a confirmed change start an operation.                 *)
LEMMA OnlyStartsStart ==
  ASSUME Inv, Next, ~ Return, \A op \in {"check", "read"} : ~ Check(op), NEW i \in Id, Idle(i)
  PROVE  Idle(i)'
<1>1. run[i].state = "none"
  BY DEF Idle
<1>2. NoRun.state = "none"
  BY DEF NoRun
<1>3. CASE UNCHANGED run
  BY <1>1, <1>3 DEF Idle
<1>4. CASE Cancel
  BY <1>1, <1>4 DEF Cancel, Idle, Running
<1>5. CASE Launch
  BY <1>2, <1>5 DEF Launch, Idle
<1>6. CASE CloseRequest
  <2>1. UNCHANGED run \/ Destroy("closed")
    BY <1>6 DEF CloseRequest, work
  <2> QED
    BY <1>1, <1>3, <2>1 DEF Destroy, Idle, Running
<1>7. CASE \E k \in Id : WorkerEnds(k)
  <2>1. PICK k \in Id : Running(k) /\ run' = [run EXCEPT ![k].state = "posted", ![k].cancelled = cancel]
    BY <1>7 DEF WorkerEnds
  <2>2. k # i
    BY <1>1, <2>1 DEF Running
  <2> QED
    BY <1>1, <2>1, <2>2, InvTypes DEF Idle
<1>8. CASE Poll
  <2>1. PICK k : run' = [run EXCEPT ![k] = NoRun]
    BY <1>8 DEF Poll
  <2> QED
    BY <1>1, <1>2, <2>1, InvTypes DEF Idle
<1>9. Change \/ SaveSettings \/ ClearUserData
        \/ (\E k \in DOMAIN stack : Answer(k)) \/ (\E m \in {"work", "settings"} : SelectMode(m))
        \/ (\E p \in Named \cup {Custom} : ChooseProfile(p)) \/ (\E v \in Values : Tick(v))
      => UNCHANGED run
  BY DEF Change, SaveSettings, ClearUserData, Answer, SelectMode, ChooseProfile, Tick, work
<1> QED
  BY <1>3, <1>4, <1>5, <1>6, <1>7, <1>8, <1>9 DEF Next, User, Program

(* An operation starts only with what has been saved: the next launch      *)
(* would load the values the user confirmed, under a name that means them. *)
THEOREM StartedIsSaved ==
  ASSUME AtMostOneTrouble
  PROVE  Spec => StartIsSaved
<1>1. ASSUME Inv, Next, NEW i \in Id, Idle(i), ~ Idle(i)'
      PROVE  Promise(i)
  <2>1. CASE Return
    <3> DEFINE top == stack[Len(stack)]
    <3>1. window = "open" /\ stack # <<>>
      BY <2>1 DEF Return
    <3>2. CASE top.kind = "confirm" /\ StartOperation("change", top.options, Below) /\ UNCHANGED window
      <4>1. mode = "work" /\ ~ busy /\ top.options = options
        BY <1>1, <3>1, <3>2, AskedWhenIdle DEF Asking
      <4>2. StartOperation("change", options, Below)
        BY <3>2, <4>1
      <4> QED
        BY <1>1, <3>1, <3>2, <4>1, <4>2, StartPromises DEF Ops
    <3>3. CASE UNCHANGED work \/ Destroy("wiped")
      BY <1>1, <3>3 DEF work, Destroy, Idle, Running
    <3> QED
      BY <2>1, <3>2, <3>3 DEF Return, Below
  <2>2. CASE \E op \in {"check", "read"} : Check(op)
    <3>1. PICK op \in {"check", "read"} : Check(op)
      BY <2>2
    <3>2. /\ op \in Ops /\ window = "open" /\ UNCHANGED window /\ mode = "work" /\ ~ busy
          /\ StartOperation(op, options, stack)
      BY <3>1 DEF Check, AtHand, Waiting, Ops
    <3> QED
      BY <1>1, <3>2, StartPromises
  <2>3. CASE ~ Return /\ \A op \in {"check", "read"} : ~ Check(op)
    BY <1>1, <2>3, OnlyStartsStart
  <2> QED
    BY <2>1, <2>2, <2>3
<1>2. Inv /\ [Next]_vars => [\A i \in Id : Idle(i) /\ ~ Idle(i)' => Promise(i)]_vars
  BY <1>1
<1>3. Spec => [][\A i \in Id : Idle(i) /\ ~ Idle(i)' => Promise(i)]_vars
  BY <1>2, ApplicationInvariant, PTL DEF Spec
<1> QED
  BY <1>3 DEF StartIsSaved, Promise
=============================================================================
