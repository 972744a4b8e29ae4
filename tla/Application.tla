---------------------------- MODULE Application ----------------------------
(***************************************************************************)
(* The user interface as the owner of the operations (ui/operations.py,    *)
(* ui/results.py, ui/components/dialogs.py, app.py) and of the options     *)
(* they run with (ui/option_state.py, ui/settings_view.py, options.py,     *)
(* infrastructure/settings.py).                                            *)
(*                                                                         *)
(* The Tk thread runs one callback at a time.  A modal dialog runs the     *)
(* event loop inside the callback that opened it (grab_set, wait_window),  *)
(* so callbacks nest: `stack` holds the interrupted ones, the innermost    *)
(* last, and only the last can go on, once its dialog is gone.  A grab     *)
(* keeps the user's clicks from every other window; a request to close the *)
(* main window (WM_DELETE_WINDOW) is not a click and passes.  Operations   *)
(* run in daemon threads that report through one queue, which a timer of   *)
(* the Tk thread polls.                                                    *)
(***************************************************************************)
EXTENDS Integers, Sequences

CONSTANTS Values,       \* combinations of the options' values
          Preset,       \* profile -> its values, for the named profiles
          DefaultProfile,
          Worlds,       \* which troubles there are, see World
          MaxThreads,   \* bound: operations at the same time
          MaxStack      \* bound: dialogs over each other

Named   == DOMAIN Preset
Custom  == "custom"
Options == [profile : Named \cup {Custom}, values : Values]
Nothing == [profile |-> "none", values |-> "none"]

(* "change": clone, write and erase, which ask first; "check" and "read".  *)
Ops   == {"change", "check", "read"}
Id    == 1..MaxThreads
World == [saveFails : BOOLEAN,        \* settings.json cannot always be written
          closeOverDialogs : BOOLEAN] \* the window is asked to close meanwhile
Frame == [kind : {"confirm", "wipe", "wipe again", "notice", "report"},
          options : Options \cup {Nothing},  \* what a confirmed operation runs with
          dialog : {"open", "yes", "no"}]
Run   == [op : Ops, options : Options \cup {Nothing},
          state : {"none", "running", "posted", "killed"},
          asked : BOOLEAN,                \* the user has cancelled it
          cancelled : BOOLEAN]            \* it has ended by a cancellation

ASSUME ApplicationParameters ==
  /\ Named # {} /\ Custom \notin Named /\ DefaultProfile \in Named
  /\ \A p \in Named : Preset[p] \in Values
  /\ Nothing \notin Options            \* it marks where there are none
  /\ Worlds \subseteq World /\ Worlds # {}
  /\ MaxThreads \in Nat /\ MaxStack \in Nat

VARIABLES world,
          window,    \* "open", "closed", or "wiped": closed with the data deleted
          stack,     \* interrupted callbacks with their dialogs
          grab,      \* index in stack of the dialog that holds the grab, or 0
          mode,      \* current_mode: "work" (either kind of tag) or "settings"
          busy,
          cancel,    \* cancel_event, shared by all operations
          controls,  \* "start": action buttons on; "cancel": only that one; "none"
          options,   \* what the settings page shows
          file,      \* what settings.json holds
          run,       \* the operations under way
          events     \* the queue: of each operation the last event

vars == <<world, window, stack, grab, mode, busy, cancel, controls, options,
          file, run, events>>

screen == <<mode, options>>
work   == <<busy, cancel, controls, run, events>>

Idle(i)    == run[i].state = "none"
Running(i) == run[i].state = "running"
NoRun == [op |-> "check", options |-> Nothing, state |-> "none",
          asked |-> FALSE, cancelled |-> FALSE]
-----------------------------------------------------------------------------
(* detect_profile: the name of the preset that has these values.           *)
Detect(values) ==
  IF \E p \in Named : Preset[p] = values
  THEN CHOOSE p \in Named : Preset[p] = values
  ELSE Custom

(* _init_operation_settings: a named profile is authoritative for values.  *)
Loaded ==
  LET values == IF file = Nothing THEN Preset[DefaultProfile]
                ELSE IF file.profile = Custom THEN file.values
                ELSE Preset[file.profile]
  IN  [profile |-> Detect(values), values |-> values]

Init ==
  /\ world \in Worlds
  /\ window = "open" /\ stack = <<>> /\ grab = 0 /\ mode = "work"
  /\ busy = FALSE /\ cancel = FALSE /\ controls = "start"
  /\ file = Nothing /\ options = Loaded
  /\ run = [i \in Id |-> NoRun] /\ events = <<>>

(* A start of the program, with the settings file as it was left.          *)
Launch ==
  /\ window # "open"
  /\ window' = "open" /\ stack' = <<>> /\ grab' = 0 /\ mode' \in {"work", "settings"}
  /\ busy' = FALSE /\ cancel' = FALSE /\ controls' = "start"
  /\ options' = Loaded
  /\ run' = [i \in Id |-> NoRun] /\ events' = <<>>
  /\ UNCHANGED <<world, file>>
-----------------------------------------------------------------------------
(* Dialogs.  A callback whose dialog is gone goes on before anything else  *)
(* is looked at; until then the Tk thread waits for events.                *)
Waiting == window = "open" /\ (stack # <<>> => stack[Len(stack)].dialog = "open")
AtHand  == Waiting /\ grab = 0     \* the user can reach the main window

OpenedModeless(below, kind, opts) ==   \* mutant: without grab_set
  /\ stack' = Append(below, [kind |-> kind, options |-> opts, dialog |-> "open"])
  /\ grab' = 0
Opened(below, kind, opts) ==
  /\ stack' = Append(below, [kind |-> kind, options |-> opts, dialog |-> "open"])
  /\ grab' = Len(below) + 1
Over(below, kind, opts) == Len(below) < MaxStack /\ Opened(below, kind, opts)
NoDialog(below) == stack' = below /\ UNCHANGED grab

(* ThemedDialogs: the user answers a dialog, or closes it, which means no. *)
(* Its grab goes with it, and does not return to a dialog below.           *)
Answer(i) ==
  /\ Waiting /\ grab \in {0, i}
  /\ stack[i].dialog = "open"
  /\ \E answer \in {"yes", "no"} : stack' = [stack EXCEPT ![i].dialog = answer]
  /\ grab' = 0
  /\ UNCHANGED <<world, window, file, screen, work>>

(* save_settings: a temporary file, then a rename, so all or nothing.  The *)
(* callback ends, or reports the failure in a dialog of its own.           *)
Saved(below) ==
  \/ file' = options' /\ NoDialog(below)
  \/ world.saveFails /\ UNCHANGED file /\ Over(below, "notice", Nothing)
-----------------------------------------------------------------------------
(* _prepare_busy and the start of the worker, with the options that were   *)
(* read before the confirmation.  busy is not looked at again.             *)
StartUncleared(op, opts, below) ==   \* mutant: cancel_event is not cleared
  /\ UNCHANGED screen
  /\ \/ /\ file' = options /\ NoDialog(below)
        /\ busy' = TRUE /\ controls' = "cancel"
        /\ \E i \in Id :
             /\ Idle(i) /\ \A j \in 1..i-1 : ~ Idle(j)
             /\ run' = [run EXCEPT ![i] = [NoRun EXCEPT !.op = op, !.options = opts,
                                                        !.state = "running"]]
        /\ UNCHANGED <<cancel, events>>
     \/ /\ world.saveFails /\ Over(below, "notice", Nothing)
        /\ UNCHANGED <<file, work>>
StartUnsaved(op, opts, below) ==     \* mutant: starts although the save failed
  /\ UNCHANGED screen
  /\ \/ file' = options
     \/ world.saveFails /\ UNCHANGED file
  /\ NoDialog(below)
  /\ busy' = TRUE /\ cancel' = FALSE /\ controls' = "cancel"
  /\ \E i \in Id :
       /\ Idle(i) /\ \A j \in 1..i-1 : ~ Idle(j)
       /\ run' = [run EXCEPT ![i] = [NoRun EXCEPT !.op = op, !.options = opts,
                                                  !.state = "running"]]
  /\ UNCHANGED events
StartOperation(op, opts, below) ==
  /\ UNCHANGED screen
  /\ \/ /\ file' = options /\ NoDialog(below)
        /\ busy' = TRUE /\ cancel' = FALSE /\ controls' = "cancel"
        /\ \E i \in Id :
             /\ Idle(i) /\ \A j \in 1..i-1 : ~ Idle(j)
             /\ run' = [run EXCEPT ![i] = [NoRun EXCEPT !.op = op, !.options = opts,
                                                        !.state = "running"]]
        /\ UNCHANGED events
     \/ /\ world.saveFails /\ Over(below, "notice", Nothing)
        /\ UNCHANGED <<file, work>>

(* _start_bambu_write, _start_type2_write, _start_type2_erase: the options *)
(* are read, then the user is asked.  Invalid settings are a notice.       *)
Change ==
  /\ AtHand /\ mode = "work" /\ controls = "start" /\ ~ busy
  /\ Over(stack, "confirm", options) \/ Over(stack, "notice", Nothing)
  /\ UNCHANGED <<world, window, file, screen, work>>

(* _start_diagnostic and _start_ndef_read, which do not ask.               *)
Check(op) ==
  /\ AtHand /\ mode = "work" /\ controls = "start" /\ ~ busy
  /\ StartOperation(op, options, stack)
  /\ UNCHANGED <<world, window>>

Cancel ==
  /\ AtHand /\ controls = "cancel" /\ busy
  /\ cancel' = TRUE /\ controls' = "none"
  /\ run' = [i \in Id |-> IF Running(i) THEN [run[i] EXCEPT !.asked = TRUE] ELSE run[i]]
  /\ UNCHANGED <<world, window, stack, grab, screen, busy, file, events>>

(* A worker ends: done, by an exception, or, once the event is set, by     *)
(* OperationCancelledError.  Its last event is the last it does.           *)
WorkerEnds(i) ==
  /\ window = "open" /\ Running(i)
  /\ \E outcome \in {"done", "failed"} :
       /\ events' = Append(events, [id |-> i, outcome |-> outcome])
       /\ run' = [run EXCEPT ![i].state = "posted", ![i].cancelled = cancel]
  /\ UNCHANGED <<world, window, stack, grab, file, screen, busy, cancel, controls>>
-----------------------------------------------------------------------------
(* _poll_events for one event: _finish_busy, the report, _select_mode, and *)
(* a dialog inside the poll, except after a diagnosis that was made.  The  *)
(* next poll is scheduled when this one returns.                           *)
Quiet(event) == event.outcome = "done" /\ run[event.id].op = "check"
Suspended == \E i \in DOMAIN stack : stack[i].kind = "report"
PollQuietly ==             \* mutant: _finish_busy only where there is a dialog
  /\ Waiting /\ ~ Suspended /\ events # <<>>
  /\ LET event == Head(events)
     IN  /\ run' = [run EXCEPT ![event.id] = NoRun]
         /\ IF Quiet(event)
            THEN UNCHANGED <<stack, grab, busy, controls>>
            ELSE busy' = FALSE /\ controls' = "start" /\ Opened(stack, "report", Nothing)
  /\ events' = Tail(events)
  /\ mode' = "work"
  /\ UNCHANGED <<world, window, options, file, cancel>>
Poll ==
  /\ Waiting /\ ~ Suspended /\ events # <<>>
  /\ LET event == Head(events)
     IN  /\ run' = [run EXCEPT ![event.id] = NoRun]
         /\ IF Quiet(event) THEN UNCHANGED <<stack, grab>>
                            ELSE Opened(stack, "report", Nothing)
  /\ events' = Tail(events)
  /\ busy' = FALSE /\ controls' = "start" /\ mode' = "work"
  /\ UNCHANGED <<world, window, options, file, cancel>>
-----------------------------------------------------------------------------
(* root.destroy and the end of the process: the callbacks return without   *)
(* effect, and a daemon thread is killed wherever it is.                   *)
Destroy(how) ==
  /\ window' = how
  /\ stack' = <<>> /\ grab' = 0
  /\ run' = [i \in Id |-> IF Running(i) THEN [run[i] EXCEPT !.state = "killed"] ELSE run[i]]
  /\ UNCHANGED <<screen, busy, cancel, controls, events>>

(* _on_close.                                                              *)
CloseAnyway ==             \* mutant: asks whether to wait, does not refuse
  /\ Waiting /\ (grab = 0 \/ world.closeOverDialogs)
  /\ UNCHANGED world
  /\ \/ file' = options /\ Destroy("closed")
     \/ /\ world.saveFails
        /\ Over(stack, "notice", Nothing)
        /\ UNCHANGED <<window, file, screen, work>>
CloseRequest ==
  /\ Waiting /\ (grab = 0 \/ world.closeOverDialogs)
  /\ UNCHANGED world
  /\ \/ ~ busy /\ file' = options /\ Destroy("closed")
     \/ /\ busy \/ world.saveFails
        /\ Over(stack, "notice", Nothing)
        /\ UNCHANGED <<window, file, screen, work>>

(* The callback of the innermost dialog goes on.                           *)
Return ==
  /\ window = "open" /\ stack # <<>>
  /\ LET top == stack[Len(stack)]
         below == SubSeq(stack, 1, Len(stack) - 1)
         yes == top.dialog = "yes"
     IN  /\ top.dialog # "open"
         /\ \/ /\ top.kind = "confirm" /\ yes
               /\ StartOperation("change", top.options, below)
               /\ UNCHANGED window
            \/ /\ top.kind = "wipe" /\ yes
               /\ Over(below, "wipe again", Nothing)
               /\ UNCHANGED <<window, file, screen, work>>
            \/ /\ top.kind = "wipe again" /\ yes
               /\ \/ file' = Nothing /\ Destroy("wiped")
                  \/ /\ Over(below, "notice", Nothing)
                     /\ UNCHANGED <<window, file, screen, work>>
            \/ /\ top.kind \in {"notice", "report"} \/ ~ yes
               /\ NoDialog(below)
               /\ UNCHANGED <<window, file, screen, work>>
  /\ UNCHANGED world
-----------------------------------------------------------------------------
(* The settings page and what else saves the settings.                     *)
SelectMode(m) ==
  /\ AtHand /\ controls = "start" /\ ~ (busy /\ m = "settings")
  /\ mode' = m
  /\ UNCHANGED <<world, window, stack, grab, options, file, work>>

(* _profile_combo and _apply_..._profile_to_vars.                          *)
ChooseProfile(p) ==
  /\ AtHand /\ mode = "settings"
  /\ options' = [profile |-> p, values |-> IF p = Custom THEN options.values ELSE Preset[p]]
  /\ UNCHANGED <<world, window, stack, grab, mode, file, work>>

(* A check box or a method on the settings page, or the quick verification *)
(* box next to the write button, which stays usable during an operation.   *)
Tick(values) ==
  /\ AtHand
  /\ options' = [profile |-> Custom, values |-> values]
  /\ UNCHANGED <<world, window, stack, grab, mode, file, work>>

(* _rebuild_ui destroys every child of the main window, dialogs included.  *)
Rebuilt == [i \in DOMAIN stack |->
              IF stack[i].dialog = "open" THEN [stack[i] EXCEPT !.dialog = "no"]
                                          ELSE stack[i]]

(* _apply_settings_page and _change_language, which rely on the page being *)
(* out of reach while busy; and a choice in the material library.          *)
SaveSettings ==
  /\ AtHand
  /\ UNCHANGED <<world, window, screen, busy, cancel, run, events>>
  /\ \/ /\ mode = "settings"         \* another language or appearance
        /\ controls' = "start"
        /\ \/ file' = options /\ stack' = Rebuilt /\ grab' = 0
           \/ world.saveFails /\ UNCHANGED file /\ Over(Rebuilt, "notice", Nothing)
     \/ /\ mode = "settings"
        /\ UNCHANGED controls
        /\ Saved(stack)
     \/ /\ mode = "work"             \* a failure is not shown here
        /\ \/ file' = options
           \/ world.saveFails /\ UNCHANGED file
        /\ UNCHANGED <<stack, grab, controls>>

(* _clear_user_data asks twice.                                            *)
ClearUserData ==
  /\ AtHand /\ mode = "settings" /\ ~ busy
  /\ Over(stack, "wipe", Nothing)
  /\ UNCHANGED <<world, window, file, screen, work>>

User == \/ Change \/ \E op \in {"check", "read"} : Check(op)
        \/ Cancel \/ CloseRequest \/ SaveSettings \/ ClearUserData
        \/ \E i \in DOMAIN stack : Answer(i)
        \/ \E m \in {"work", "settings"} : SelectMode(m)
        \/ \E p \in Named \cup {Custom} : ChooseProfile(p)
        \/ \E v \in Values : Tick(v)
        \/ Launch
Program == Poll \/ Return \/ \E i \in Id : WorkerEnds(i)

Next == User \/ Program
Spec == Init /\ [][Next]_vars
FairSpec == Spec /\ SF_vars(Poll) /\ WF_vars(Return)
                 /\ \A i \in Id : WF_vars(WorkerEnds(i))
-----------------------------------------------------------------------------
TypeOK ==
  /\ world \in Worlds /\ window \in {"open", "closed", "wiped"}
  /\ stack \in Seq(Frame) /\ grab \in 0..Len(stack)
  /\ mode \in {"work", "settings"} /\ controls \in {"start", "cancel", "none"}
  /\ busy \in BOOLEAN /\ cancel \in BOOLEAN
  /\ options \in Options /\ file \in Options \cup {Nothing}
  /\ run \in [Id -> Run]
  /\ events \in Seq([id : Id, outcome : {"done", "failed"}])

(* At most one operation is under way, and then, and only then, the window *)
(* says so: it is busy, the buttons that would start another are off, and  *)
(* the settings page, which does not ask whether the program is busy, is   *)
(* shut.  It is under way until its last event has been taken.             *)
UnderWay == {i \in Id : run[i].state \in {"running", "posted"}}
OneOperation ==
  window = "open" =>
    /\ \A i, j \in UnderWay : i = j
    /\ busy <=> UnderWay # {}
    /\ controls = "start" <=> ~ busy
    /\ busy => mode = "work"

(* "The window cannot be closed during an operation", says the warning     *)
(* (locales/en.json:24): no operation is killed with a tag half written.   *)
CloseWaits == \A i \in Id : run[i].state # "killed"

(* cancel_event is one object for all operations: an operation that ends   *)
(* as cancelled is one the user has cancelled, and as long as a cancelled  *)
(* one runs the event stays set.                                           *)
CancelIsAimed ==
  \A i \in Id : /\ run[i].cancelled => run[i].asked
                /\ Running(i) /\ run[i].asked => cancel

(* "Closing or starting an operation does not silently continue after a    *)
(* failed required save" (TECHNICAL_AUDIT.md:50): when an operation        *)
(* starts, the next launch would load the values the user confirmed, and   *)
(* the profile he was told is one that has these values.                   *)
StartIsSaved ==
  [][\A i \in Id :
       Idle(i) /\ ~ Idle(i)' =>
         LET opts == run'[i].options
         IN  /\ Loaded'.values = opts.values
             /\ opts.profile # Custom => opts.values = Preset[opts.profile]]_vars

(* Every operation gives the controls back, also when the user leaves all  *)
(* dialogs open.                                                           *)
ControlsComeBack == busy ~> (~ busy \/ window # "open")
=============================================================================
