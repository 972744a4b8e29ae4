----------------------------- MODULE Diagnosis -----------------------------
(***************************************************************************)
(* The parts of the program that judge a tag without writing to it: the    *)
(* diagnosis (diagnostics.py, diagnostic/), the preflights of the write    *)
(* workflows (workflows/preflight_*.py) with the firmware cache that lives *)
(* as long as the process (workflows/common.py), and the NDEF reader       *)
(* (ndef_reader.py).  Each is a job: it collects the answers of a few      *)
(* commands in a TagInfo (pm3_parsing/) and judges what it has collected.  *)
(* An answer may lack any of its lines, a command may fail, time out, be   *)
(* cancelled or raise, and tag and reader may be exchanged at any time; no *)
(* answer says what is not so.                                             *)
(***************************************************************************)
CONSTANTS Tags,         \* what may be on the antenna, see Facts
          Ports,        \* what the port setting may be, "AUTO" among them
          Versions,     \* how a reader's firmware compares with the client
          CheckSets     \* sets of checks that the options of a write ask for

Unread == "unread"
Facts == [family : {"none", "mfc1k", "type2", "other"},
          known : {"yes", "no"},                \* a layout of NTAG213, 215, 216
          static : {"clear", "set"}, dynamic : {"clear", "set"},
          auth0 : {"off", "on"},
          magic : {"cuid", "other"},
          keys : {"default", "none", "partial"}] \* which keys are FFFFFFFFFFFF
Fields == {"family", "known", "static", "dynamic", "auth0", "magic", "keys"}
Checks == {"client_firmware", "tag_type", "target_stability", "magic_type",
           "default_keys", "static_lock", "dynamic_lock", "auth0"}

ASSUME DiagnosisParameters ==
  /\ Tags \subseteq Facts /\ Tags # {} /\ Ports # {}
  /\ Versions \subseteq {"match", "mismatch", "unclear"} /\ Versions # {}
  /\ CheckSets \subseteq SUBSET Checks

VARIABLES field,      \* the tag on the antenna; family "none": there is none
          plugged,    \* port -> how the reader that is found there compares
          cache,      \* _FIRMWARE_OK_CACHE, for one client: ports
          job, pc,    \* what runs, and its next command
          seen,       \* TagInfo
          version,    \* HardwareInfo.version_match
          probed,     \* info_already_read
          report,     \* how the job ended
          sent,       \* history: the commands of this job
          full,       \* history: its answers were complete
          swapped,    \* history: the tag was exchanged during this job
          replugged   \* history: ports with another reader than was asked

outside == <<field, plugged, swapped, replugged>>
vars == <<outside, cache, job, pc, seen, version, probed, report, sent, full>>

(* The recommended profile, the only one that uses the cache, has all      *)
(* checks (options.py).                                                    *)
ReadJobs == [task : {"read"}, expects : {"type2"},
             checks : {{}}, recommended : {FALSE}, port : Ports]
Jobs == ReadJobs
   \cup [task : {"diagnose"}, expects : {"mfc1k", "type2", "any"},
         checks : {{}}, recommended : {FALSE}, port : Ports]
   \cup [task : {"preflight"}, expects : {"mfc1k", "type2"},
         checks : CheckSets, recommended : {FALSE}, port : Ports]
   \cup [task : {"preflight"}, expects : {"mfc1k", "type2"},
         checks : {Checks}, recommended : {TRUE}, port : Ports]
NoTagInfo == [f \in Fields |-> Unread]

Init ==
  /\ field \in Tags /\ plugged \in [Ports -> Versions]
  /\ cache = {} /\ job \in ReadJobs /\ pc = "done"
  /\ seen = NoTagInfo /\ version = "unclear" /\ probed = FALSE
  /\ report = "none" /\ sent = {} /\ full = FALSE
  /\ swapped = FALSE /\ replugged = {}
-----------------------------------------------------------------------------
(* Commands.  `due` is what the command shows of the tag it is made for,   *)
(* `extra` what it may show besides.                                       *)
Outcomes == {"ok", "failed", "timeout"}
Shown(fields) ==
  {[f \in Fields |-> IF f \in shown THEN field[f] ELSE seen[f]] : shown \in SUBSET fields}
Hear(commands, due, extra, outcome) ==
  /\ sent' = sent \cup commands
  /\ seen' \in Shown(due \cup extra)
  /\ full' = (full /\ outcome = "ok" /\ \A f \in due : seen'[f] = field[f])
OfMfc(fields)   == IF field.family = "mfc1k" THEN fields ELSE {}
OfType2(fields) == IF field.family = "type2" THEN fields ELSE {}
MfInfo  == OfMfc({"magic"})               \* hf mf info
MfChk   == OfMfc({"keys"})                \* hf mf chk, with FFFFFFFFFFFF alone
MfuInfo == OfType2({"known", "static"})   \* hf mfu info
MfuInfoExtra == OfType2({"dynamic", "auth0"})

(* enrich_mfu_info gives the family together with the layout.              *)
IsType2(info)  == info.family = "type2" \/ info.known # Unread
IsMifare(info) == ~ IsType2(info) /\ info.family = "mfc1k"

(* enrich_mfu_info on a known layout; None counts as not ready.            *)
Ready(info) ==
  info.known = "yes" /\ info.auth0 = "off" /\ info.static = "clear" /\ info.dynamic = "clear"
-----------------------------------------------------------------------------
Goto(stage) == pc' = stage /\ UNCHANGED <<report, cache>>
End(how)    == pc' = "done" /\ report' = how /\ UNCHANGED cache

(* A mismatch blocks whatever a diagnosis has found.                       *)
Overall(how) == End(IF version' = "mismatch" THEN "blocked" ELSE how)
Kept == UNCHANGED <<outside, job>>

Begin(j) ==
  /\ pc = "done"
  /\ job' = j /\ pc' = (IF j.task = "preflight" THEN "preflight" ELSE "identify")
  /\ seen' = NoTagInfo /\ version' = "unclear" /\ probed' = FALSE
  /\ report' = "none" /\ sent' = {} /\ full' = TRUE
  /\ swapped' = FALSE /\ replugged' = replugged \cap cache
  /\ UNCHANGED <<field, plugged, cache>>

(* The exception of a lost or cancelled session.  A diagnosis reports it,  *)
(* the others pass it on.                                                  *)
Raises ==
  /\ pc # "done"
  /\ End(IF job.task = "diagnose" THEN "error" ELSE "fatal")
  /\ Kept /\ UNCHANGED <<seen, version, probed, sent, full>>
-----------------------------------------------------------------------------
(* Diagnosis and reader: hw version; hf 14a info.                          *)
ByFamily(info, otherwise) ==
  \/ /\ IsMifare(info) /\ job.expects \in {"mfc1k", "any"} /\ Goto("mifare")
  \/ /\ IsType2(info) /\ job.expects \in {"type2", "any"}
     /\ IF ~ probed' THEN Goto("info")
        ELSE IF info.known = "yes" THEN Goto("lock page") ELSE Overall("blocked")
  \/ /\ IF IsMifare(info) THEN job.expects = "type2"
                          ELSE IsType2(info) /\ job.expects = "mfc1k"
     /\ Overall("blocked")                            \* _mark_wrong_target
  \/ /\ ~ IsMifare(info) /\ ~ IsType2(info) /\ otherwise
Identified(outcome, connected, present) ==
  IF outcome = "timeout" \/ ~ connected THEN End("error")   \* _initial_failure_report
  ELSE IF ~ present THEN Overall("no tag")                  \* _no_tag_report
  ELSE ByFamily(seen', Goto("probe"))
Identify ==
  /\ pc = "identify"
  /\ version' \in {"unclear", plugged[job.port]}
  /\ probed' = FALSE
  /\ \E outcome \in Outcomes, connected, present \in BOOLEAN :
       /\ present => field.family # "none"
       /\ sent' = sent \cup {"hw version", "hf 14a info"}
       /\ seen' \in IF present THEN Shown({"family"}) ELSE {seen}
       /\ full' = (full /\ outcome = "ok" /\ connected /\ version' = plugged[job.port]
                        /\ (field.family # "none" => present /\ seen'.family = field.family))
       /\ \/ /\ job.task = "diagnose"
             /\ Identified(outcome, connected, present)
          \/ /\ job.task = "read"
             /\ IF outcome # "ok" \/ ~ present \/ IsMifare(seen') THEN End("fatal")
                ELSE Goto("info")
  /\ Kept

(* Identity without a family: ask in the ways the selected check allows.   *)
(* Whether the command came to its end is not looked at.                   *)
ProbeBoth ==                \* mutant: both ways, whatever check was selected
  /\ pc = "probe"
  /\ Kept /\ UNCHANGED version
  /\ probed' = TRUE
  /\ \E outcome \in Outcomes :
       Hear({"hf mf info", "hf mfu info"}, MfInfo \cup MfuInfo,
            MfuInfoExtra \cup {"family"}, outcome)
  /\ ByFamily(seen', Overall("blocked"))
Probe ==
  /\ pc = "probe"
  /\ Kept /\ UNCHANGED version
  /\ probed' = TRUE
  /\ \E outcome \in Outcomes :
       \/ /\ job.expects = "mfc1k"
          /\ Hear({"hf mf info"}, MfInfo, OfMfc({"family"}), outcome)
       \/ /\ job.expects = "type2"
          /\ Hear({"hf mfu info"}, MfuInfo, MfuInfoExtra \cup OfType2({"family"}), outcome)
       \/ /\ job.expects = "any"
          /\ Hear({"hf mf info", "hf mfu info"}, MfInfo \cup MfuInfo,
                  MfuInfoExtra \cup {"family"}, outcome)
  /\ ByFamily(seen', Overall("blocked"))       \* or _mark_unsupported

InspectMifare ==
  /\ pc = "mifare"
  /\ Kept /\ UNCHANGED <<version, probed>>
  /\ \E outcome \in Outcomes :
       /\ IF probed THEN Hear({"hf mf chk"}, MfChk, {}, outcome)
                    ELSE Hear({"hf mf info", "hf mf chk"}, MfInfo \cup MfChk, {}, outcome)
       /\ Overall(IF outcome # "timeout" /\ seen'.magic = "cuid" /\ seen'.keys = "default"
                  THEN "caution" ELSE "blocked")

InspectType2 ==
  /\ pc = "info"
  /\ Kept /\ UNCHANGED <<version, probed>>
  /\ \E outcome \in Outcomes :
       /\ Hear({"hf mfu info"}, MfuInfo, MfuInfoExtra \cup OfType2({"family"}), outcome)
       /\ \/ /\ job.task = "diagnose"
             /\ IF outcome # "timeout" /\ seen'.known = "yes" THEN Goto("lock page")
                                                              ELSE Overall("blocked")
          \/ /\ job.task = "read"
             /\ IF outcome = "ok" /\ IsType2(seen') THEN Goto("dump") ELSE End("fatal")

(* Dump and decode; the temporary files go with the job.                   *)
ReadMemory ==
  /\ pc = "dump"
  /\ Kept /\ UNCHANGED <<version, probed>>
  /\ \E outcome \in Outcomes :
       /\ Hear({"hf mfu dump"}, {}, {}, outcome)
       /\ IF outcome = "ok" THEN End("result") ELSE End("fatal")
-----------------------------------------------------------------------------
(* The preflights.  What is asked depends on the checks, and the firmware  *)
(* is asked once for a port under the recommended profile.                 *)
Asks(check) == check \in job.checks
Cached == job.recommended /\ Asks("client_firmware") /\ job.port \in cache
AsksVersion == Asks("client_firmware") /\ ~ Cached
Mifare  == job.expects = "mfc1k"
Atoms ==
  (IF AsksVersion THEN {"hw version"} ELSE {}) \cup
  (IF ~ Mifare \/ job.checks \cap {"tag_type", "target_stability"} # {}
   THEN {"hf 14a info"} ELSE {}) \cup
  (IF ~ Mifare THEN {"hf mfu info"} ELSE {}) \cup
  (IF Mifare /\ Asks("magic_type") THEN {"hf mf info"} ELSE {}) \cup
  (IF Mifare /\ Asks("default_keys") THEN {"hf mf chk"} ELSE {})

(* blocking: the checks that an answer does not pass.                      *)
Blocking(info, firmware) ==
  {check \in job.checks :
    CASE check = "client_firmware" -> ~ Cached /\ firmware # "match"
      [] check = "tag_type"     -> IF Mifare THEN ~ IsMifare(info) ELSE info.known # "yes"
      [] check = "static_lock"  -> ~ Mifare /\ info.static # "clear"
      [] check = "dynamic_lock" -> ~ Mifare /\ info.dynamic # "clear"
      [] check = "auth0"        -> ~ Mifare /\ info.auth0 # "off"
      [] check = "magic_type"   -> Mifare /\ info.magic # "cuid"
                                     /\ ~ (Asks("default_keys") /\ info.keys = "none")
      [] check = "default_keys" -> Mifare /\ info.keys \notin {"default", "none"}
      [] OTHER -> FALSE}
JudgeAnyPort(info, firmware) ==           \* mutant: the port is not in the key
  /\ pc' = "done"
  /\ report' = (IF Blocking(info, firmware) = {} THEN "accepted" ELSE "refused")
  /\ cache' = IF job.recommended /\ AsksVersion /\ firmware = "match" THEN Ports ELSE cache
Judge(info, firmware) ==
  /\ pc' = "done"
  /\ report' = (IF Blocking(info, firmware) = {} THEN "accepted" ELSE "refused")
  /\ cache' = IF job.recommended /\ AsksVersion /\ firmware = "match"
              THEN cache \cup {job.port} ELSE cache

WantsLockPage(info) ==
  ~ Mifare /\ Asks("dynamic_lock") /\ info.dynamic = Unread /\ info.known = "yes"
WantsConfigPage(info) ==
  ~ Mifare /\ Asks("auth0") /\ info.auth0 = Unread /\ info.known = "yes"
NextRead(info, firmware, lockPageDue) ==
  IF lockPageDue /\ WantsLockPage(info) THEN Goto("lock page")
  ELSE IF WantsConfigPage(info) THEN Goto("config page")
  ELSE Judge(info, firmware)

Preflight ==
  /\ pc = "preflight"
  /\ \/ Atoms = {} /\ End("accepted") /\ UNCHANGED <<seen, version, sent, full>>
     \/ /\ Atoms # {}
        /\ version' \in {"unclear"} \cup (IF AsksVersion THEN {plugged[job.port]} ELSE {})
        /\ \E outcome \in Outcomes :
             LET family == IF "hf 14a info" \in Atoms THEN {"family"} ELSE {}
                 asked  == (IF "hf mf info" \in Atoms THEN MfInfo ELSE {}) \cup
                           (IF "hf mf chk" \in Atoms THEN MfChk ELSE {}) \cup
                           (IF Mifare THEN {} ELSE MfuInfo)
             IN  /\ sent' = sent \cup Atoms
                 /\ seen' \in Shown(family \cup asked \cup (IF Mifare THEN {} ELSE MfuInfoExtra))
                 /\ full' = (full /\ outcome = "ok"
                                  /\ (AsksVersion => version' = plugged[job.port])
                                  /\ \A f \in family \cup asked : seen'[f] = field[f])
                 /\ IF outcome = "ok" THEN NextRead(seen', version', TRUE) ELSE End("refused")
  /\ Kept /\ UNCHANGED probed
-----------------------------------------------------------------------------
(* Pages of a known layout that hf mfu info may not show.  A diagnosis     *)
(* reads both, and then puts their text to that of the command it made for *)
(* hf mfu info; if a probe has made it, there is none and the program      *)
(* fails.  A page that a preflight could not read leaves its check unmet.  *)
LockPage ==
  /\ pc = "lock page"
  /\ Kept /\ UNCHANGED <<version, probed>>
  /\ \E outcome \in Outcomes :
       /\ Hear({"read dynamic lock page"}, OfType2({"dynamic"}), {}, outcome)
       /\ outcome # "ok" => seen' = seen
       /\ \/ /\ job.task = "diagnose"
             /\ IF outcome = "ok" THEN Goto("config page") ELSE Overall("blocked")
          \/ /\ job.task = "preflight" /\ NextRead(seen', version, FALSE)
ConfigPage ==
  /\ pc = "config page"
  /\ Kept /\ UNCHANGED <<version, probed>>
  /\ \E outcome \in Outcomes :
       /\ Hear({"read config page"}, OfType2({"auth0"}), {}, outcome)
       /\ outcome # "ok" => seen' = seen
       /\ \/ /\ job.task = "diagnose"
             /\ IF outcome = "ok" /\ probed THEN End("fatal")
                ELSE Overall(IF outcome = "ok" /\ Ready(seen') THEN "ready" ELSE "blocked")
          \/ /\ job.task = "preflight" /\ Judge(seen', version)
-----------------------------------------------------------------------------
(* The user exchanges the tag or the reader.                               *)
ExchangeTag ==
  /\ field' \in Tags \ {field} /\ swapped' = TRUE
  /\ UNCHANGED <<plugged, replugged, cache, job, pc, seen, version, probed, report,
                 sent, full>>
ExchangeReader(p) ==
  /\ plugged' \in [Ports -> Versions]
  /\ plugged'[p] # plugged[p] /\ \A q \in Ports \ {p} : plugged'[q] = plugged[q]
  /\ replugged' = replugged \cup {p}
  /\ UNCHANGED <<field, swapped, cache, job, pc, seen, version, probed, report, sent,
                 full>>

Next == \/ \E j \in Jobs : Begin(j)
        \/ Identify \/ Probe \/ InspectMifare \/ InspectType2 \/ ReadMemory
        \/ Preflight \/ LockPage \/ ConfigPage \/ Raises
        \/ ExchangeTag \/ \E p \in Ports : ExchangeReader(p)
Spec == Init /\ [][Next]_vars
-----------------------------------------------------------------------------
Commands == {"hw version", "hf 14a info", "hf mf info", "hf mf chk", "hf mfu info",
             "hf mfu dump", "read dynamic lock page", "read config page"}
TypeOK ==
  /\ field \in Tags /\ plugged \in [Ports -> Versions]
  /\ cache \subseteq Ports /\ job \in Jobs
  /\ pc \in {"identify", "probe", "mifare", "info", "lock page", "config page",
             "preflight", "dump", "done"}
  /\ seen \in [Fields -> {Unread} \cup UNION {{t[f] : f \in Fields} : t \in Tags}]
  /\ version \in {"match", "mismatch", "unclear"} /\ probed \in BOOLEAN
  /\ report \in {"none", "ready", "caution", "blocked", "no tag", "error", "fatal",
                 "result", "accepted", "refused"}
  /\ sent \subseteq Commands /\ full \in BOOLEAN
  /\ swapped \in BOOLEAN /\ replugged \subseteq Ports

(* What a tag is fit for, by its facts.                                    *)
FitType2 == /\ field.family = "type2" /\ field.known = "yes" /\ field.auth0 = "off"
            /\ field.static = "clear" /\ field.dynamic = "clear"
FitMfc == field.family = "mfc1k" /\ field.magic = "cuid" /\ field.keys = "default"
Faults ==
  {check \in job.checks :
    CASE check = "client_firmware" -> plugged[job.port] # "match"
      [] check = "tag_type"     -> field.family # job.expects \/ (~ Mifare /\ field.known # "yes")
      [] check = "static_lock"  -> ~ Mifare /\ field.static = "set"
      [] check = "dynamic_lock" -> ~ Mifare /\ field.dynamic = "set"
      [] check = "auth0"        -> ~ Mifare /\ field.auth0 = "on"
      [] check = "magic_type"   -> Mifare /\ field.magic # "cuid"
                                     /\ ~ (Asks("default_keys") /\ field.keys = "none")
      [] check = "default_keys" -> Mifare /\ field.keys = "partial"
      [] OTHER -> FALSE}

(* A judgement is right whatever the answers left out, as long as tag and  *)
(* reader stay in place: ready, caution and accepted are said only of what *)
(* is so, also on the word of the firmware cache; and with complete        *)
(* answers a fit tag is never sent back.  So a diagnosis and the preflight *)
(* of a write do not contradict each other.                                *)
Undisturbed == pc = "done" /\ ~ swapped /\ job.port \notin replugged
VerdictIsRight ==
  Undisturbed =>
    /\ report = "ready" => FitType2
    /\ report = "caution" => FitMfc
    /\ report \in {"ready", "caution"} => version = "unclear" \/ plugged[job.port] # "mismatch"
    /\ report = "accepted" => Faults = {}
    /\ report = "result" => field.family = "type2"
    /\ report = "no tag" /\ full => field.family = "none"
    /\ report = "refused" /\ full => ~ (Faults = {} /\ IF Mifare THEN FitMfc ELSE FitType2)
    /\ report = "blocked" /\ full =>
         \/ plugged[job.port] = "mismatch"
         \/ ~ (FitType2 /\ job.expects \in {"type2", "any"})
            /\ ~ (FitMfc /\ job.expects \in {"mfc1k", "any"})

(* "Check CUID ... does not fall through to Type 2 diagnostics. Check NDEF *)
(* ... does not run MIFARE Classic key checks" (docs/TAG_SUPPORT.md:34):   *)
(* nor does a preflight or the reader ask a tag in the way of the other    *)
(* family, keys are tried only on a tag that has said it is MIFARE         *)
(* Classic, and pages are read only on one with a known layout.            *)
OnlyItsProtocol ==
  /\ job.expects = "mfc1k" =>
       sent \cap {"hf mfu info", "hf mfu dump", "read dynamic lock page", "read config page"} = {}
  /\ job.expects = "type2" => sent \cap {"hf mf info", "hf mf chk"} = {}
  /\ job.task = "diagnose" /\ "hf mf chk" \in sent => seen.family = "mfc1k"
  /\ sent \cap {"read dynamic lock page", "read config page"} # {} => seen.known = "yes"

(* "Reports preserve partial commands and output after failure, timeout,   *)
(* or cancellation" (docs/ARCHITECTURE.md:164): whatever becomes of a      *)
(* diagnosis, it ends in a report.                                         *)
EveryRunReports == job.task = "diagnose" => report # "fatal"
=============================================================================
