-------------------------- MODULE DiagnosisProofs --------------------------
(***************************************************************************)
(* Theorems about Diagnosis, for every set of tags, ports, versions and    *)
(* checks: no verdict rests on what an answer left out, and no tag is      *)
(* asked in the way of the other family.                                   *)
(***************************************************************************)
EXTENDS Diagnosis, TLAPS

Type2Fields == {"known", "static", "dynamic", "auth0"}
MfcFields   == {"magic", "keys"}
Stages == {"identify", "probe", "mifare", "info", "lock page", "config page",
           "preflight", "dump", "done"}

JobInv ==
  /\ field \in Tags /\ plugged \in [Ports -> Versions]
  /\ job \in Jobs /\ pc \in Stages /\ cache \subseteq Ports
  /\ full \in BOOLEAN /\ swapped \in BOOLEAN /\ probed \in BOOLEAN

(* What a command may show of a field, and information that is so.         *)
May(f) == /\ f \in Type2Fields => field.family = "type2"
          /\ f \in MfcFields => field.family = "mfc1k"
IsSo(info) == \A f \in Fields : info[f] = Unread \/ (info[f] = field[f] /\ May(f))

(* TagInfo says only what is so, of the family it is so of.                *)
SeenInv == ~ swapped => IsSo(seen)

(* So do hw version and the firmware cache.                                *)
ReaderInv ==
  /\ job.port \notin replugged => version \in {"unclear", plugged[job.port]}
  /\ \A p \in cache : p \notin replugged => plugged[p] = "match"

(* What has been decided when a stage is reached.                          *)
StageInv ==
  /\ pc \in {"identify", "info"} => job.task \in {"diagnose", "read"}
  /\ pc \in {"probe", "mifare"} => job.task = "diagnose"
  /\ pc = "preflight" => job.task = "preflight"
  /\ pc = "dump" => job.task = "read" /\ IsType2(seen)
  /\ pc = "info" => job.expects # "mfc1k" /\ (job.task = "diagnose" => IsType2(seen))
  /\ pc = "mifare" => job.expects # "type2" /\ IsMifare(seen)
  /\ pc \in {"lock page", "config page"} =>
       job.task \in {"diagnose", "preflight"} /\ job.expects # "mfc1k" /\ seen.known = "yes"

JobStep == \/ Identify \/ Probe \/ InspectMifare \/ InspectType2 \/ ReadMemory
           \/ Preflight \/ LockPage \/ ConfigPage \/ Raises
-----------------------------------------------------------------------------
LEMMA JobFacts ==
  ASSUME NEW j \in Jobs
  PROVE  /\ j.port \in Ports
         /\ j.task \in {"read", "diagnose", "preflight"}
         /\ j.expects \in {"mfc1k", "type2", "any"}
         /\ j.task = "read" => j.expects = "type2"
         /\ j.task = "preflight" => j.expects \in {"mfc1k", "type2"}
         /\ j.checks \subseteq Checks
BY DiagnosisParameters DEF Jobs, ReadJobs

LEMMA Showing ==
  ASSUME NEW fields, NEW s \in Shown(fields)
  PROVE  \A f \in Fields : s[f] = seen[f] \/ (s[f] = field[f] /\ f \in fields)
BY DEF Shown

LEMMA JobInvInit == Init => JobInv
BY DiagnosisParameters DEF Init, JobInv, Jobs, Stages

LEMMA JobInvStep == JobInv /\ [Next]_vars => JobInv'
<1> SUFFICES ASSUME JobInv, [Next]_vars PROVE JobInv'
  OBVIOUS
<1> USE DEF JobInv, Stages
<1>1. ASSUME NEW j \in Jobs, Begin(j) PROVE JobInv'
  BY <1>1 DEF Begin
<1>2. CASE Identify
  BY <1>2, JobFacts DEF Identify, Identified, ByFamily, Goto, End, Overall, Kept, outside
<1>3. CASE Probe
  BY <1>3, JobFacts DEF Probe, Hear, ByFamily, Goto, End, Overall, Kept, outside
<1>4. CASE InspectMifare
  BY <1>4 DEF InspectMifare, Hear, Goto, End, Overall, Kept, outside
<1>5. CASE InspectType2
  BY <1>5 DEF InspectType2, Hear, Goto, End, Overall, Kept, outside
<1>6. CASE ReadMemory
  BY <1>6 DEF ReadMemory, Hear, Goto, End, Kept, outside
<1>7. CASE Preflight
  BY <1>7, JobFacts DEF Preflight, NextRead, Judge, Goto, End, Kept, outside
<1>8. CASE LockPage
  BY <1>8, JobFacts DEF LockPage, Hear, NextRead, Judge, Goto, End, Overall, Kept, outside
<1>9. CASE ConfigPage
  BY <1>9, JobFacts DEF ConfigPage, Hear, Judge, Goto, End, Overall, Kept, outside
<1>10. CASE Raises
  BY <1>10 DEF Raises, End, Kept, outside
<1>11. CASE ExchangeTag
  BY <1>11 DEF ExchangeTag
<1>12. ASSUME NEW p \in Ports, ExchangeReader(p) PROVE JobInv'
  BY <1>12 DEF ExchangeReader
<1>13. CASE UNCHANGED vars
  BY <1>13 DEF vars, outside
<1> QED
  BY <1>1, <1>2, <1>3, <1>4, <1>5, <1>6, <1>7, <1>8, <1>9, <1>10, <1>11, <1>12, <1>13 DEF Next
-----------------------------------------------------------------------------
(* Which commands may have been made, by what the job expects and where it *)
(* stands.                                                                 *)
PageReads == {"read dynamic lock page", "read config page"}
SentInv ==
  /\ job.expects = "mfc1k" => sent \cap ({"hf mfu info", "hf mfu dump"} \cup PageReads) = {}
  /\ job.expects = "type2" => sent \cap {"hf mf info", "hf mf chk"} = {}
  /\ job.task = "diagnose" /\ "hf mf chk" \in sent => pc = "done" /\ seen.family = "mfc1k"
  /\ sent \cap PageReads # {} =>
       pc \in {"lock page", "config page", "done"} /\ seen.known = "yes"
ProtocolInv == JobInv /\ StageInv /\ SentInv

LEMMA ProtocolInit == Init => ProtocolInv
<1> SUFFICES ASSUME Init PROVE ProtocolInv
  OBVIOUS
<1>1. StageInv
  BY DEF Init, StageInv
<1>2. SentInv
  BY DEF Init, SentInv, PageReads
<1> QED
  BY <1>1, <1>2, JobInvInit DEF ProtocolInv

(* A page read tells nothing but the field that the page holds.            *)
LEMMA PageShows ==
  ASSUME NEW f, NEW s \in Shown(OfType2({f}) \cup {})
  PROVE  \A g \in Fields \ {f} : s[g] = seen[g]
<1>1. \A g \in Fields : s[g] = seen[g] \/ g \in OfType2({f}) \cup {}
  BY Showing
<1> QED
  BY <1>1 DEF OfType2

LEMMA LockPageKeeps == LockPage => \A g \in Fields \ {"dynamic"} : seen'[g] = seen[g]
BY PageShows DEF LockPage, Hear

LEMMA ConfigPageKeeps == ConfigPage => \A g \in Fields \ {"auth0"} : seen'[g] = seen[g]
BY PageShows DEF ConfigPage, Hear

LEMMA PageReadKeeps ==
  ASSUME LockPage \/ ConfigPage
  PROVE  seen'.known = seen.known /\ seen'.family = seen.family
BY LockPageKeeps, ConfigPageKeeps DEF Fields

LEMMA StageInvStep == JobInv /\ StageInv /\ [Next]_vars => StageInv'
<1> SUFFICES ASSUME JobInv, StageInv, [Next]_vars PROVE StageInv'
  OBVIOUS
<1> USE DEF StageInv
<1>0. /\ job.task \in {"read", "diagnose", "preflight"}
      /\ job.expects \in {"mfc1k", "type2", "any"}
      /\ job.task = "read" => job.expects = "type2"
      /\ job.task = "preflight" => job.expects \in {"mfc1k", "type2"}
  BY JobFacts DEF JobInv
<1>1. ASSUME NEW j \in Jobs, Begin(j) PROVE StageInv'
  BY <1>1, JobFacts DEF Begin
<1>2. CASE Identify
  BY <1>2, <1>0 DEF Identify, Identified, ByFamily, Goto, End, Overall, Kept
<1>3. CASE Probe
  BY <1>3, <1>0 DEF Probe, ByFamily, Goto, End, Overall, Kept
<1>4. CASE InspectMifare
  BY <1>4 DEF InspectMifare, End, Overall
<1>5. CASE InspectType2
  BY <1>5, <1>0 DEF InspectType2, Goto, End, Overall, Kept
<1>6. CASE ReadMemory
  BY <1>6 DEF ReadMemory, End
<1>7. CASE Preflight
  BY <1>7, <1>0 DEF Preflight, NextRead, WantsLockPage, WantsConfigPage, Mifare, Judge,
                    Goto, End, Kept
<1>8. CASE LockPage
  BY <1>8, <1>0, PageReadKeeps
     DEF LockPage, NextRead, WantsConfigPage, Mifare, Judge, Goto, End, Overall, Kept
<1>9. CASE ConfigPage
  BY <1>9 DEF ConfigPage, Judge, End, Overall
<1>10. CASE Raises
  BY <1>10 DEF Raises, End
<1>11. CASE ExchangeTag
  BY <1>11 DEF ExchangeTag, IsType2, IsMifare
<1>12. ASSUME NEW p \in Ports, ExchangeReader(p) PROVE StageInv'
  BY <1>12 DEF ExchangeReader, IsType2, IsMifare
<1>13. CASE UNCHANGED vars
  BY <1>13 DEF vars, IsType2, IsMifare
<1> QED
  BY <1>1, <1>2, <1>3, <1>4, <1>5, <1>6, <1>7, <1>8, <1>9, <1>10, <1>11, <1>12, <1>13 DEF Next

LEMMA SentInvStep == ProtocolInv /\ [Next]_vars => SentInv'
<1> SUFFICES ASSUME ProtocolInv, [Next]_vars PROVE SentInv'
  OBVIOUS
<1> USE DEF SentInv, PageReads
<1>0. /\ JobInv /\ StageInv /\ SentInv
      /\ job.task \in {"read", "diagnose", "preflight"}
      /\ job.expects \in {"mfc1k", "type2", "any"}
      /\ job.task = "read" => job.expects = "type2"
      /\ job.task = "preflight" => job.expects \in {"mfc1k", "type2"}
  BY JobFacts DEF JobInv, ProtocolInv
<1>1. ASSUME NEW j \in Jobs, Begin(j) PROVE SentInv'
  BY <1>1 DEF Begin
<1>2. CASE Identify
  <2>1. sent' = sent \cup {"hw version", "hf 14a info"} /\ job' = job /\ pc = "identify"
    BY <1>2 DEF Identify, Kept
  <2> QED
    BY <2>1, <1>0
<1>3. CASE Probe
  <2>1. job' = job /\ pc = "probe" /\ job.task = "diagnose"
    BY <1>3, <1>0 DEF Probe, Kept, StageInv
  <2>2. \/ job.expects = "mfc1k" /\ sent' = sent \cup {"hf mf info"}
        \/ job.expects = "type2" /\ sent' = sent \cup {"hf mfu info"}
        \/ job.expects = "any" /\ sent' = sent \cup {"hf mf info", "hf mfu info"}
    BY <1>3 DEF Probe, Hear
  <2> QED
    BY <2>1, <2>2, <1>0
<1>4. CASE InspectMifare
  <2>1. job' = job /\ pc' = "done" /\ pc = "mifare" /\ job.task = "diagnose"
        /\ job.expects # "type2" /\ IsMifare(seen)
    BY <1>4, <1>0 DEF InspectMifare, Kept, StageInv, End, Overall
  <2>2. sent' \subseteq sent \cup {"hf mf info", "hf mf chk"}
    BY <1>4 DEF InspectMifare, Hear
  <2>3. PICK fields \in {MfChk \cup {}, (MfInfo \cup MfChk) \cup {}} : seen' \in Shown(fields)
    BY <1>4 DEF InspectMifare, Hear
  <2>4. "family" \notin fields
    BY <2>3 DEF MfChk, MfInfo, OfMfc
  <2>5. seen'.family = seen.family
    BY <2>3, <2>4, Showing DEF Fields
  <2>6. seen.family = "mfc1k"
    BY <2>1 DEF IsMifare
  <2> QED
    BY <2>1, <2>2, <2>5, <2>6, <1>0
<1>5. CASE InspectType2
  <2>1. job' = job /\ pc = "info" /\ sent' = sent \cup {"hf mfu info"} /\ job.expects # "mfc1k"
    BY <1>5, <1>0 DEF InspectType2, Hear, Kept, StageInv
  <2> QED
    BY <2>1, <1>0
<1>6. CASE ReadMemory
  <2>1. job' = job /\ pc = "dump" /\ sent' = sent \cup {"hf mfu dump"} /\ job.task = "read"
    BY <1>6, <1>0 DEF ReadMemory, Hear, Kept, StageInv
  <2> QED
    BY <2>1, <1>0
<1>7. CASE Preflight
  <2>1. job' = job /\ pc = "preflight" /\ job.task = "preflight"
    BY <1>7, <1>0 DEF Preflight, Kept, StageInv
  <2>2. sent' \subseteq sent \cup Atoms
    BY <1>7 DEF Preflight
  <2>3. /\ Atoms \cap PageReads = {}
        /\ job.expects = "mfc1k" => Atoms \cap {"hf mfu info", "hf mfu dump"} = {}
        /\ job.expects = "type2" => Atoms \cap {"hf mf info", "hf mf chk"} = {}
    BY DEF Atoms, Mifare
  <2> QED
    BY <2>1, <2>2, <2>3, <1>0
<1>8. CASE LockPage
  <2>1. job' = job /\ pc = "lock page" /\ sent' = sent \cup {"read dynamic lock page"}
    BY <1>8 DEF LockPage, Hear, Kept
  <2>2. pc' \in {"config page", "done"}
    BY <1>8 DEF LockPage, NextRead, Judge, Goto, End, Overall
  <2>3. job.expects # "mfc1k" /\ seen.known = "yes"
    BY <2>1, <1>0 DEF StageInv
  <2> QED
    BY <2>1, <2>2, <2>3, <1>0, <1>8, PageReadKeeps
<1>9. CASE ConfigPage
  <2>1. job' = job /\ pc = "config page" /\ sent' = sent \cup {"read config page"}
    BY <1>9 DEF ConfigPage, Hear, Kept
  <2>2. pc' = "done"
    BY <1>9 DEF ConfigPage, Judge, Goto, End, Overall
  <2>3. job.expects # "mfc1k" /\ seen.known = "yes"
    BY <2>1, <1>0 DEF StageInv
  <2> QED
    BY <2>1, <2>2, <2>3, <1>0, <1>9, PageReadKeeps
<1>10. CASE Raises
  BY <1>10, <1>0 DEF Raises, End, Kept
<1>11. CASE ExchangeTag
  BY <1>11, <1>0 DEF ExchangeTag
<1>12. ASSUME NEW p \in Ports, ExchangeReader(p) PROVE SentInv'
  BY <1>12, <1>0 DEF ExchangeReader
<1>13. CASE UNCHANGED vars
  BY <1>13, <1>0 DEF vars
<1> QED
  BY <1>1, <1>2, <1>3, <1>4, <1>5, <1>6, <1>7, <1>8, <1>9, <1>10, <1>11, <1>12, <1>13 DEF Next

(* No job asks a tag in the way of the family it was not selected for,     *)
(* keys are tried only on a tag that has said it is MIFARE Classic, pages  *)
(* are read only of a known layout: the stages of diagnostics.py and of    *)
(* the preflights lead to those commands in no other way.                  *)
THEOREM ProtocolCorrect == Spec => []OnlyItsProtocol
<1>1. ProtocolInv /\ [Next]_vars => ProtocolInv'
  BY JobInvStep, StageInvStep, SentInvStep DEF ProtocolInv
<1>2. ProtocolInv => OnlyItsProtocol
  BY DEF ProtocolInv, SentInv, PageReads, OnlyItsProtocol
<1> QED
  BY ProtocolInit, <1>1, <1>2, PTL DEF Spec
-----------------------------------------------------------------------------
(* What is known at a stage when all answers were complete.                *)
InPlace == ~ swapped /\ job.port \notin replugged
CompleteInv ==
  full /\ InPlace =>
    /\ pc = "probe" => field.family \notin {"mfc1k", "type2"}
    /\ pc \in {"mifare", "info", "lock page", "config page"} /\ job.task = "diagnose" => ~ probed
    /\ pc \in {"lock page", "config page"} => seen.static = field.static
    /\ pc \in {"lock page", "config page"} /\ job.task = "preflight" =>
         seen.family = field.family /\ (AsksVersion => version = plugged[job.port])
    /\ pc = "config page" /\ (job.task = "preflight" => Asks("dynamic_lock")) =>
         seen.dynamic = field.dynamic
VerdictInv == JobInv /\ StageInv /\ SeenInv /\ ReaderInv /\ CompleteInv /\ VerdictIsRight

LEMMA ShownIsSo ==
  ASSUME IsSo(seen), NEW fields, \A f \in fields : May(f), NEW s \in Shown(fields)
  PROVE  IsSo(s)
BY Showing DEF IsSo

LEMMA ShownMay ==
  /\ \A f \in MfInfo \cup MfChk \cup MfuInfo \cup MfuInfoExtra : May(f)
  /\ May("family")
  /\ \A fields : fields \subseteq MfcFields \cup {"family"} => \A f \in OfMfc(fields) : May(f)
  /\ \A fields : fields \subseteq Type2Fields \cup {"family"} => \A f \in OfType2(fields) : May(f)
BY DEF MfInfo, MfChk, MfuInfo, MfuInfoExtra, OfMfc, OfType2, May, MfcFields, Type2Fields

(* Whatever a job hears is so.                                             *)
LEMMA Learning == IsSo(seen) /\ JobStep => IsSo(seen')
<1> SUFFICES ASSUME IsSo(seen), JobStep PROVE IsSo(seen')
  OBVIOUS
<1>0. ASSUME NEW fields, seen' \in Shown(fields), \A f \in fields : May(f)
      PROVE  IsSo(seen')
  BY <1>0, ShownIsSo
<1>1. CASE Identify
  <2>1. seen' \in Shown({"family"}) \/ seen' = seen
    BY <1>1 DEF Identify
  <2> QED
    BY <2>1, ShownIsSo, ShownMay
<1>2. CASE Probe
  <2> DEFINE mfc == MfInfo \cup OfMfc({"family"})
             type2 == MfuInfo \cup (MfuInfoExtra \cup OfType2({"family"}))
             both == (MfInfo \cup MfuInfo) \cup (MfuInfoExtra \cup {"family"})
  <2>1. (\A f \in mfc : May(f)) /\ (\A f \in type2 : May(f)) /\ (\A f \in both : May(f))
    BY ShownMay DEF MfcFields, Type2Fields
  <2>2. seen' \in Shown(mfc) \/ seen' \in Shown(type2) \/ seen' \in Shown(both)
    BY <1>2 DEF Probe, Hear
  <2> HIDE DEF mfc, type2, both
  <2> QED
    BY <2>1, <2>2, <1>0
<1>3. CASE InspectMifare
  <2>1. seen' \in Shown(MfChk \cup {}) \/ seen' \in Shown((MfInfo \cup MfChk) \cup {})
    BY <1>3 DEF InspectMifare, Hear
  <2>2. \A f \in (MfInfo \cup MfChk) \cup {} : May(f)
    BY ShownMay
  <2> QED
    BY <2>1, <2>2, <1>0
<1>4. CASE InspectType2
  <2> DEFINE type2 == MfuInfo \cup (MfuInfoExtra \cup OfType2({"family"}))
  <2>1. \A f \in type2 : May(f)
    BY ShownMay DEF Type2Fields
  <2>2. seen' \in Shown(type2)
    BY <1>4 DEF InspectType2, Hear
  <2> QED
    BY <2>1, <2>2, <1>0
<1>5. CASE ReadMemory
  <2>1. seen' \in Shown({} \cup {})
    BY <1>5 DEF ReadMemory, Hear
  <2> QED
    BY <2>1, <1>0
<1>6. CASE Preflight
  <2>1. seen' = seen \/ \E fields : fields \subseteq {"family"} \cup MfInfo \cup MfChk
                                       \cup MfuInfo \cup MfuInfoExtra /\ seen' \in Shown(fields)
    <3> DEFINE family == IF "hf 14a info" \in Atoms THEN {"family"} ELSE {}
               asked  == (IF "hf mf info" \in Atoms THEN MfInfo ELSE {}) \cup
                         (IF "hf mf chk" \in Atoms THEN MfChk ELSE {}) \cup
                         (IF Mifare THEN {} ELSE MfuInfo)
               all    == family \cup asked \cup (IF Mifare THEN {} ELSE MfuInfoExtra)
    <3>1. seen' = seen \/ seen' \in Shown(all)
      BY <1>6 DEF Preflight
    <3>2. all \subseteq {"family"} \cup MfInfo \cup MfChk \cup MfuInfo \cup MfuInfoExtra
      OBVIOUS
    <3> HIDE DEF all
    <3> QED
      BY <3>1, <3>2
  <2> QED
    BY <2>1, ShownIsSo, ShownMay
<1>7. CASE LockPage \/ ConfigPage
  <2>1. \A f \in OfType2({"dynamic"}) \cup OfType2({"auth0"}) : May(f)
    BY ShownMay DEF Type2Fields
  <2>2. seen' \in Shown(OfType2({"dynamic"}) \cup {}) \/ seen' \in Shown(OfType2({"auth0"}) \cup {})
    BY <1>7 DEF LockPage, ConfigPage, Hear
  <2> QED
    BY <2>1, <2>2, <1>0
<1>8. CASE Raises
  BY <1>8 DEF Raises
<1> QED
  BY <1>1, <1>2, <1>3, <1>4, <1>5, <1>6, <1>7, <1>8 DEF JobStep

(* No job exchanges what it talks to, and none runs before Begin.          *)
LEMMA JobStepKeeps ==
  JobStep => pc # "done" /\ UNCHANGED <<field, plugged, swapped, replugged, job>>
BY DEF JobStep, Identify, Probe, InspectMifare, InspectType2, ReadMemory, Preflight,
       LockPage, ConfigPage, Raises, Kept, outside

LEMMA SeenInvStep == SeenInv /\ [Next]_vars => SeenInv'
<1> SUFFICES ASSUME SeenInv, [Next]_vars PROVE SeenInv'
  OBVIOUS
<1> USE DEF SeenInv
<1>1. ASSUME NEW j \in Jobs, Begin(j) PROVE SeenInv'
  BY <1>1 DEF Begin, NoTagInfo, IsSo
<1>2. CASE JobStep
  BY <1>2, Learning, JobStepKeeps DEF IsSo, May
<1>3. CASE ExchangeTag
  BY <1>3 DEF ExchangeTag
<1>4. CASE UNCHANGED <<field, swapped, seen>>
  BY <1>4 DEF IsSo, May
<1> QED
  BY <1>1, <1>2, <1>3, <1>4 DEF Next, JobStep, ExchangeReader, vars, outside

LEMMA ReaderInvStep == JobInv /\ ReaderInv /\ [Next]_vars => ReaderInv'
<1> SUFFICES ASSUME JobInv, ReaderInv, [Next]_vars PROVE ReaderInv'
  OBVIOUS
<1> USE DEF ReaderInv
<1>1. ASSUME NEW j \in Jobs, Begin(j) PROVE ReaderInv'
  BY <1>1 DEF Begin
<1>2. CASE JobStep
  <2>1. version' \in {"unclear", version, plugged[job.port]}
    BY <1>2 DEF JobStep, Identify, Probe, InspectMifare, InspectType2, ReadMemory,
                Preflight, LockPage, ConfigPage, Raises
  <2>2. cache' = cache \/ (cache' = cache \cup {job.port} /\ version' = "match")
    BY <1>2 DEF JobStep, Identify, Identified, ByFamily, Probe, InspectMifare, InspectType2,
                ReadMemory, Preflight, NextRead, LockPage, ConfigPage, Raises, Judge, Goto,
                End, Overall
  <2> QED
    BY <1>2, <2>1, <2>2, JobStepKeeps
<1>3. CASE ExchangeTag
  BY <1>3 DEF ExchangeTag
<1>4. ASSUME NEW p \in Ports, ExchangeReader(p) PROVE ReaderInv'
  BY <1>4, JobFacts DEF ExchangeReader, JobInv
<1>5. CASE UNCHANGED vars
  BY <1>5 DEF vars, outside
<1> QED
  BY <1>1, <1>2, <1>3, <1>4, <1>5 DEF Next, JobStep
-----------------------------------------------------------------------------
(* What information that is so tells, field by field.                      *)
FamilyTold(info) ==
  /\ info.family \in {Unread, field.family}
  /\ IsType2(info) => field.family = "type2"
  /\ IsMifare(info) => field.family = "mfc1k"
FieldsTold(info) ==
  /\ \A f \in Type2Fields : info[f] # Unread => field.family = "type2" /\ info[f] = field[f]
  /\ \A f \in MfcFields : info[f] # Unread => field.family = "mfc1k" /\ info[f] = field[f]

LEMMA SoFacts ==
  ASSUME NEW info, IsSo(info)
  PROVE  FamilyTold(info) /\ FieldsTold(info)
<1>1. FieldsTold(info)
  BY DEF IsSo, May, Fields, FieldsTold, Type2Fields, MfcFields
<1>2. info.family \in {Unread, field.family}
  BY DEF IsSo, Fields
<1> QED
  BY <1>1, <1>2 DEF FamilyTold, FieldsTold, Type2Fields, IsType2, IsMifare, Unread

(* What holds of every step of a job that nobody disturbs.                 *)
Place ==
  /\ job.task \in {"read", "diagnose", "preflight"}
  /\ job.expects \in {"mfc1k", "type2", "any"}
  /\ job.task = "read" => job.expects = "type2"
  /\ job.task = "preflight" => job.expects \in {"mfc1k", "type2"}
  /\ field \in Facts
  /\ version \in {"unclear", plugged[job.port]} /\ version' \in {"unclear", plugged[job.port]}
  /\ job.port \in cache => plugged[job.port] = "match"
  /\ FamilyTold(seen) /\ FieldsTold(seen)
  /\ FamilyTold(seen') /\ FieldsTold(seen')

LEMMA Ground ==
  ASSUME VerdictInv, JobStep, InPlace
  PROVE  Place
<1>1. JobInv /\ StageInv /\ SeenInv /\ ReaderInv
  BY DEF VerdictInv
<1>2. IsSo(seen) /\ IsSo(seen')
  BY <1>1, Learning DEF SeenInv, InPlace
<1>3. version' \in {"unclear", version, plugged[job.port]}
  BY DEF JobStep, Identify, Probe, InspectMifare, InspectType2, ReadMemory, Preflight,
         LockPage, ConfigPage, Raises
<1>4. version \in {"unclear", plugged[job.port]} /\ version' \in {"unclear", plugged[job.port]}
      /\ (job.port \in cache => plugged[job.port] = "match")
  BY <1>1, <1>3 DEF ReaderInv, InPlace
<1>5. FamilyTold(seen) /\ FieldsTold(seen) /\ FamilyTold(seen') /\ FieldsTold(seen')
  BY <1>2, SoFacts
<1>6. job \in Jobs /\ field \in Facts
  BY <1>1, DiagnosisParameters DEF JobInv
<1> QED
  BY <1>4, <1>5, <1>6, JobFacts DEF Place

(* The judgement of a preflight.  Acceptance rests on no complete answer;  *)
(* a refusal of a fit tag would, see Told.                                 *)
LEMMA AcceptedRightly ==
  ASSUME job.expects \in {"mfc1k", "type2"}, field \in Facts,
         job.port \in cache => plugged[job.port] = "match",
         NEW info, FamilyTold(info), FieldsTold(info),
         NEW firmware \in {"unclear", plugged[job.port]},
         Blocking(info, firmware) = {}
  PROVE  Faults = {}
<1> SUFFICES ASSUME NEW check \in Faults PROVE FALSE
  OBVIOUS
<1>1. check \in job.checks /\ check \notin Blocking(info, firmware)
  BY DEF Faults
<1> USE DEF Faults, Blocking
<1>2. CASE check = "client_firmware"
  BY <1>1, <1>2 DEF Cached
<1>3. CASE check = "tag_type" /\ Mifare
  BY <1>1, <1>3 DEF Mifare, FamilyTold
<1>4. CASE check = "tag_type" /\ ~ Mifare
  <2>1. info.known = "yes"
    BY <1>1, <1>4
  <2> QED
    BY <1>4, <2>1 DEF Mifare, FieldsTold, Type2Fields, Unread
<1>5. CASE check \in {"static_lock", "dynamic_lock", "auth0"}
  BY <1>1, <1>5 DEF FieldsTold, Type2Fields, Unread
<1>6. CASE check \in {"magic_type", "default_keys"}
  BY <1>1, <1>6 DEF FieldsTold, MfcFields, Unread, Asks
<1> QED
  BY <1>2, <1>3, <1>4, <1>5, <1>6

Told(info, firmware) ==
  /\ AsksVersion => firmware = plugged[job.port]
  /\ Asks("tag_type") => info.family = field.family
  /\ ~ Mifare /\ field.family = "type2" /\ field.known = "yes" =>
       /\ info.known = "yes" /\ info.static = field.static
       /\ Asks("dynamic_lock") => info.dynamic = field.dynamic
       /\ Asks("auth0") => info.auth0 = field.auth0
  /\ Mifare /\ field.family = "mfc1k" =>
       /\ Asks("magic_type") => info.magic = field.magic
       /\ Asks("default_keys") => info.keys = field.keys
LEMMA RefusedRightly ==
  ASSUME job.expects \in {"mfc1k", "type2"},
         NEW info, FamilyTold(info), NEW firmware, Told(info, firmware),
         Faults = {}, IF Mifare THEN FitMfc ELSE FitType2
  PROVE  Blocking(info, firmware) = {}
<1> SUFFICES ASSUME NEW check \in Blocking(info, firmware) PROVE FALSE
  OBVIOUS
<1>1. check \in job.checks /\ check \notin Faults
  BY DEF Blocking
<1> USE DEF Blocking, Faults, Told
<1>2. CASE check = "client_firmware"
  BY <1>1, <1>2 DEF AsksVersion, Asks
<1>3. CASE check = "tag_type" /\ Mifare
  <2>1. info.family = "mfc1k"
    BY <1>1, <1>3 DEF Asks, FitMfc
  <2>2. ~ IsType2(info)
    BY <1>3 DEF FamilyTold, FitMfc
  <2> QED
    BY <1>1, <1>3, <2>1, <2>2 DEF IsMifare
<1>4. CASE check = "tag_type" /\ ~ Mifare
  BY <1>1, <1>4 DEF FitType2
<1>5. CASE check \in {"static_lock", "dynamic_lock", "auth0"}
  BY <1>1, <1>5 DEF FitType2, Asks
<1>6. CASE check \in {"magic_type", "default_keys"}
  BY <1>1, <1>6 DEF FitMfc, Asks
<1> QED
  BY <1>1, <1>2, <1>3, <1>4, <1>5, <1>6
-----------------------------------------------------------------------------
(* Each step of a job, undisturbed: what is known at the next stage, and   *)
(* the verdict if it is the last.                                          *)
Judged == CompleteInv /\ VerdictIsRight

LEMMA IdentifyJudged ==
  ASSUME VerdictInv, InPlace, Identify
  PROVE  Judged'
<1>1. Place /\ UNCHANGED <<field, plugged, swapped, replugged, job>>
  BY Ground, JobStepKeeps DEF JobStep
<1>2. job.task \in {"diagnose", "read"} /\ probed' = FALSE
  BY DEF VerdictInv, StageInv, Identify
<1>3. full' => seen'.family = field.family \/ field.family = "none"
  BY DEF Identify
<1>4. CompleteInv'
  <2>1. pc' \in {"probe", "mifare", "info", "lock page", "done"}
    BY DEF Identify, Identified, ByFamily, Goto, End, Overall
  <2>2. pc' # "lock page"
    BY <1>2 DEF Identify, Identified, ByFamily, Goto, End, Overall
  <2>3. pc' = "probe" => ~ IsMifare(seen') /\ ~ IsType2(seen')
    BY <1>2 DEF Identify, Identified, ByFamily, Goto, End, Overall
  <2>4. full' /\ pc' = "probe" => field.family \notin {"mfc1k", "type2"}
    BY <1>3, <2>3 DEF IsMifare, IsType2
  <2> QED
    BY <1>1, <1>2, <2>1, <2>2, <2>4 DEF CompleteInv
<1>5. VerdictIsRight'
  <2> SUFFICES ASSUME pc' = "done" PROVE VerdictIsRight'
    BY DEF VerdictIsRight, Undisturbed
  <2>1. report' \in {"error", "fatal", "no tag", "blocked"}
    BY <1>2 DEF Identify, Identified, ByFamily, Goto, End, Overall
  <2>2. report' = "no tag" /\ full' => field.family = "none"
    BY <1>2 DEF Identify, Identified, ByFamily, Goto, End, Overall
  <2>3. report' = "blocked" => \/ version' = "mismatch"
                               \/ IsMifare(seen') /\ job.expects = "type2"
                               \/ IsType2(seen') /\ job.expects = "mfc1k"
    BY <1>2 DEF Identify, Identified, ByFamily, Goto, End, Overall
  <2>4. report' = "blocked" => \/ plugged[job.port] = "mismatch"
                               \/ field.family = "mfc1k" /\ job.expects = "type2"
                               \/ field.family = "type2" /\ job.expects = "mfc1k"
    BY <1>1, <2>3 DEF Place, FamilyTold
  <2> QED
    BY <1>1, <2>1, <2>2, <2>4 DEF VerdictIsRight, FitType2, FitMfc
<1> QED
  BY <1>4, <1>5 DEF Judged

LEMMA ProbeJudged ==
  ASSUME VerdictInv, InPlace, Probe
  PROVE  Judged'
<1>1. Place /\ UNCHANGED <<field, plugged, swapped, replugged, job>>
  BY Ground, JobStepKeeps DEF JobStep
<1>2. probed' = TRUE /\ pc = "probe" /\ (full' => full)
  BY DEF Probe, Hear
<1>3. job.task = "diagnose"
  BY <1>2 DEF VerdictInv, StageInv
<1>4. full' => field.family \notin {"mfc1k", "type2"}
  BY <1>2 DEF VerdictInv, CompleteInv
<1>5. full' => ~ IsMifare(seen') /\ ~ IsType2(seen')
  BY <1>1, <1>4 DEF Place, FamilyTold
<1>6. (pc' = "done" /\ report' = "blocked") \/ IsMifare(seen') \/ IsType2(seen')
  BY DEF Probe, ByFamily, End, Overall
<1>7. pc' = "done" => report' = "blocked"
  BY <1>2 DEF Probe, ByFamily, Goto, End, Overall
<1>8. CompleteInv'
  BY <1>5, <1>6 DEF CompleteInv
<1>9. VerdictIsRight'
  BY <1>1, <1>4, <1>7 DEF VerdictIsRight, Undisturbed, FitType2, FitMfc
<1> QED
  BY <1>8, <1>9 DEF Judged

LEMMA InspectMifareJudged ==
  ASSUME VerdictInv, InPlace, InspectMifare
  PROVE  Judged'
<1>1. Place /\ UNCHANGED <<field, plugged, swapped, replugged, job>>
  BY Ground, JobStepKeeps DEF JobStep
<1>2. pc = "mifare" /\ pc' = "done" /\ (full' => full)
  BY DEF InspectMifare, Hear, Overall, End
<1>3. job.task = "diagnose" /\ field.family = "mfc1k"
  BY <1>1, <1>2 DEF VerdictInv, StageInv, Place, FamilyTold
<1>4. full' => ~ probed
  BY <1>2, <1>3 DEF VerdictInv, CompleteInv
<1>5. full' => seen'.magic = field.magic /\ seen'.keys = field.keys
  BY <1>3, <1>4 DEF InspectMifare, Hear, MfInfo, MfChk, OfMfc
<1>6. \/ report' = "blocked" /\ version' = "mismatch"
      \/ report' = "caution" /\ version' # "mismatch" /\ seen'.magic = "cuid"
                             /\ seen'.keys = "default"
      \/ report' = "blocked" /\ (full' => ~ (seen'.magic = "cuid" /\ seen'.keys = "default"))
  BY DEF InspectMifare, Hear, Overall, End
<1>7. report' = "caution" => FitMfc
  BY <1>1, <1>3, <1>6 DEF Place, FieldsTold, MfcFields, FitMfc, Unread
<1>8. CompleteInv'
  BY <1>2 DEF CompleteInv
<1>9. VerdictIsRight'
  BY <1>1, <1>3, <1>5, <1>6, <1>7 DEF VerdictIsRight, Undisturbed, FitType2, FitMfc, Place
<1> QED
  BY <1>8, <1>9 DEF Judged

LEMMA InspectType2Judged ==
  ASSUME VerdictInv, InPlace, InspectType2
  PROVE  Judged'
<1>1. Place /\ UNCHANGED <<field, plugged, swapped, replugged, job, version, probed>>
  BY Ground, JobStepKeeps DEF JobStep, InspectType2
<1>2. pc = "info" /\ (full' => full) /\ job.task \in {"diagnose", "read"}
      /\ (job.task = "diagnose" => field.family = "type2")
  BY <1>1 DEF InspectType2, Hear, VerdictInv, StageInv, Place, FamilyTold
<1>3. job.task = "diagnose" /\ full' =>
        ~ probed /\ seen'.known = field.known /\ seen'.static = field.static
  BY <1>2 DEF VerdictInv, CompleteInv, InspectType2, Hear, MfuInfo, OfType2
<1>4. \/ pc' = "lock page" /\ job.task = "diagnose"
      \/ pc' = "dump" /\ job.task = "read"
      \/ pc' = "done" /\ report' = "fatal"
      \/ pc' = "done" /\ report' = "blocked" /\ job.task = "diagnose"
            /\ (version' = "mismatch" \/ (full' => seen'.known # "yes"))
  BY <1>2 DEF InspectType2, Hear, Goto, Overall, End
<1>5. CompleteInv'
  BY <1>1, <1>3, <1>4 DEF CompleteInv
<1>6. VerdictIsRight'
  BY <1>1, <1>2, <1>3, <1>4 DEF VerdictIsRight, Undisturbed, FitType2, FitMfc, Place
<1> QED
  BY <1>5, <1>6 DEF Judged

LEMMA ReadMemoryJudged ==
  ASSUME VerdictInv, InPlace, ReadMemory
  PROVE  Judged'
<1>1. Place /\ UNCHANGED <<field, plugged, swapped, replugged, job>>
  BY Ground, JobStepKeeps DEF JobStep
<1>2. pc' = "done" /\ report' \in {"result", "fatal"} /\ field.family = "type2"
  BY <1>1 DEF ReadMemory, End, VerdictInv, StageInv, Place, FamilyTold
<1> QED
  BY <1>1, <1>2 DEF Judged, CompleteInv, VerdictIsRight, Undisturbed

LEMMA RaisesJudged ==
  ASSUME Raises
  PROVE  Judged'
<1>1. pc' = "done" /\ report' \in {"error", "fatal"}
  BY DEF Raises, End
<1> QED
  BY <1>1 DEF Judged, CompleteInv, VerdictIsRight
-----------------------------------------------------------------------------
(* The steps that may end in the judgement of a preflight.                 *)
LEMMA FactsStay ==
  ASSUME UNCHANGED <<field, plugged, job>>
  PROVE  Faults' = Faults /\ FitType2' = FitType2 /\ FitMfc' = FitMfc /\ Mifare' = Mifare
<1>1. Mifare' = Mifare /\ FitType2' = FitType2 /\ FitMfc' = FitMfc
  BY DEF Mifare, FitType2, FitMfc
<1>2. Faults' = Faults
  BY <1>1 DEF Faults, Asks
<1> QED
  BY <1>1, <1>2

LEMMA JudgeJudged ==
  ASSUME Place, job.task = "preflight", UNCHANGED <<field, plugged, job>>,
         Judge(seen', version'), full' => Told(seen', version')
  PROVE  Judged'
<1>1. /\ job.expects \in {"mfc1k", "type2"} /\ field \in Facts
      /\ job.port \in cache => plugged[job.port] = "match"
      /\ version' \in {"unclear", plugged[job.port]}
      /\ FamilyTold(seen') /\ FieldsTold(seen')
  BY DEF Place
<1>2. pc' = "done" /\ report' = IF Blocking(seen', version') = {} THEN "accepted" ELSE "refused"
  BY DEF Judge
<1>3. report' = "accepted" => Faults = {}
  BY <1>1, <1>2, AcceptedRightly
<1>4. report' = "refused" /\ full' => ~ (Faults = {} /\ IF Mifare THEN FitMfc ELSE FitType2)
  BY <1>1, <1>2, RefusedRightly
<1>5. VerdictIsRight'
  BY <1>2, <1>3, <1>4, FactsStay DEF VerdictIsRight
<1> QED
  BY <1>2, <1>5 DEF Judged, CompleteInv

LEMMA PreflightJudged ==
  ASSUME VerdictInv, InPlace, Preflight
  PROVE  Judged'
<1>1. Place /\ UNCHANGED <<field, plugged, swapped, replugged, job, probed>>
  BY Ground, JobStepKeeps DEF JobStep, Preflight
<1>2. job.task = "preflight" /\ job.expects \in {"mfc1k", "type2"}
  BY <1>1 DEF VerdictInv, StageInv, Preflight, Place
<1>3. CASE Atoms = {} /\ End("accepted")
  <2>1. Mifare /\ ~ AsksVersion /\ ~ Asks("magic_type") /\ ~ Asks("default_keys")
        /\ ~ Asks("tag_type")
    BY <1>3 DEF Atoms, Asks
  <2>2. Faults = {}
    BY <2>1, <1>1 DEF Faults, Asks, AsksVersion, Cached, Place
  <2> QED
    BY <1>1, <1>3, <2>2, FactsStay DEF End, Judged, CompleteInv, VerdictIsRight
<1>4. CASE Atoms # {}
  <2>1. PICK outcome \in Outcomes : IF outcome = "ok" THEN NextRead(seen', version', TRUE)
                                                      ELSE End("refused") /\ full' = FALSE
    BY <1>4 DEF Preflight
  <2>2. full' =>
          /\ AsksVersion => version' = plugged[job.port]
          /\ "hf 14a info" \in Atoms => seen'.family = field.family
          /\ "hf mf info" \in Atoms => \A f \in MfInfo : seen'[f] = field[f]
          /\ "hf mf chk" \in Atoms => \A f \in MfChk : seen'[f] = field[f]
          /\ ~ Mifare => \A f \in MfuInfo : seen'[f] = field[f]
    BY <1>4 DEF Preflight
  <2>3. (~ Mifare \/ Asks("tag_type")) => "hf 14a info" \in Atoms
    BY DEF Atoms, Asks
  <2>4. Mifare => /\ Asks("magic_type") => "hf mf info" \in Atoms
                  /\ Asks("default_keys") => "hf mf chk" \in Atoms
    BY DEF Atoms
  <2>5. full' => /\ AsksVersion => version' = plugged[job.port]
                 /\ ~ Mifare \/ Asks("tag_type") => seen'.family = field.family
                 /\ ~ Mifare /\ field.family = "type2" =>
                      seen'.known = field.known /\ seen'.static = field.static
                 /\ Mifare /\ field.family = "mfc1k" =>
                      /\ Asks("magic_type") => seen'.magic = field.magic
                      /\ Asks("default_keys") => seen'.keys = field.keys
    BY <2>2, <2>3, <2>4 DEF MfInfo, MfChk, MfuInfo, OfMfc, OfType2
  <2>6. /\ seen'.known # Unread => field.family = "type2" /\ seen'.known = field.known
        /\ seen'.dynamic # Unread => seen'.dynamic = field.dynamic
        /\ seen'.auth0 # Unread => seen'.auth0 = field.auth0
    BY <1>1 DEF Place, FieldsTold, Type2Fields
  <2>7. CASE outcome # "ok"
    BY <1>2, <2>1, <2>7 DEF End, Judged, CompleteInv, VerdictIsRight
  <2>8. CASE outcome = "ok" /\ WantsLockPage(seen')
    <3>1. Goto("lock page") /\ ~ Mifare /\ seen'.known = "yes"
      BY <2>1, <2>8 DEF NextRead, WantsLockPage
    <3>2. AsksVersion' = AsksVersion
      BY <1>1, <3>1 DEF AsksVersion, Asks, Cached, Goto
    <3> QED
      BY <1>1, <1>2, <2>5, <2>6, <3>1, <3>2
         DEF Goto, Judged, CompleteInv, VerdictIsRight, Undisturbed, Unread
  <2>9. CASE outcome = "ok" /\ ~ WantsLockPage(seen') /\ WantsConfigPage(seen')
    <3>1. Goto("config page") /\ ~ Mifare /\ seen'.known = "yes"
          /\ (Asks("dynamic_lock") => seen'.dynamic # Unread)
      BY <2>1, <2>9 DEF NextRead, WantsLockPage, WantsConfigPage
    <3>2. AsksVersion' = AsksVersion /\ Asks("dynamic_lock")' = Asks("dynamic_lock")
      BY <1>1, <3>1 DEF AsksVersion, Asks, Cached, Goto
    <3> QED
      BY <1>1, <1>2, <2>5, <2>6, <3>1, <3>2
         DEF Goto, Judged, CompleteInv, VerdictIsRight, Undisturbed, Unread
  <2>10. CASE outcome = "ok" /\ ~ WantsLockPage(seen') /\ ~ WantsConfigPage(seen')
    <3>1. Judge(seen', version')
      BY <2>1, <2>10 DEF NextRead
    <3>2. full' => Told(seen', version')
      BY <2>5, <2>6, <2>10 DEF Told, WantsLockPage, WantsConfigPage
    <3> QED
      BY <1>1, <1>2, <3>1, <3>2, JudgeJudged
  <2> QED
    BY <2>7, <2>8, <2>9, <2>10
<1> QED
  BY <1>3, <1>4 DEF Preflight

LEMMA LockPageJudged ==
  ASSUME VerdictInv, InPlace, LockPage
  PROVE  Judged'
<1>1. Place /\ UNCHANGED <<field, plugged, swapped, replugged, job, probed, version>>
  BY Ground, JobStepKeeps DEF JobStep, LockPage
<1>2. /\ pc = "lock page" /\ (full' => full)
      /\ job.task \in {"diagnose", "preflight"} /\ job.expects # "mfc1k" /\ seen.known = "yes"
  BY DEF LockPage, Hear, VerdictInv, StageInv
<1>3. seen'.known = "yes" /\ seen'.family = seen.family /\ seen'.static = seen.static
  BY <1>2, LockPageKeeps DEF Fields
<1>4. field.family = "type2" /\ field.known = "yes"
  BY <1>1, <1>2 DEF Place, FieldsTold, Type2Fields, Unread
<1>5. full' => seen'.dynamic = field.dynamic
  BY <1>4 DEF LockPage, Hear, OfType2
<1>6. full' => /\ seen'.static = field.static
               /\ job.task = "diagnose" => ~ probed
               /\ job.task = "preflight" =>
                    seen'.family = field.family /\ (AsksVersion => version' = plugged[job.port])
  BY <1>1, <1>2, <1>3 DEF VerdictInv, CompleteInv
<1>7. CASE pc' = "config page"
  <2>1. cache' = cache
    BY <1>7 DEF LockPage, NextRead, Goto, Judge, Overall, End
  <2>2. AsksVersion' = AsksVersion
    BY <1>1, <2>1 DEF AsksVersion, Asks, Cached
  <2> QED
    BY <1>1, <1>5, <1>6, <1>7, <2>2 DEF Judged, CompleteInv, VerdictIsRight, Undisturbed
<1>8. CASE pc' # "config page" /\ job.task = "diagnose"
  <2>1. pc' = "done" /\ report' = "blocked" /\ (version' = "mismatch" \/ full' = FALSE)
    BY <1>8 DEF LockPage, Hear, Goto, Overall, End
  <2> QED
    BY <1>1, <2>1 DEF Judged, CompleteInv, VerdictIsRight, Undisturbed, Place
<1>9. CASE pc' # "config page" /\ job.task = "preflight"
  <2>1. Judge(seen', version') /\ ~ WantsConfigPage(seen')
    BY <1>1, <1>9 DEF LockPage, NextRead, Goto
  <2>2. ~ Mifare /\ (Asks("auth0") => seen'.auth0 = field.auth0)
    BY <1>1, <1>2, <1>3, <2>1 DEF WantsConfigPage, Mifare, Place, FieldsTold, Type2Fields
  <2>3. full' => Told(seen', version')
    BY <1>3, <1>5, <1>6, <1>9, <2>2 DEF Told
  <2> QED
    BY <1>1, <1>9, <2>1, <2>3, JudgeJudged
<1> QED
  BY <1>2, <1>7, <1>8, <1>9

LEMMA ConfigPageJudged ==
  ASSUME VerdictInv, InPlace, ConfigPage
  PROVE  Judged'
<1>1. Place /\ UNCHANGED <<field, plugged, swapped, replugged, job, probed, version>>
  BY Ground, JobStepKeeps DEF JobStep, ConfigPage
<1>2. /\ pc = "config page" /\ pc' = "done" /\ (full' => full)
      /\ job.task \in {"diagnose", "preflight"} /\ job.expects # "mfc1k" /\ seen.known = "yes"
  BY DEF ConfigPage, Hear, VerdictInv, StageInv, Judge, Overall, End
<1>3. seen'.known = "yes" /\ seen'.family = seen.family /\ seen'.static = seen.static
      /\ seen'.dynamic = seen.dynamic
  BY <1>2, ConfigPageKeeps DEF Fields
<1>4. field.family = "type2" /\ field.known = "yes"
  BY <1>1, <1>2 DEF Place, FieldsTold, Type2Fields, Unread
<1>5. full' => seen'.auth0 = field.auth0
  BY <1>4 DEF ConfigPage, Hear, OfType2
<1>6. full' => /\ seen'.static = field.static
               /\ job.task = "diagnose" => ~ probed /\ seen'.dynamic = field.dynamic
               /\ job.task = "preflight" =>
                    /\ seen'.family = field.family
                    /\ AsksVersion => version' = plugged[job.port]
                    /\ Asks("dynamic_lock") => seen'.dynamic = field.dynamic
  BY <1>1, <1>2, <1>3 DEF VerdictInv, CompleteInv
<1>7. CASE job.task = "diagnose"
  <2>1. \/ report' = "blocked" /\ version' = "mismatch"
        \/ report' = "fatal"
        \/ report' = "ready" /\ version' # "mismatch" /\ Ready(seen')
        \/ report' = "blocked" /\ (full' => ~ Ready(seen'))
    BY <1>7 DEF ConfigPage, Hear, Overall, End
  <2>2. Ready(seen') => FitType2
    BY <1>1, <1>4 DEF Ready, FitType2, Place, FieldsTold, Type2Fields, Unread
  <2>3. full' /\ FitType2 => Ready(seen')
    BY <1>3, <1>5, <1>6, <1>7 DEF Ready, FitType2
  <2>4. FitType2' = FitType2 /\ ~ FitMfc'
    BY <1>1, <1>4, FactsStay DEF FitMfc
  <2>5. VerdictIsRight'
    BY <1>1, <2>1, <2>2, <2>3, <2>4 DEF VerdictIsRight, Place
  <2> QED
    BY <1>2, <2>5 DEF Judged, CompleteInv
<1>8. CASE job.task = "preflight"
  <2>1. Judge(seen', version')
    BY <1>1, <1>8 DEF ConfigPage
  <2>2. full' => Told(seen', version')
    BY <1>2, <1>3, <1>5, <1>6, <1>8 DEF Told, Mifare
  <2> QED
    BY <1>1, <1>8, <2>1, <2>2, JudgeJudged
<1> QED
  BY <1>2, <1>7, <1>8
-----------------------------------------------------------------------------
LEMMA JudgedStep == VerdictInv /\ [Next]_vars => Judged'
<1> SUFFICES ASSUME VerdictInv, [Next]_vars PROVE Judged'
  OBVIOUS
<1>1. ASSUME NEW j \in Jobs, Begin(j) PROVE Judged'
  <2>1. pc' \in {"preflight", "identify"}
    BY <1>1 DEF Begin
  <2> QED
    BY <2>1 DEF Judged, CompleteInv, VerdictIsRight, Undisturbed
<1>2. CASE JobStep /\ InPlace
  BY <1>2, IdentifyJudged, ProbeJudged, InspectMifareJudged, InspectType2Judged,
     ReadMemoryJudged, PreflightJudged, LockPageJudged, ConfigPageJudged, RaisesJudged
     DEF JobStep
<1>3. CASE JobStep /\ ~ InPlace
  BY <1>3, JobStepKeeps DEF InPlace, Judged, CompleteInv, VerdictIsRight, Undisturbed
<1>4. CASE ExchangeTag
  BY <1>4 DEF ExchangeTag, InPlace, Judged, CompleteInv, VerdictIsRight, Undisturbed
<1>5. ASSUME NEW p \in Ports, ExchangeReader(p) PROVE Judged'
  <2>1. CASE p = job.port
    BY <1>5, <2>1
       DEF ExchangeReader, InPlace, Judged, CompleteInv, VerdictIsRight, Undisturbed
  <2>2. CASE p # job.port
    <3>1. plugged'[job.port] = plugged[job.port]
      BY <1>5, <2>2, JobFacts DEF ExchangeReader, VerdictInv, JobInv
    <3>2. Faults' = Faults /\ FitType2' = FitType2 /\ FitMfc' = FitMfc /\ Mifare' = Mifare
          /\ AsksVersion' = AsksVersion /\ Asks("dynamic_lock")' = Asks("dynamic_lock")
      BY <1>5, <3>1 DEF ExchangeReader, Faults, FitType2, FitMfc, Mifare, Asks, AsksVersion, Cached
    <3>3. InPlace' => InPlace
      BY <1>5 DEF ExchangeReader, InPlace
    <3>4. CompleteInv'
      BY <1>5, <3>1, <3>2, <3>3 DEF ExchangeReader, VerdictInv, CompleteInv
    <3>5. VerdictIsRight'
      BY <1>5, <3>1, <3>2 DEF ExchangeReader, VerdictInv, VerdictIsRight, Undisturbed
    <3> QED
      BY <3>4, <3>5 DEF Judged
  <2> QED
    BY <2>1, <2>2
<1>6. CASE UNCHANGED vars
  <2>1. Faults' = Faults /\ FitType2' = FitType2 /\ FitMfc' = FitMfc /\ Mifare' = Mifare
    BY <1>6, FactsStay DEF vars, outside
  <2>2. AsksVersion' = AsksVersion /\ Asks("dynamic_lock")' = Asks("dynamic_lock")
    BY <1>6 DEF vars, outside, Asks, AsksVersion, Cached
  <2>3. CompleteInv'
    BY <1>6, <2>2 DEF vars, outside, InPlace, VerdictInv, CompleteInv
  <2>4. VerdictIsRight'
    BY <1>6, <2>1 DEF vars, outside, VerdictInv, VerdictIsRight, Undisturbed
  <2> QED
    BY <2>3, <2>4 DEF Judged
<1> QED
  BY <1>1, <1>2, <1>3, <1>4, <1>5, <1>6 DEF Next, JobStep

(* Whatever the answers leave out, and whatever the process remembers of a *)
(* reader's firmware: as long as tag and reader stay in place, ready,      *)
(* caution and accepted are said only of a tag and a reader that are so,   *)
(* and with complete answers no fit tag is refused or blocked              *)
(* (diagnostics.py, preflight_assessments.py, _FIRMWARE_OK_CACHE).         *)
THEOREM VerdictCorrect == Spec => []VerdictIsRight
<1>1. Init => VerdictInv
  <2> SUFFICES ASSUME Init PROVE VerdictInv
    OBVIOUS
  <2>1. JobInv /\ StageInv
    BY ProtocolInit DEF ProtocolInv
  <2>2. SeenInv /\ ReaderInv /\ CompleteInv /\ VerdictIsRight
    BY DEF Init, NoTagInfo, SeenInv, IsSo, ReaderInv, CompleteInv, VerdictIsRight, Fields
  <2> QED
    BY <2>1, <2>2 DEF VerdictInv
<1>2. VerdictInv /\ [Next]_vars => VerdictInv'
  BY JobInvStep, StageInvStep, SeenInvStep, ReaderInvStep, JudgedStep DEF VerdictInv, Judged
<1>3. VerdictInv => VerdictIsRight
  BY DEF VerdictInv
<1> QED
  BY <1>1, <1>2, <1>3, PTL DEF Spec
=============================================================================
