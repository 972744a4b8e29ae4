----------------------- MODULE MaterialLibraryProofs -----------------------
(***************************************************************************)
(* Theorems about MaterialLibrary, for every set of folders, libraries and *)
(* UIDs and any number of changes and scans: neither cache is believed     *)
(* when it is stale, and the keys of a clone come from the only folder     *)
(* that has them.                                                          *)
(***************************************************************************)
EXTENDS MaterialLibrary, TLAPS

(* The folders of which a scan has nothing to say yet.                     *)
OpenIn(progress) == IF progress.stage \in {"idle", "list"} THEN Folder
                    ELSE progress.todo \cup progress.reading

(* A scan in progress, or the snapshot of one, says of every folder but    *)
(* the open ones what it holds, as long as the folder keeps the stamp that *)
(* was taken; and of a folder it does not have, that it does not exist, as *)
(* long as the library keeps the stamp of its directories.                 *)
Faithful(found, open) ==
  /\ found.tree <= writes
  /\ \A f \in Folder : found.stamp[f] <= writes
  /\ \A f \in Folder \ open :
       /\ found.uid[f] \in {None, "unread", "missed"} \/ found.stamp[f] # NoStamp
       /\ disk[f].stamp = found.stamp[f] /\ disk[f].uid # "absent" => Agrees(found.uid[f], f)
       /\ RootOf[f] = found.root /\ tree[found.root] = found.tree /\ found.uid[f] = None
          => disk[f].uid = "absent"

(* No stamp is younger than the last that was given.                       *)
StampInv == /\ \A f \in Folder : disk[f].stamp <= writes
            /\ \A r \in Root : tree[r] <= writes
            /\ writes + events <= MaxEvents

(* The process remembers one finding of a folder.                          *)
QuickInv ==
  \A f \in Folder :
    /\ \A d, e \in quick[f] : d = e
    /\ \A e \in quick[f] :
         /\ e.stamp <= writes
         /\ disk[f].uid # "absent" /\ e.stamp = disk[f].stamp => Agrees(e.uid, f)

SnapshotInv == /\ \A e \in temp : Faithful(e, {})
               /\ \A e \in file : Faithful(e, {})

(* A scan reads one folder at a time, under the stamp it has taken.        *)
Staged(progress) ==
  /\ progress.stage = "list" => \A f \in Folder : progress.stamp[f] = NoStamp
  /\ progress.stage = "read" =>
       \E f \in Folder : progress.reading = {f} /\ progress.stamp[f] # NoStamp
  /\ progress.stage # "read" => progress.reading = {}
  /\ progress.stage \in {"replace", "load"} => progress.todo = {}

(* As long as nothing changed since a scan began, all it says is so.       *)
Fresh(progress) ==
  /\ progress.began <= writes
  /\ progress.began = writes =>
       \A f \in Folder \ OpenIn(progress) :
         IF progress.uid[f] = None
         THEN RootOf[f] = progress.root => disk[f].uid = "absent"
         ELSE Agrees(progress.uid[f], f)

Sound(progress) == /\ Staged(progress) /\ Fresh(progress)
                   /\ Faithful(progress, OpenIn(progress))
ScanInv == \A s \in Scanner : Sound(scan[s])

Inv == TypeOK /\ StampInv /\ QuickInv /\ SnapshotInv /\ ScanInv
-----------------------------------------------------------------------------
(* A scan that has not begun says nothing.                                 *)
LEMMA NoScanSound ==
  ASSUME TypeOK
  PROVE  NoScan \in Scan /\ Sound(NoScan)
<1>1. (CHOOSE r \in Root : TRUE) \in Root
  BY DEF TypeOK
<1>2. NoScan \in Scan
  BY <1>1, LibraryParameters DEF NoScan, Scan, Stamp, Stamps, Known, Nowhere, NoStamp
<1>3. writes \in Nat
  BY LibraryParameters DEF TypeOK, Stamp
<1>4. /\ NoScan.stage = "idle" /\ NoScan.reading = {} /\ NoScan.tree = 0
      /\ NoScan.began = 0 /\ \A f \in Folder : NoScan.stamp[f] = -1
  BY DEF NoScan, NoStamp
<1>5. OpenIn(NoScan) = Folder
  BY <1>4 DEF OpenIn
<1>6. Staged(NoScan) /\ Fresh(NoScan)
  BY <1>3, <1>4, <1>5 DEF Staged, Fresh
<1>7. Faithful(NoScan, Folder)
  BY <1>3, <1>4 DEF Faithful
<1> QED
  BY <1>2, <1>5, <1>6, <1>7 DEF Sound

LEMMA InitInv == Init => Inv
<1> SUFFICES ASSUME Init PROVE Inv
  OBVIOUS
<1>1. TypeOK
  <2>1. disk \in [Folder -> [uid : Content, stamp : Stamp]]
    BY LibraryParameters DEF Init, Stamp
  <2>2. (CHOOSE r \in Root : TRUE) \in Root
    BY DEF Init
  <2>3. NoScan \in Scan
    BY <2>2, LibraryParameters DEF NoScan, Scan, Stamp, Stamps, Known, Nowhere, NoStamp
  <2> QED
    BY <2>1, <2>3, LibraryParameters DEF Init, TypeOK, Stamp
<1>2. StampInv /\ QuickInv /\ SnapshotInv
  BY LibraryParameters DEF Init, StampInv, QuickInv, SnapshotInv
<1>3. ScanInv
  BY <1>1, NoScanSound DEF Init, ScanInv
<1> QED
  BY <1>1, <1>2, <1>3 DEF Inv
-----------------------------------------------------------------------------
(* Whatever was found before a change is as true of the disk after it: the *)
(* new stamp is younger than all that have been taken.                     *)
LEMMA ChangeKeeps ==
  ASSUME TypeOK, StampInv, NEW g \in Folder, ChangeFolder(g)
  PROVE  /\ TypeOK' /\ StampInv'
         /\ writes' = writes + 1 /\ writes \in Nat
         /\ disk'[g].stamp = writes'
         /\ \A f \in Folder \ {g} : disk'[f] = disk[f]
         /\ \A f \in Folder, r \in Root :
              RootOf[f] = r /\ tree'[r] <= writes =>
                tree'[r] = tree[r] /\ (disk[f].uid = "absent" => disk'[f].uid = "absent")
<1>1. PICK uid \in Content :
        /\ disk' = [disk EXCEPT ![g] = [uid |-> uid, stamp |-> writes']]
        /\ tree' = IF (uid = "absent") = (disk[g].uid = "absent") THEN tree
                   ELSE [tree EXCEPT ![RootOf[g]] = writes']
  BY DEF ChangeFolder
<1>2. /\ writes' = writes + 1 /\ writes + events < MaxEvents /\ UNCHANGED <<quick, files, root, shown, scan, events>>
      /\ writes \in Nat /\ events \in Nat /\ MaxEvents \in Nat
  BY LibraryParameters DEF ChangeFolder, TypeOK, Stamp
<1>3. writes' \in Stamp
  BY <1>2 DEF Stamp
<1>4. disk' \in [Folder -> [uid : Content, stamp : Stamp]] /\ tree' \in [Root -> Stamp]
  BY <1>1, <1>3 DEF TypeOK
<1>5. TypeOK'
  BY <1>2, <1>3, <1>4 DEF TypeOK, files
<1>6. /\ disk'[g] = [uid |-> uid, stamp |-> writes']
      /\ \A f \in Folder \ {g} : disk'[f] = disk[f]
  BY <1>1 DEF TypeOK
<1>7. \A r \in Root : tree'[r] = tree[r] \/ tree'[r] = writes'
  BY <1>1 DEF TypeOK
<1>8. StampInv'
  BY <1>2, <1>6, <1>7, <1>4 DEF StampInv, TypeOK, Stamp
<1>9. ASSUME NEW f \in Folder, NEW r \in Root, RootOf[f] = r, tree'[r] <= writes
      PROVE  tree'[r] = tree[r] /\ (disk[f].uid = "absent" => disk'[f].uid = "absent")
  <2>1. tree'[r] = tree[r]
    BY <1>2, <1>7, <1>9
  <2>2. CASE f # g
    BY <2>1, <2>2, <1>6, <1>9
  <2>3. CASE f = g
    <3>1. tree' # [tree EXCEPT ![RootOf[g]] = writes']
      BY <2>3, <1>9, <1>2, LibraryParameters DEF TypeOK
    <3>2. (uid = "absent") = (disk[g].uid = "absent")
      BY <3>1, <1>1
    <3> QED
      BY <2>1, <2>3, <3>2, <1>6, <1>9
  <2> QED
    BY <2>2, <2>3
<1> QED
  BY <1>2, <1>5, <1>6, <1>8, <1>9

LEMMA FaithfulAfterChange ==
  ASSUME TypeOK, StampInv, NEW g \in Folder, ChangeFolder(g),
         NEW found, NEW open, found.tree \in Stamp, found.root \in Root,
         found.stamp \in Stamps, Faithful(found, open)
  PROVE  Faithful(found, open)'
<1>1. /\ TypeOK' /\ StampInv' /\ writes' = writes + 1 /\ writes \in Nat
      /\ disk'[g].stamp = writes'
      /\ \A f \in Folder \ {g} : disk'[f] = disk[f]
      /\ \A f \in Folder, r \in Root :
           RootOf[f] = r /\ tree'[r] <= writes =>
             tree'[r] = tree[r] /\ (disk[f].uid = "absent" => disk'[f].uid = "absent")
  BY ChangeKeeps
<1>2. found.tree \in Int /\ \A f \in Folder : found.stamp[f] \in Int
  BY LibraryParameters DEF Stamp, Stamps, NoStamp
<1>3. found.tree <= writes' /\ \A f \in Folder : found.stamp[f] <= writes'
  BY <1>1, <1>2 DEF Faithful
<1>4. ASSUME NEW f \in Folder \ open
      PROVE  disk'[f].stamp = found.stamp[f] /\ disk'[f].uid # "absent"
             => found.uid[f] \in {disk'[f].uid, "unread", "missed"}
  <2>1. CASE f = g
    <3>1. found.stamp[f] <= writes
      BY DEF Faithful
    <3> QED
      BY <2>1, <3>1, <1>1, <1>2
  <2>2. CASE f # g
    BY <2>2, <1>1 DEF Faithful, Agrees
  <2> QED
    BY <2>1, <2>2
<1>5. ASSUME NEW f \in Folder \ open, RootOf[f] = found.root,
             tree'[found.root] = found.tree, found.uid[f] = None
      PROVE  disk'[f].uid = "absent"
  <2>1. tree'[found.root] <= writes
    BY <1>5 DEF Faithful
  <2>2. tree[found.root] = found.tree
    BY <1>1, <1>5, <2>1
  <2>3. disk[f].uid = "absent"
    BY <1>5, <2>2 DEF Faithful
  <2> QED
    BY <1>1, <1>5, <2>1, <2>3
<1> QED
  BY <1>3, <1>4, <1>5 DEF Faithful, Agrees

LEMMA ChangeStep == Inv /\ (\E f \in Folder : ChangeFolder(f)) => Inv'
<1> SUFFICES ASSUME Inv, NEW g \in Folder, ChangeFolder(g) PROVE Inv'
  OBVIOUS
<1>1. /\ TypeOK' /\ StampInv' /\ writes' = writes + 1 /\ writes \in Nat
      /\ disk'[g].stamp = writes'
      /\ \A f \in Folder \ {g} : disk'[f] = disk[f]
  BY ChangeKeeps DEF Inv
<1>2. UNCHANGED <<quick, files, root, shown, scan, events>>
  BY DEF ChangeFolder
<1>3. QuickInv'
  <2>1. ASSUME NEW f \in Folder, NEW e \in quick[f]
        PROVE  /\ e.stamp <= writes'
               /\ disk'[f].uid # "absent" /\ e.stamp = disk'[f].stamp => Agrees(e.uid, f)'
    <3>1. e.stamp \in Nat /\ e.stamp <= writes
      BY LibraryParameters DEF Inv, QuickInv, TypeOK, Stamp
    <3>2. CASE f = g
      BY <3>1, <3>2, <1>1
    <3>3. CASE f # g
      BY <3>1, <3>3, <1>1 DEF Inv, QuickInv, Agrees
    <3> QED
      BY <3>2, <3>3
  <2> QED
    BY <2>1, <1>2 DEF Inv, QuickInv, Agrees
<1>4. SnapshotInv'
  <2>1. ASSUME NEW e \in temp \cup file PROVE Faithful(e, {})'
    <3>1. /\ e.tree \in Stamp /\ e.root \in Root /\ e.stamp \in Stamps
          /\ Faithful(e, {})
      BY DEF Inv, TypeOK, SnapshotInv, Snapshot
    <3> QED
      BY <3>1, FaithfulAfterChange DEF Inv
  <2> QED
    BY <2>1, <1>2 DEF SnapshotInv, files
<1>5. ScanInv'
  <2>1. ASSUME NEW s \in Scanner, NEW p, p = scan[s] PROVE Sound(p)'
    <3>1. p \in Scan /\ Sound(p)
      BY <2>1 DEF Inv, TypeOK, ScanInv
    <3>2. p.tree \in Stamp /\ p.root \in Root /\ p.stamp \in Stamps /\ p.began \in Nat
      BY <3>1, LibraryParameters DEF Scan, Stamp
    <3>3. Faithful(p, OpenIn(p))'
      <4>1. ASSUME NEW open, Faithful(p, open) PROVE Faithful(p, open)'
        BY <3>2, <4>1, FaithfulAfterChange DEF Inv
      <4>2. PICK open : open = OpenIn(p)
        OBVIOUS
      <4>3. OpenIn(p)' = open
        BY <4>2 DEF OpenIn
      <4> QED
        BY <3>1, <4>1, <4>2, <4>3 DEF Sound
    <3>4. Fresh(p)'
      BY <1>1, <3>1, <3>2 DEF Sound, Fresh
    <3>5. Staged(p)'
      BY <3>1 DEF Sound, Staged
    <3> QED
      BY <3>3, <3>4, <3>5 DEF Sound
  <2>2. ASSUME NEW s \in Scanner PROVE Sound(scan[s])'
    <3>1. PICK p : p = scan[s]
      OBVIOUS
    <3>2. scan'[s] = p
      BY <3>1, <1>2
    <3>3. Sound(p)'
      BY <2>1, <3>1
    <3> QED
      BY <3>2, <3>3
  <2> QED
    BY <2>2 DEF ScanInv
<1> QED
  BY <1>1, <1>3, <1>4, <1>5 DEF Inv
-----------------------------------------------------------------------------
(* A step of a scan moves one of them on, while the disk stays as it is.   *)
LEMMA OneScan ==
  ASSUME TypeOK, ScanInv, UNCHANGED outside, NEW s \in Scanner, NEW p \in Scan, Sound(p),
         scan' = [scan EXCEPT ![s] = p]
  PROVE  scan' \in [Scanner -> Scan] /\ ScanInv'
<1>1. scan' \in [Scanner -> Scan]
  BY DEF TypeOK
<1>2. ASSUME NEW q, Sound(q) PROVE Sound(q)'
  BY <1>2 DEF Sound, Staged, Fresh, Faithful, OpenIn, Agrees, outside
<1>3. ASSUME NEW t \in Scanner PROVE Sound(scan[t])'
  <2>1. PICK q : q = scan'[t]
    OBVIOUS
  <2>2. Sound(q)
    BY <2>1 DEF TypeOK, ScanInv
  <2>3. Sound(q)'
    BY <1>2, <2>2
  <2> QED
    BY <2>1, <2>3
<1> QED
  BY <1>1, <1>3 DEF ScanInv

(* What the parts say is not changed by a step that leaves them alone.     *)
LEMMA KeepParts ==
  ASSUME UNCHANGED outside
  PROVE  /\ StampInv /\ UNCHANGED events => StampInv'
         /\ QuickInv /\ UNCHANGED quick => QuickInv'
         /\ SnapshotInv /\ UNCHANGED files => SnapshotInv'
BY DEF outside, files, StampInv, QuickInv, SnapshotInv, Faithful, Agrees

(* A scan that begins, or a bounded failure, counts.                       *)
LEMMA CountedEvent ==
  ASSUME TypeOK, StampInv, UNCHANGED outside,
         writes + events < MaxEvents, events' = events + 1
  PROVE  StampInv' /\ events' \in 0..MaxEvents
<1>1. writes \in Nat /\ events \in Nat /\ MaxEvents \in Nat
  BY LibraryParameters DEF TypeOK, Stamp
<1> QED
  BY <1>1 DEF StampInv, outside

(* The fields of a scan have their types.                                  *)
LEMMA ScanTypes ==
  ASSUME TypeOK, NEW s \in Scanner
  PROVE  /\ scan[s] \in Scan /\ scan[s].root \in Root
         /\ scan[s].tree \in Stamp /\ scan[s].began \in Stamp
         /\ scan[s].todo \subseteq Folder /\ scan[s].reading \subseteq Folder
         /\ scan[s].stamp \in Stamps /\ scan[s].uid \in Known
<1>1. scan[s] \in Scan
  BY DEF TypeOK
<1> QED
  BY <1>1 DEF Scan

LEMMA BegunStep ==
  ASSUME Inv, NEW s \in Scanner, NEW r \in Root, Begun(s, r),
         UNCHANGED <<outside, quick, files, root, shown>>
  PROVE  Inv'
<1> DEFINE p == [NoScan EXCEPT !.stage = "list", !.root = r, !.tree = tree[r],
                               !.began = writes]
<1>1. NoScan \in Scan /\ tree[r] \in Stamp /\ writes \in Stamp
  BY NoScanSound DEF Inv, TypeOK
<1>2. /\ p \in Scan /\ p.stage = "list" /\ p.reading = {} /\ p.tree = tree[r]
      /\ p.began = writes /\ \A f \in Folder : p.stamp[f] = -1
  BY <1>1 DEF NoScan, Scan, NoStamp
<1> HIDE DEF p
<1>3. writes \in Nat /\ events \in Nat /\ MaxEvents \in Nat
  BY LibraryParameters DEF Inv, TypeOK, Stamp
<1>4. OpenIn(p) = Folder
  BY <1>2 DEF OpenIn
<1>5. Sound(p)
  BY <1>2, <1>3, <1>4 DEF Sound, Staged, Fresh, Faithful, Inv, StampInv, NoStamp
<1>6. scan' = [scan EXCEPT ![s] = p]
  BY DEF Begun, p
<1>7. scan' \in [Scanner -> Scan] /\ ScanInv'
  BY <1>2, <1>5, <1>6, OneScan DEF Inv
<1>8. events' = events + 1 /\ writes + events < MaxEvents
  BY DEF Begun
<1>9. StampInv' /\ events' \in 0..MaxEvents
  BY <1>8, CountedEvent DEF Inv
<1>10. QuickInv' /\ SnapshotInv'
  BY KeepParts DEF Inv
<1>11. TypeOK'
  BY <1>7, <1>9 DEF Inv, TypeOK, outside, files
<1> QED
  BY <1>7, <1>9, <1>10, <1>11 DEF Inv

(* A scan that moves on, leaving caches and files alone.                   *)
LEMMA ScanStep ==
  ASSUME Inv, NEW s \in Scanner, NEW p \in Scan, Sound(p),
         scan' = [scan EXCEPT ![s] = p], shown' \subseteq Folder,
         UNCHANGED <<outside, quick, files, root, events>>
  PROVE  Inv'
<1>1. scan' \in [Scanner -> Scan] /\ ScanInv'
  BY OneScan DEF Inv
<1>2. StampInv' /\ QuickInv' /\ SnapshotInv'
  BY KeepParts DEF Inv
<1>3. TypeOK'
  BY <1>1 DEF Inv, TypeOK, outside, files
<1> QED
  BY <1>1, <1>2, <1>3 DEF Inv

LEMMA ListStep ==
  ASSUME Inv, NEW s \in Scanner, List(s)
  PROVE  Inv'
<1> DEFINE present == {f \in Under(scan[s].root) : disk[f].uid # "absent"}
<1>1. /\ scan[s].stage = "list" /\ Sound(scan[s])
      /\ UNCHANGED <<outside, quick, files, root, events>>
  BY DEF List, Inv, ScanInv
<1>a. /\ scan[s] \in Scan /\ scan[s].root \in Root
      /\ scan[s].tree \in Stamp /\ scan[s].began \in Stamp
      /\ scan[s].stamp \in Stamps /\ scan[s].reading = {}
  BY <1>1, ScanTypes DEF Inv, Sound, Staged
<1>2. ASSUME NEW missed \in SUBSET present,
             scan' = [scan EXCEPT
                 ![s].stage = "folders", ![s].todo = present \ missed,
                 ![s].uid = [f \in Folder |-> IF f \in missed THEN "missed" ELSE None]],
             UNCHANGED shown
      PROVE  Inv'
  <2> DEFINE p == [scan[s] EXCEPT
                 !.stage = "folders", !.todo = present \ missed,
                 !.uid = [f \in Folder |-> IF f \in missed THEN "missed" ELSE None]]
  <2>1. present \subseteq Folder
    BY DEF Under
  <2>2. p \in Scan
    BY <2>1, <1>a DEF Scan, Known
  <2>3. /\ p.stage = "folders" /\ p.todo = present \ missed
        /\ p.reading = {} /\ p.root = scan[s].root /\ p.tree = scan[s].tree
        /\ p.began = scan[s].began /\ p.stamp = scan[s].stamp
        /\ \A f \in Folder : p.uid[f] = IF f \in missed THEN "missed" ELSE None
    BY <1>a DEF Scan
  <2> HIDE DEF p
  <2>4. \A f \in Folder \ OpenIn(p) :
          p.uid[f] = "missed" \/ (p.uid[f] = None /\ (RootOf[f] = p.root => disk[f].uid = "absent"))
    BY <2>3 DEF OpenIn, Under
  <2>5. Fresh(p) /\ Staged(p)
    BY <1>1, <2>3, <2>4 DEF Sound, Fresh, Staged, Agrees, None
  <2>6. scan[s].tree <= writes /\ \A f \in Folder : p.stamp[f] <= writes
    BY <1>1, <2>3 DEF Sound, Faithful
  <2>7. \A f \in Folder : p.stamp[f] = NoStamp /\ disk[f].stamp # NoStamp
    BY <1>1, <2>3, LibraryParameters DEF Sound, Staged, Inv, TypeOK, Stamp, NoStamp
  <2>8. Faithful(p, OpenIn(p))
    <3>1. p.tree <= writes
      BY <2>3, <2>6
    <3>2. ASSUME NEW f \in Folder \ OpenIn(p)
          PROVE  /\ p.uid[f] \in {None, "unread", "missed"}
                 /\ disk[f].stamp # p.stamp[f]
                 /\ p.uid[f] = None /\ RootOf[f] = p.root => disk[f].uid = "absent"
      BY <2>4, <2>7 DEF None
    <3> QED
      BY <2>6, <3>1, <3>2 DEF Faithful
  <2>9. scan' = [scan EXCEPT ![s] = p]
    BY <1>2 DEF p
  <2> QED
    BY <1>1, <1>2, <2>2, <2>5, <2>8, <2>9, ScanStep DEF Sound, Inv, TypeOK
<1>3. CASE scan' = [scan EXCEPT ![s] = NoScan] /\ shown' \in {{}, shown}
  BY <1>1, <1>3, NoScanSound, ScanStep DEF Inv, TypeOK
<1> QED
  BY <1>2, <1>3 DEF List

(* A finding that is so adds to what the scan says.                        *)
LEMMA SettledSound ==
  ASSUME NEW q, Sound(q), q.stage \in {"folders", "read"},
         NEW p, NEW f \in Folder, p.stage = "folders", p.reading = {},
         p.root = q.root, p.tree = q.tree, p.began = q.began,
         OpenIn(q) \ {f} \subseteq p.todo,
         \A g \in Folder \ {f} : p.stamp[g] = q.stamp[g] /\ p.uid[g] = q.uid[g],
         p.stamp[f] <= writes,
         p.uid[f] # None, Agrees(p.uid[f], f),
         p.uid[f] = "unread" \/ p.stamp[f] # NoStamp
  PROVE  Sound(p)
<1>1. \A g \in Folder \ OpenIn(p) : g = f \/ (g # f /\ g \in Folder \ OpenIn(q))
  BY DEF OpenIn
<1>2. Fresh(p)
  BY <1>1 DEF Fresh, Sound
<1>3. ASSUME NEW g \in Folder \ OpenIn(p)
      PROVE  /\ p.uid[g] \in {None, "unread", "missed"} \/ p.stamp[g] # NoStamp
             /\ disk[g].stamp = p.stamp[g] /\ disk[g].uid # "absent" => Agrees(p.uid[g], g)
             /\ RootOf[g] = p.root /\ tree[p.root] = p.tree /\ p.uid[g] = None
                => disk[g].uid = "absent"
  <2>1. CASE g = f
    BY <2>1
  <2>2. CASE g # f
    BY <1>1, <2>2 DEF Sound, Faithful
  <2> QED
    BY <2>1, <2>2
<1>4. p.tree <= writes /\ \A g \in Folder : p.stamp[g] <= writes
  BY DEF Sound, Faithful
<1>5. Staged(p)
  BY DEF Staged
<1> QED
  BY <1>2, <1>3, <1>4, <1>5 DEF Sound, Faithful

LEMMA InspectStep ==
  ASSUME Inv, NEW s \in Scanner, InspectFolder(s)
  PROVE  Inv'
<1>1. /\ scan[s].stage = "folders" /\ Sound(scan[s])
      /\ UNCHANGED <<outside, files, root, shown>>
  BY DEF InspectFolder, Inv, ScanInv
<1>2. /\ scan[s] \in Scan /\ scan[s].todo \subseteq Folder
      /\ scan[s].stamp \in Stamps /\ scan[s].uid \in Known
      /\ scan[s].reading = {}
  BY <1>1, ScanTypes DEF Inv, Sound, Staged
<1>3. PICK f \in scan[s].todo :
        LET rest    == [scan[s] EXCEPT !.todo = @ \ {f}]
            stamped == [rest EXCEPT !.stamp[f] = disk[f].stamp]
        IN  \/ /\ Cached(f)
               /\ \E e \in quick[f] :
                    scan' = [scan EXCEPT ![s] = [stamped EXCEPT !.uid[f] = e.uid]]
               /\ UNCHANGED <<quick, events>>
            \/ /\ ~Cached(f) /\ disk[f].uid # "absent"
               /\ scan' = [scan EXCEPT
                    ![s] = [stamped EXCEPT !.stage = "read", !.reading = {f}]]
               /\ UNCHANGED <<quick, events>>
            \/ /\ scan' = [scan EXCEPT ![s] = [rest EXCEPT !.uid[f] = "unread"]]
               /\ UNCHANGED <<quick, events>>
            \/ /\ disk[f].uid # "absent"
               /\ writes + events < MaxEvents /\ events' = events + 1
               /\ \E seen \in {rest, stamped} :
                    scan' = [scan EXCEPT ![s] = [seen EXCEPT !.uid[f] = "unread"]]
               /\ quick' = [quick EXCEPT ![f] = {}]
  BY DEF InspectFolder
<1> DEFINE rest    == [scan[s] EXCEPT !.todo = @ \ {f}]
           stamped == [rest EXCEPT !.stamp[f] = disk[f].stamp]
<1>4. f \in Folder /\ disk[f].stamp \in Stamp /\ shown \subseteq Folder
  BY <1>2 DEF Inv, TypeOK
<1>5. disk[f].stamp # NoStamp /\ disk[f].stamp <= writes
  BY <1>4, LibraryParameters DEF Stamp, NoStamp, Inv, StampInv
<1>6. rest \in Scan /\ stamped \in Scan
  BY <1>2, <1>4 DEF Scan, Stamps
<1>7. /\ stamped.stage = "folders" /\ stamped.reading = {}
      /\ stamped.todo = scan[s].todo \ {f}
      /\ stamped.root = scan[s].root /\ stamped.tree = scan[s].tree
      /\ stamped.began = scan[s].began /\ stamped.uid = scan[s].uid
      /\ stamped.stamp[f] = disk[f].stamp
      /\ \A g \in Folder \ {f} : stamped.stamp[g] = scan[s].stamp[g]
  BY <1>1, <1>2, <1>4 DEF Scan, Stamps
<1>8. /\ rest.stage = "folders" /\ rest.reading = {} /\ rest.todo = scan[s].todo \ {f}
      /\ rest.root = scan[s].root /\ rest.tree = scan[s].tree
      /\ rest.began = scan[s].began /\ rest.uid = scan[s].uid
      /\ rest.stamp = scan[s].stamp
  BY <1>1, <1>2 DEF Scan
<1> HIDE DEF rest, stamped
<1>9. ASSUME Cached(f), NEW e \in quick[f], UNCHANGED <<quick, events>>,
             scan' = [scan EXCEPT ![s] = [stamped EXCEPT !.uid[f] = e.uid]]
      PROVE  Inv'
  <2> DEFINE p == [stamped EXCEPT !.uid[f] = e.uid]
  <2>1. e.uid \in Found /\ e.stamp = disk[f].stamp /\ disk[f].uid # "absent"
    BY <1>4, <1>9 DEF Cached, Inv, QuickInv, TypeOK
  <2>2. e.uid # None /\ Agrees(e.uid, f)
    BY <1>4, <2>1, LibraryParameters DEF Found, None, Inv, QuickInv
  <2>3. p \in Scan
    BY <1>6, <2>1, <1>4 DEF Scan, Known
  <2>4. /\ p.stage = "folders" /\ p.reading = {} /\ p.todo = scan[s].todo \ {f}
        /\ p.root = scan[s].root /\ p.tree = scan[s].tree /\ p.began = scan[s].began
        /\ p.stamp = stamped.stamp
        /\ p.uid[f] = e.uid /\ \A g \in Folder \ {f} : p.uid[g] = scan[s].uid[g]
    BY <1>2, <1>4, <1>6, <1>7 DEF Scan, Known
  <2> HIDE DEF p
  <2>5. OpenIn(scan[s]) \ {f} \subseteq p.todo
    BY <1>1, <1>2, <2>4 DEF OpenIn
  <2>6. Sound(p)
    BY <1>1, <1>4, <1>5, <1>7, <2>2, <2>4, <2>5, SettledSound
  <2>7. scan' = [scan EXCEPT ![s] = p]
    BY <1>9 DEF p
  <2> QED
    BY <1>1, <1>4, <1>9, <2>3, <2>6, <2>7, ScanStep
<1>10. ASSUME UNCHANGED <<quick, events>>,
              scan' = [scan EXCEPT
                ![s] = [stamped EXCEPT !.stage = "read", !.reading = {f}]]
       PROVE  Inv'
  <2> DEFINE p == [stamped EXCEPT !.stage = "read", !.reading = {f}]
  <2>1. p \in Scan
    BY <1>4, <1>6 DEF Scan
  <2>2. /\ p.stage = "read" /\ p.reading = {f} /\ p.todo = scan[s].todo \ {f}
        /\ p.root = scan[s].root /\ p.tree = scan[s].tree /\ p.began = scan[s].began
        /\ p.uid = scan[s].uid /\ p.stamp = stamped.stamp
    BY <1>6, <1>7 DEF Scan
  <2> HIDE DEF p
  <2>3. OpenIn(p) = OpenIn(scan[s])
    BY <1>1, <1>2, <2>2 DEF OpenIn
  <2>4. f \in OpenIn(p)
    BY <2>2 DEF OpenIn
  <2>5. Staged(p)
    BY <1>4, <1>5, <1>7, <2>2 DEF Staged
  <2>6. Fresh(p)
    BY <1>1, <2>2, <2>3 DEF Sound, Fresh
  <2>7. p.tree <= writes /\ \A g \in Folder : p.stamp[g] <= writes
    BY <1>1, <1>5, <1>7, <2>2 DEF Sound, Faithful
  <2>8. \A g \in Folder \ OpenIn(p) : p.stamp[g] = scan[s].stamp[g]
    BY <1>7, <2>2, <2>4
  <2>9. Faithful(p, OpenIn(p))
    BY <1>1, <2>2, <2>3, <2>7, <2>8 DEF Sound, Faithful
  <2>10. scan' = [scan EXCEPT ![s] = p]
    BY <1>10 DEF p
  <2> QED
    BY <1>1, <1>4, <1>10, <2>1, <2>5, <2>6, <2>9, <2>10, ScanStep DEF Sound
<1>11. ASSUME NEW seen \in {rest, stamped}
       PROVE  /\ [seen EXCEPT !.uid[f] = "unread"] \in Scan
              /\ Sound([seen EXCEPT !.uid[f] = "unread"])
  <2> DEFINE p == [seen EXCEPT !.uid[f] = "unread"]
  <2>1. p \in Scan
    BY <1>4, <1>6 DEF Scan, Known, Found
  <2>2. /\ p.stage = "folders" /\ p.reading = {} /\ p.todo = scan[s].todo \ {f}
        /\ p.root = scan[s].root /\ p.tree = scan[s].tree /\ p.began = scan[s].began
        /\ p.stamp = seen.stamp
        /\ p.uid[f] = "unread" /\ \A g \in Folder \ {f} : p.uid[g] = scan[s].uid[g]
    BY <1>2, <1>4, <1>6, <1>7, <1>8 DEF Scan, Known
  <2> HIDE DEF p
  <2>3. OpenIn(scan[s]) \ {f} \subseteq p.todo
    BY <1>1, <1>2, <2>2 DEF OpenIn
  <2>4. p.stamp[f] <= writes /\ \A g \in Folder \ {f} : p.stamp[g] = scan[s].stamp[g]
    BY <1>1, <1>4, <1>5, <1>7, <1>8, <2>2 DEF Sound, Faithful
  <2>5. Sound(p)
    BY <1>1, <1>4, <2>2, <2>3, <2>4, SettledSound DEF Agrees, None
  <2> QED
    BY <2>1, <2>5 DEF p
<1>12. ASSUME UNCHANGED <<quick, events>>,
              scan' = [scan EXCEPT ![s] = [rest EXCEPT !.uid[f] = "unread"]]
       PROVE  Inv'
  BY <1>1, <1>4, <1>11, <1>12, ScanStep
<1>13. ASSUME NEW seen \in {rest, stamped},
              scan' = [scan EXCEPT ![s] = [seen EXCEPT !.uid[f] = "unread"]],
              writes + events < MaxEvents, events' = events + 1,
              quick' = [quick EXCEPT ![f] = {}]
       PROVE  Inv'
  <2>1. scan' \in [Scanner -> Scan] /\ ScanInv'
    BY <1>1, <1>11, <1>13, OneScan DEF Inv
  <2>2. StampInv' /\ events' \in 0..MaxEvents
    BY <1>1, <1>13, CountedEvent DEF Inv
  <2>3. /\ quick' \in [Folder -> SUBSET [stamp : Stamp, uid : Found]]
        /\ \A g \in Folder : quick'[g] \subseteq quick[g]
    BY <1>4, <1>13 DEF Inv, TypeOK
  <2>4. QuickInv'
    BY <1>1, <2>3 DEF Inv, QuickInv, Agrees, outside
  <2>5. SnapshotInv'
    BY <1>1, KeepParts DEF Inv
  <2>6. TypeOK'
    BY <1>1, <2>1, <2>2, <2>3 DEF Inv, TypeOK, outside, files
  <2> QED
    BY <2>1, <2>2, <2>4, <2>5, <2>6 DEF Inv
<1> QED
  BY <1>3, <1>9, <1>10, <1>12, <1>13 DEF rest, stamped

(* What is read now and remembered under a stamp is so under that stamp.   *)
LEMMA ReadIsSo ==
  ASSUME Inv, NEW f \in Folder, NEW found \in Reads(f), NEW t \in Stamp, t <= writes,
         UNCHANGED outside,
         quick' = [quick EXCEPT ![f] = {[stamp |-> t, uid |-> found]}]
  PROVE  /\ found \in Found /\ found # None /\ Agrees(found, f)
         /\ quick' \in [Folder -> SUBSET [stamp : Stamp, uid : Found]]
         /\ QuickInv'
<1>1. disk[f].uid \in Uid \cup {"invalid", "absent"}
  BY DEF Inv, TypeOK, Content
<1>2. found \in Found /\ found # None /\ Agrees(found, f)
  BY <1>1, LibraryParameters DEF Reads, Found, None, Agrees
<1>3. quick' \in [Folder -> SUBSET [stamp : Stamp, uid : Found]]
  BY <1>2 DEF Inv, TypeOK
<1>4. /\ quick'[f] = {[stamp |-> t, uid |-> found]}
      /\ \A g \in Folder \ {f} : quick'[g] = quick[g]
  BY DEF Inv, TypeOK
<1>5. ASSUME NEW g \in Folder
      PROVE  /\ \A d, e \in quick'[g] : d = e
             /\ \A e \in quick'[g] :
                  /\ e.stamp <= writes
                  /\ disk[g].uid # "absent" /\ e.stamp = disk[g].stamp => Agrees(e.uid, g)
  <2>1. CASE g = f
    BY <1>2, <1>4, <2>1
  <2>2. CASE g # f
    BY <1>4, <2>2 DEF Inv, QuickInv
  <2> QED
    BY <2>1, <2>2
<1>6. QuickInv'
  BY <1>5 DEF QuickInv, Agrees, outside
<1> QED
  BY <1>2, <1>3, <1>6

LEMMA ReadStep ==
  ASSUME Inv, NEW s \in Scanner, Read(s)
  PROVE  Inv'
<1>1. /\ scan[s].stage = "read" /\ Sound(scan[s])
      /\ UNCHANGED <<outside, files, root, shown, events>>
  BY DEF Read, Inv, ScanInv
<1>2. /\ scan[s] \in Scan /\ scan[s].todo \subseteq Folder
      /\ scan[s].stamp \in Stamps /\ scan[s].uid \in Known
  BY ScanTypes DEF Inv
<1>3. PICK f \in Folder : scan[s].reading = {f} /\ scan[s].stamp[f] # NoStamp
  BY <1>1 DEF Sound, Staged
<1>4. PICK found \in Reads(f) :
        /\ quick' = [quick EXCEPT ![f] = {[stamp |-> scan[s].stamp[f], uid |-> found]}]
        /\ scan' = [scan EXCEPT ![s].stage = "folders", ![s].reading = {},
                                ![s].uid[f] = found]
  BY <1>3 DEF Read
<1>5. scan[s].stamp[f] \in Stamp /\ scan[s].stamp[f] <= writes
  BY <1>1, <1>2, <1>3 DEF Stamps, Sound, Faithful
<1>6. /\ found \in Found /\ found # None /\ Agrees(found, f)
      /\ quick' \in [Folder -> SUBSET [stamp : Stamp, uid : Found]]
      /\ QuickInv'
  BY <1>1, <1>4, <1>5, ReadIsSo
<1> DEFINE p == [scan[s] EXCEPT !.stage = "folders", !.reading = {}, !.uid[f] = found]
<1>7. p \in Scan
  BY <1>2, <1>6 DEF Scan, Known
<1>8. /\ p.stage = "folders" /\ p.reading = {} /\ p.todo = scan[s].todo
      /\ p.root = scan[s].root /\ p.tree = scan[s].tree /\ p.began = scan[s].began
      /\ p.stamp = scan[s].stamp
      /\ p.uid[f] = found /\ \A g \in Folder \ {f} : p.uid[g] = scan[s].uid[g]
  BY <1>2 DEF Scan, Known
<1>9. scan' = [scan EXCEPT ![s] = p]
  BY <1>2, <1>4 DEF Scan, Known
<1> HIDE DEF p
<1>10. OpenIn(scan[s]) \ {f} \subseteq p.todo
  BY <1>1, <1>3, <1>8 DEF OpenIn
<1>11. Sound(p)
  BY <1>1, <1>3, <1>5, <1>6, <1>8, <1>10, SettledSound
<1>12. scan' \in [Scanner -> Scan] /\ ScanInv'
  BY <1>1, <1>7, <1>9, <1>11, OneScan DEF Inv
<1>13. StampInv' /\ SnapshotInv'
  BY <1>1, KeepParts DEF Inv
<1>14. TypeOK'
  BY <1>1, <1>6, <1>12 DEF Inv, TypeOK, outside, files
<1> QED
  BY <1>6, <1>12, <1>13, <1>14 DEF Inv

LEMMA SelectStep ==
  ASSUME Inv, NEW f \in Folder, Select(f)
  PROVE  Inv'
<1>1. UNCHANGED <<outside, files, root, shown, scan, events>>
  BY DEF Select
<1>2. PICK found \in Reads(f) :
        quick' = [quick EXCEPT ![f] = {[stamp |-> disk[f].stamp, uid |-> found]}]
  BY DEF Select
<1>3. disk[f].stamp \in Stamp /\ disk[f].stamp <= writes
  BY DEF Inv, TypeOK, StampInv
<1>4. /\ quick' \in [Folder -> SUBSET [stamp : Stamp, uid : Found]]
      /\ QuickInv'
  BY <1>1, <1>2, <1>3, ReadIsSo
<1>5. StampInv' /\ SnapshotInv' /\ ScanInv'
  <2>1. StampInv' /\ SnapshotInv'
    BY <1>1, KeepParts DEF Inv
  <2>2. ScanInv'
    BY <1>1 DEF Inv, ScanInv, Sound, Staged, Fresh, Faithful, OpenIn, Agrees, outside
  <2> QED
    BY <2>1, <2>2
<1>6. TypeOK'
  BY <1>1, <1>4 DEF Inv, TypeOK, outside, files
<1> QED
  BY <1>4, <1>5, <1>6 DEF Inv
-----------------------------------------------------------------------------
(* The end of a scan.                                                      *)
LEMMA DoneScan ==
  ASSUME Inv, NEW s \in Scanner, scan[s].stage \in {"folders", "replace"},
         scan[s].todo = {}, Done(s)
  PROVE  /\ shown' \subseteq Folder
         /\ \E p \in Scan : Sound(p) /\ scan' = [scan EXCEPT ![s] = p]
<1>1. Sound(scan[s]) /\ scan[s] \in Scan
  BY ScanTypes DEF Inv, ScanInv
<1>2. CASE shown' = Scanned(scan[s].uid) /\ scan' = [scan EXCEPT ![s] = NoScan]
  BY <1>2, NoScanSound DEF Inv, Scanned
<1>3. CASE shown' = shown /\ scan' = [scan EXCEPT ![s].stage = "load"]
  <2> DEFINE p == [scan[s] EXCEPT !.stage = "load"]
  <2>1. p \in Scan /\ scan' = [scan EXCEPT ![s] = p]
    BY <1>1, <1>3 DEF Scan
  <2>2. /\ p.stage = "load" /\ p.reading = scan[s].reading /\ p.todo = {}
        /\ p.root = scan[s].root /\ p.tree = scan[s].tree /\ p.began = scan[s].began
        /\ p.stamp = scan[s].stamp /\ p.uid = scan[s].uid
    BY <1>1 DEF Scan
  <2> HIDE DEF p
  <2>3. p.reading = {} /\ OpenIn(p) = OpenIn(scan[s])
    BY <1>1, <2>2 DEF Sound, Staged, OpenIn
  <2>4. Sound(p)
    BY <1>1, <2>2, <2>3 DEF Sound, Staged, Fresh, Faithful
  <2> QED
    BY <1>3, <2>1, <2>4 DEF Inv, TypeOK
<1> QED
  BY <1>2, <1>3 DEF Done

LEMMA WriteStep ==
  ASSUME Inv, NEW s \in Scanner, Write(s)
  PROVE  Inv'
<1>1. /\ scan[s].stage = "folders" /\ scan[s].todo = {} /\ Sound(scan[s])
      /\ UNCHANGED <<outside, quick, file, root, events>>
  BY DEF Write, Inv, ScanInv
<1>2. /\ scan[s] \in Scan /\ scan[s].root \in Root /\ scan[s].tree \in Stamp
      /\ scan[s].stamp \in Stamps /\ scan[s].uid \in Known
  BY ScanTypes DEF Inv
<1>3. scan[s].reading = {} /\ OpenIn(scan[s]) = {}
  BY <1>1 DEF Sound, Staged, OpenIn
<1>4. CASE UNCHANGED temp /\ Done(s)
  BY <1>1, <1>4, DoneScan, ScanStep DEF files
<1>5. ASSUME temp' = {Payload(s)}, scan' = [scan EXCEPT ![s].stage = "replace"],
             UNCHANGED shown
      PROVE  Inv'
  <2> DEFINE p == [scan[s] EXCEPT !.stage = "replace"]
             e == Payload(s)
  <2>1. p \in Scan /\ scan' = [scan EXCEPT ![s] = p]
    BY <1>2, <1>5 DEF Scan
  <2>2. /\ p.stage = "replace" /\ p.reading = {} /\ p.todo = {}
        /\ p.root = scan[s].root /\ p.tree = scan[s].tree /\ p.began = scan[s].began
        /\ p.stamp = scan[s].stamp /\ p.uid = scan[s].uid
    BY <1>1, <1>2, <1>3 DEF Scan
  <2>3. /\ e \in Snapshot /\ e.root = scan[s].root /\ e.tree = scan[s].tree
        /\ e.stamp = scan[s].stamp /\ e.uid = scan[s].uid
    BY <1>2 DEF Payload, Snapshot
  <2> HIDE DEF p, e
  <2>4. OpenIn(p) = {}
    BY <2>2 DEF OpenIn
  <2>5. Sound(p)
    BY <1>1, <1>3, <2>2, <2>4 DEF Sound, Staged, Fresh, Faithful
  <2>6. Faithful(e, {})
    BY <1>1, <1>3, <2>3 DEF Sound, Faithful
  <2>7. scan' \in [Scanner -> Scan] /\ ScanInv'
    BY <1>1, <2>1, <2>5, OneScan DEF Inv
  <2>8. temp' = {e}
    BY <1>5 DEF e
  <2>9. SnapshotInv'
    BY <1>1, <2>6, <2>8 DEF Inv, SnapshotInv, Faithful, Agrees, outside
  <2>10. StampInv' /\ QuickInv'
    BY <1>1, KeepParts DEF Inv
  <2>11. TypeOK'
    BY <1>1, <1>5, <2>3, <2>7, <2>8 DEF Inv, TypeOK, outside, files
  <2> QED
    BY <2>7, <2>9, <2>10, <2>11 DEF Inv
<1> QED
  BY <1>4, <1>5 DEF Write

LEMMA ReplaceStep ==
  ASSUME Inv, NEW s \in Scanner, Replace(s)
  PROVE  Inv'
<1>1. /\ scan[s].stage = "replace" /\ scan[s].todo = {} /\ Done(s)
      /\ UNCHANGED <<outside, quick, root, events>>
  BY DEF Replace, Inv, ScanInv, Sound, Staged
<1>2. /\ shown' \subseteq Folder
      /\ \E p \in Scan : Sound(p) /\ scan' = [scan EXCEPT ![s] = p]
  BY <1>1, DoneScan
<1>3. CASE UNCHANGED files
  BY <1>1, <1>2, <1>3, ScanStep
<1>4. CASE file' = temp /\ temp # {} /\ temp' = {}
  <2>1. scan' \in [Scanner -> Scan] /\ ScanInv'
    BY <1>1, <1>2, OneScan DEF Inv
  <2>2. SnapshotInv'
    BY <1>1, <1>4 DEF Inv, SnapshotInv, Faithful, Agrees, outside
  <2>3. StampInv' /\ QuickInv'
    BY <1>1, KeepParts DEF Inv
  <2>4. TypeOK'
    BY <1>1, <1>2, <1>4, <2>1 DEF Inv, TypeOK, outside, files
  <2> QED
    BY <2>1, <2>2, <2>3, <2>4 DEF Inv
<1> QED
  BY <1>3, <1>4 DEF Replace

LEMMA LoadSourceStep ==
  ASSUME Inv, LoadSource
  PROVE  Inv'
<1>1. NoScan \in Scan /\ Sound(NoScan) /\ "worker" \in Scanner
  BY NoScanSound DEF Inv, Scanner
<1> QED
  BY <1>1, ScanStep DEF LoadSource, Inv, TypeOK

LEMMA RestartStep ==
  ASSUME Inv, Restart
  PROVE  Inv'
<1>1. /\ quick' = [f \in Folder |-> {}] /\ scan' = [s \in Scanner |-> NoScan]
      /\ UNCHANGED <<outside, files, root, events>>
  BY DEF Restart
<1>2. shown' \subseteq Folder
  BY DEF Restart, Scanned
<1>3. StampInv' /\ SnapshotInv'
  BY <1>1, KeepParts DEF Inv
<1>4. QuickInv'
  BY <1>1 DEF QuickInv
<1>5. NoScan \in Scan /\ Sound(NoScan)
  BY NoScanSound DEF Inv
<1>6. Sound(NoScan)'
  <2>1. ASSUME NEW q, Sound(q) PROVE Sound(q)'
    BY <1>1, <2>1 DEF Sound, Staged, Fresh, Faithful, OpenIn, Agrees, outside
  <2>2. PICK q : q = NoScan
    OBVIOUS
  <2>3. Sound(q)'
    BY <1>5, <2>1, <2>2
  <2> QED
    BY <2>2, <2>3
<1>7. ScanInv'
  BY <1>1, <1>6 DEF ScanInv
<1>8. TypeOK'
  BY <1>1, <1>2, <1>5 DEF Inv, TypeOK, outside, files
<1> QED
  BY <1>3, <1>4, <1>7, <1>8 DEF Inv

LEMMA ChooseStep ==
  ASSUME Inv, ChooseLibrary
  PROVE  Inv'
<1>1. /\ root' \in Root /\ shown' = {} /\ file' \subseteq file
      /\ UNCHANGED <<outside, quick, temp, scan>>
      /\ \/ UNCHANGED events
         \/ writes + events < MaxEvents /\ events' = events + 1
  BY DEF ChooseLibrary
<1>2. StampInv' /\ events' \in 0..MaxEvents /\ QuickInv'
  BY <1>1, KeepParts, CountedEvent DEF Inv, TypeOK
<1>3. SnapshotInv'
  BY <1>1 DEF Inv, SnapshotInv, Faithful, Agrees, outside
<1>4. ScanInv'
  BY <1>1 DEF Inv, ScanInv, Sound, Staged, Fresh, Faithful, OpenIn, Agrees, outside
<1>5. TypeOK'
  BY <1>1, <1>2 DEF Inv, TypeOK, outside
<1> QED
  BY <1>2, <1>3, <1>4, <1>5 DEF Inv
-----------------------------------------------------------------------------
(* The invariant holds in every run of the library.                        *)
THEOREM LibraryInvariant == Spec => []Inv
<1>1. ASSUME Inv, [Next]_vars PROVE Inv'
  <2>1. CASE \E f \in Folder : ChangeFolder(f)
    BY <1>1, <2>1, ChangeStep
  <2>2. CASE \E f \in Folder : Select(f)
    BY <1>1, <2>2, SelectStep
  <2>3. CASE \E s \in Scanner : List(s)
    BY <1>1, <2>3, ListStep
  <2>4. CASE \E s \in Scanner : InspectFolder(s)
    BY <1>1, <2>4, InspectStep
  <2>5. CASE \E s \in Scanner : Read(s)
    BY <1>1, <2>5, ReadStep
  <2>6. CASE \E s \in Scanner : Write(s)
    BY <1>1, <2>6, WriteStep
  <2>7. CASE \E s \in Scanner : Replace(s)
    BY <1>1, <2>7, ReplaceStep
  <2>8. CASE LoadLibrary
    BY <1>1, <2>8, BegunStep DEF LoadLibrary, Scanner, Inv, TypeOK
  <2>9. CASE FindKeys
    BY <1>1, <2>9, BegunStep DEF FindKeys, Scanner
  <2>10. CASE LoadSource
    BY <1>1, <2>10, LoadSourceStep
  <2>11. CASE Restart
    BY <1>1, <2>11, RestartStep
  <2>12. CASE ChooseLibrary
    BY <1>1, <2>12, ChooseStep
  <2>13. CASE UNCHANGED vars
    BY <1>1, <2>13 DEF vars, outside, files, Inv, TypeOK, StampInv, QuickInv, SnapshotInv,
       ScanInv, Sound, Staged, Fresh, Faithful, OpenIn, Agrees
  <2> QED
    BY <1>1, <2>1, <2>2, <2>3, <2>4, <2>5, <2>6, <2>7, <2>8, <2>9, <2>10, <2>11, <2>12,
       <2>13 DEF Next
<1> QED
  BY <1>1, InitInv, PTL DEF Spec

(* Every variable of the library keeps its type.                           *)
THEOREM LibraryTypes == Spec => []TypeOK
<1>1. Inv => TypeOK
  BY DEF Inv
<1> QED
  BY <1>1, LibraryInvariant, PTL

(* A snapshot that passes for current, and an entry of the process cache   *)
(* whose stamps still fit, name each folder with the UID it holds, or not  *)
(* at all because it could not be read.                                    *)
THEOREM StaleCachesRefused == Spec => []StaleIsRefused
<1>1. Inv => StaleIsRefused
  <2> SUFFICES ASSUME Inv PROVE StaleIsRefused
    OBVIOUS
  <2>1. ASSUME NEW r \in Root, NEW e \in Current(r), NEW f \in Under(r)
        PROVE  IF e.uid[f] = None THEN disk[f].uid = "absent" ELSE Agrees(e.uid[f], f)
    <3>1. /\ e \in file /\ e.root = r /\ e.tree = tree[r]
          /\ e.stamp[f] # NoStamp => disk[f].uid # "absent" /\ disk[f].stamp = e.stamp[f]
          /\ f \in Folder /\ RootOf[f] = r
      BY DEF Current, Under
    <3>2. Faithful(e, {})
      BY <3>1 DEF Inv, SnapshotInv
    <3>3. CASE e.uid[f] = None
      BY <3>1, <3>2, <3>3 DEF Faithful
    <3>4. CASE e.uid[f] # None
      BY <3>1, <3>2, <3>4 DEF Faithful, Agrees
    <3> QED
      BY <3>3, <3>4
  <2> QED
    BY <2>1 DEF StaleIsRefused, Inv, QuickInv
<1> QED
  BY <1>1, LibraryInvariant, PTL

(* While the disk is as it was when the worker's scan began, the folder    *)
(* whose keys a clone takes is the only one that holds the UID of the tag, *)
(* but for folders that could not be read.                                 *)
THEOREM OnlyKeySource == Spec => []KeySourceIsTheOnlyOne
<1>1. Inv => KeySourceIsTheOnlyOne
  <2> DEFINE s == scan["worker"]
  <2> SUFFICES ASSUME Inv, s.stage = "load", s.began = writes,
                      NEW uid \in Uid, NEW f \in Source(uid)
               PROVE  /\ disk[f].uid = uid
                      /\ \A g \in Under(s.root) \ {f} :
                           disk[g].uid = uid => s.uid[g] \in {"unread", "missed"}
    BY DEF KeySourceIsTheOnlyOne
  <2>1. "worker" \in Scanner /\ Sound(s)
    BY DEF Inv, ScanInv, Scanner
  <2>2. OpenIn(s) = {}
    BY <2>1 DEF Sound, Staged, OpenIn
  <2>3. \A g \in Folder : IF s.uid[g] = None
                          THEN RootOf[g] = s.root => disk[g].uid = "absent"
                          ELSE Agrees(s.uid[g], g)
    BY <2>1, <2>2 DEF Sound, Fresh
  <2>4. uid \notin {"invalid", "absent", "unread", "missed", None}
    BY LibraryParameters
  <2>5. f \in Folder /\ Matches(uid) = {f} /\ s.uid[f] = uid
    BY DEF Source, Matches
  <2>6. disk[f].uid = uid
    BY <2>3, <2>4, <2>5 DEF Agrees
  <2>7. ASSUME NEW g \in Under(s.root) \ {f}, disk[g].uid = uid
        PROVE  s.uid[g] \in {"unread", "missed"}
    <3>1. g \in Folder /\ RootOf[g] = s.root /\ s.uid[g] # uid
      BY <2>5, <2>7 DEF Under, Matches
    <3> QED
      BY <2>3, <2>4, <2>7, <3>1 DEF Agrees
  <2> QED
    BY <2>6, <2>7
<1> QED
  BY <1>1, LibraryInvariant, PTL
=============================================================================
