-------------------------- MODULE MaterialLibrary --------------------------
(***************************************************************************)
(* The material library: folders of dumps and keys on disk, the scan that  *)
(* finds out which UID each holds, and its two caches: the inspected       *)
(* folders, kept by the process, and the snapshot, kept in a file          *)
(* (material_library.py, infrastructure/material_library_cache.py,         *)
(* ui/material_library.py).  The window scans to show the tree, and so     *)
(* does a clone's worker thread to find the keys of a programmed tag       *)
(* (workflows/common.py); meanwhile other programs change the files.       *)
(*                                                                         *)
(* A folder stands for its two files.  Whoever changes them leaves a new   *)
(* size or time behind: the stamp of a folder, or of the library when a    *)
(* folder comes or goes.  A read may fail, and the caches keep that too.   *)
(***************************************************************************)
EXTENDS Integers

CONSTANTS Folder, Root,
          RootOf,       \* folder -> the library it is in
          Uid,
          MaxEvents     \* bound: changes, scans and some failures together

Content == Uid \cup {"invalid", "absent"}
Stamp   == 0..MaxEvents
Found   == Uid \cup {"invalid", "unread"}     \* what an inspection finds
None    == "none"
NoStamp == -1
Scanner == {"window", "worker"}
Under(r) == {f \in Folder : RootOf[f] = r}

ASSUME LibraryParameters ==
  /\ RootOf \in [Folder -> Root] /\ MaxEvents \in Nat
  /\ Uid \cap {"invalid", "absent", "unread", "missed", None} = {}

VARIABLES disk,     \* folder -> what it holds, and its stamp
          tree,     \* library -> the stamp of its directories
          writes,   \* the last stamp given
          quick,    \* _QUICK_CACHE: folder -> the stamps and what was found
          temp,     \* material_library_cache.tmp, a set of at most one snapshot
          file,     \* material_library_cache.json, likewise
          root,     \* material_library_var
          shown,    \* library_nodes: the folders in the window's tree
          scan,     \* scanner -> its scan
          events    \* scans begun, and failures of the kinds it bounds

outside == <<disk, tree, writes>>
files   == <<temp, file>>
vars    == <<outside, quick, files, root, shown, scan, events>>

Known == [Folder -> Found \cup {"missed", None}]
Stamps == [Folder -> Stamp \cup {NoStamp}]
Snapshot == [root : Root, tree : Stamp, stamp : Stamps, uid : Known]
Scan == [stage : {"idle", "list", "folders", "read", "replace", "load"},
         root : Root, tree : Stamp, todo : SUBSET Folder, reading : SUBSET Folder,
         stamp : Stamps, uid : Known, began : Stamp]

Nowhere == [f \in Folder |-> None]
NoScan == [stage |-> "idle", root |-> CHOOSE r \in Root : TRUE, tree |-> 0, todo |-> {},
           reading |-> {}, stamp |-> [f \in Folder |-> NoStamp], uid |-> Nowhere, began |-> 0]

Init ==
  /\ disk \in [Folder -> [uid : Content, stamp : {0}]]
  /\ tree = [r \in Root |-> 0] /\ writes = 0
  /\ quick = [f \in Folder |-> {}] /\ temp = {} /\ file = {}
  /\ root \in Root /\ shown = {}
  /\ scan = [s \in Scanner |-> NoScan] /\ events = 0
-----------------------------------------------------------------------------
(* Another program changes a folder, makes one or deletes one.             *)
ChangeFolder(f) ==
  /\ writes + events < MaxEvents
  /\ writes' = writes + 1
  /\ \E uid \in Content :
       /\ disk' = [disk EXCEPT ![f] = [uid |-> uid, stamp |-> writes']]
       /\ tree' = IF (uid = "absent") = (disk[f].uid = "absent") THEN tree
                  ELSE [tree EXCEPT ![RootOf[f]] = writes']
  /\ UNCHANGED <<quick, files, root, shown, scan, events>>
-----------------------------------------------------------------------------
(* A scan.  The window's holds the Tk thread until it has ended.  The time *)
(* of a directory is taken before its entries are listed.                  *)
WindowFree == scan["window"].stage = "idle"
Begun(s, r) ==
  /\ writes + events < MaxEvents /\ events' = events + 1
  /\ scan' = [scan EXCEPT ![s] = [NoScan EXCEPT !.stage = "list", !.root = r,
                                                !.tree = tree[r], !.began = writes]]

(* _load_material_library.                                                 *)
LoadLibrary ==
  /\ WindowFree
  /\ Begun("window", root)
  /\ UNCHANGED <<outside, quick, files, root, shown>>

(* _find_current_mfc_source, when the selected source is not the one; the  *)
(* library is that of the start of the operation.                          *)
FindKeys ==
  /\ scan["worker"].stage = "idle"
  /\ \E r \in Root : Begun("worker", r)
  /\ UNCHANGED <<outside, quick, files, root, shown>>

(* _child_directories; what lies below a directory that cannot be listed   *)
(* is missed without a word, except for the library itself.                *)
List(s) ==
  /\ scan[s].stage = "list"
  /\ LET present == {f \in Under(scan[s].root) : disk[f].uid # "absent"}
     IN  \/ \E missed \in SUBSET present :
              /\ scan' = [scan EXCEPT
                   ![s].stage = "folders", ![s].todo = present \ missed,
                   ![s].uid = [f \in Folder |-> IF f \in missed THEN "missed" ELSE None]]
              /\ UNCHANGED shown
         \/ /\ scan' = [scan EXCEPT ![s] = NoScan]      \* ValueError
            /\ shown' = IF s = "window" THEN {} ELSE shown
  /\ UNCHANGED <<outside, quick, files, root, events>>

(* _candidate_files: the stamps are taken before anything is read, and an  *)
(* entry with the same stamps is as good as the files.  When the listing   *)
(* fails nothing is cached.  An entry that cannot be looked at drops its   *)
(* file: without a pair the folder has no UID, and what replaces its cache *)
(* entry has stamps that no scan which sees both files will meet.          *)
Cached(f) == disk[f].uid # "absent" /\ \E e \in quick[f] : e.stamp = disk[f].stamp
InspectFolder(s) ==
  /\ scan[s].stage = "folders"
  /\ \E f \in scan[s].todo :
       LET rest    == [scan[s] EXCEPT !.todo = @ \ {f}]
           stamped == [rest EXCEPT !.stamp[f] = disk[f].stamp]
       IN  \/ /\ Cached(f)
              /\ \E e \in quick[f] :
                   scan' = [scan EXCEPT ![s] = [stamped EXCEPT !.uid[f] = e.uid]]
              /\ UNCHANGED <<quick, events>>
           \/ /\ ~Cached(f) /\ disk[f].uid # "absent"
              /\ scan' = [scan EXCEPT
                   ![s] = [stamped EXCEPT !.stage = "read", !.reading = {f}]]
              /\ UNCHANGED <<quick, events>>
           \/ /\ scan' = [scan EXCEPT ![s] = [rest EXCEPT !.uid[f] = "unread"]]
              /\ UNCHANGED <<quick, events>>
           \/ /\ disk[f].uid # "absent"
              /\ writes + events < MaxEvents /\ events' = events + 1
              /\ \E seen \in {rest, stamped} :
                   scan' = [scan EXCEPT ![s] = [seen EXCEPT !.uid[f] = "unread"]]
              /\ quick' = [quick EXCEPT ![f] = {}]
  /\ UNCHANGED <<outside, files, root, shown>>

(* _quick_inspect reads both files; what it finds goes to the cache under  *)
(* the stamps taken before.                                                *)
Reads(f) == {"unread"} \cup ({disk[f].uid} \ {"absent"})
Read(s) ==
  /\ scan[s].stage = "read"
  /\ \E f \in scan[s].reading : \E found \in Reads(f) :
       /\ quick' = [quick EXCEPT ![f] = {[stamp |-> scan[s].stamp[f], uid |-> found]}]
       /\ scan' = [scan EXCEPT ![s].stage = "folders", ![s].reading = {},
                               ![s].uid[f] = found]
  /\ UNCHANGED <<outside, files, root, shown, events>>

(* The end of scan_material_library: the snapshot is written under a name  *)
(* both scanners share, and renamed; an OSError is ignored.                *)
Payload(s) == [root |-> scan[s].root, tree |-> scan[s].tree,
               stamp |-> scan[s].stamp, uid |-> scan[s].uid]
Scanned(uid) == {f \in Folder : uid[f] \notin {None, "missed"}}
Done(s) ==
  IF s = "window" THEN shown' = Scanned(scan[s].uid) /\ scan' = [scan EXCEPT ![s] = NoScan]
  ELSE UNCHANGED shown /\ scan' = [scan EXCEPT ![s].stage = "load"]
Write(s) ==
  /\ scan[s].stage = "folders" /\ scan[s].todo = {}
  /\ \/ /\ temp' = {Payload(s)}
        /\ scan' = [scan EXCEPT ![s].stage = "replace"] /\ UNCHANGED shown
     \/ UNCHANGED temp /\ Done(s)
  /\ UNCHANGED <<outside, quick, file, root, events>>

(* Whatever has that name by then is renamed.                              *)
Replace(s) ==
  /\ scan[s].stage = "replace"
  /\ (file' = temp /\ temp # {} /\ temp' = {}) \/ UNCHANGED files
  /\ Done(s)
  /\ UNCHANGED <<outside, quick, root, events>>

(* uid_index and load_mfc_source: the folder found is read anew and must   *)
(* pass the checks then; none or more than one ends the clone.             *)
Matches(uid) == {f \in Folder : scan["worker"].uid[f] = uid}
SourceAny(uid) ==             \* mutant: the first of several
  {f \in Matches(uid) : disk[f].uid \in Uid}
Source(uid) == {f \in Folder : Matches(uid) = {f} /\ disk[f].uid \in Uid}
LoadSource ==
  /\ scan["worker"].stage = "load"
  /\ scan' = [scan EXCEPT !["worker"] = NoScan]
  /\ UNCHANGED <<outside, quick, files, root, shown, events>>
-----------------------------------------------------------------------------
(* load_cached_material_library, with _cache_is_current: a folder that is  *)
(* gone has no stamps any more.                                            *)
CurrentByFiles(r) ==          \* mutant: the directories are not compared
  {e \in file : /\ e.root = r
                /\ \A f \in Folder : e.stamp[f] # NoStamp =>
                     disk[f].uid # "absent" /\ disk[f].stamp = e.stamp[f]}
Current(r) ==
  {e \in file : /\ e.root = r /\ e.tree = tree[r]
                /\ \A f \in Folder : e.stamp[f] # NoStamp =>
                     disk[f].uid # "absent" /\ disk[f].stamp = e.stamp[f]}

(* The process ends, whatever runs, and the next one starts with           *)
(* _restore_material_library_from_cache.                                   *)
Restart ==
  /\ quick' = [f \in Folder |-> {}] /\ scan' = [s \in Scanner |-> NoScan]
  /\ shown' = UNION {Scanned(e.uid) : e \in Current(root)}
  /\ UNCHANGED <<outside, files, root, events>>

(* _choose_library; clear() ignores that the file cannot be deleted.       *)
ChooseLibrary ==
  /\ WindowFree
  /\ root' \in Root
  /\ shown' = {}
  /\ \/ file' = {} /\ UNCHANGED events
     \/ writes + events < MaxEvents /\ events' = events + 1 /\ UNCHANGED file
  /\ UNCHANGED <<outside, quick, temp, scan>>

(* _on_material_selected on a node without a detail, which is any after a  *)
(* change of the language: refresh_material_node.                          *)
Select(f) ==
  /\ WindowFree /\ f \in shown
  /\ disk[f].uid # "absent" /\ ~Cached(f)
  /\ \E found \in Reads(f) :
       quick' = [quick EXCEPT ![f] = {[stamp |-> disk[f].stamp, uid |-> found]}]
  /\ UNCHANGED <<outside, files, root, shown, scan, events>>

Next == \/ \E f \in Folder : ChangeFolder(f) \/ Select(f)
        \/ \E s \in Scanner : List(s) \/ InspectFolder(s) \/ Read(s) \/ Write(s) \/ Replace(s)
        \/ LoadLibrary \/ FindKeys \/ LoadSource
        \/ Restart \/ ChooseLibrary
Spec == Init /\ [][Next]_vars
-----------------------------------------------------------------------------
(* The state is well formed.                                               *)
TypeOK ==
  /\ disk \in [Folder -> [uid : Content, stamp : Stamp]]
  /\ tree \in [Root -> Stamp] /\ writes \in Stamp
  /\ quick \in [Folder -> SUBSET [stamp : Stamp, uid : Found]]
  /\ temp \subseteq Snapshot /\ file \subseteq Snapshot
  /\ root \in Root /\ shown \subseteq Folder
  /\ scan \in [Scanner -> Scan] /\ events \in 0..MaxEvents

(* Whatever wrote the snapshot last, and whatever was changed meanwhile: a *)
(* snapshot that is taken for current names every folder of its library    *)
(* with the UID it holds, but for those that could not be read; so does    *)
(* what the process remembers of a folder whose stamps have not changed    *)
(* (_cache_is_current, _quick_inspect).                                    *)
Agrees(found, f) == found \in {disk[f].uid, "unread", "missed"}
StaleIsRefused ==
  /\ \A r \in Root : \A e \in Current(r) : \A f \in Under(r) :
       IF e.uid[f] = None THEN disk[f].uid = "absent" ELSE Agrees(e.uid[f], f)
  /\ \A f \in Folder : \A e \in quick[f] :
       disk[f].uid # "absent" /\ e.stamp = disk[f].stamp => Agrees(e.uid, f)

(* If nothing on disk changed since the scan began, the folder whose keys  *)
(* a clone takes holds the UID of the tag, and no other folder of the      *)
(* library does unless it could not be read: docs/TAG_SUPPORT.md has       *)
(* "Duplicate current UID in library | Blocked", and caches of both sides  *)
(* must not hide one.                                                      *)
KeySourceIsTheOnlyOne ==
  LET s == scan["worker"]
  IN  s.stage = "load" /\ s.began = writes =>
        \A uid \in Uid : \A f \in Source(uid) :
          /\ disk[f].uid = uid
          /\ \A g \in Under(s.root) \ {f} :
               disk[g].uid = uid => s.uid[g] \in {"unread", "missed"}
=============================================================================
