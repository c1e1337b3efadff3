------------------------------- MODULE Backup -------------------------------
(***************************************************************************)
(* The operator's tools/backup: backup.mjs copies the database and .data    *)
(* into a directory of its own, restore.mjs brings such a directory back,   *)
(* after a backup of what it replaces.  The paths are copied one by one,    *)
(* and a tool may be stopped or fail at any of them.  The application may   *)
(* run beside a backup, which nothing forbids; README.md:376 asks to stop   *)
(* it before restoring.  A content is named by the write that made it.      *)
(* CopyBackSnapshot and BeginRestoreUnsaved are mistakes for mutation       *)
(* tests (see README.md).                                                   *)
(***************************************************************************)
EXTENDS Naturals, Sequences, FiniteSets

CONSTANTS Dirs,      \* directories under var/backups, one per backup
          NoDir,
          MaxWrites  \* bound on the contents the application writes

ASSUME BackupAssumption == NoDir \notin Dirs /\ MaxWrites \in Nat

SOURCES == <<"db", "wal", ".data">>
Paths == {SOURCES[i] : i \in DOMAIN SOURCES}
Absent == 0
Nothing == [p \in Paths |-> Absent]
NoContent == {<<p, Absent>> : p \in Paths}

VARIABLES
    live,      \* the content of each path under the repository's root
    writes,    \* the contents written so far
    running,   \* the API and the worker run
    files,     \* what each backup directory holds
    metadata,  \* the directories that have a backup-metadata.json
    tool,      \* what the running tool does: copying, replacing, or none
    at,        \* the index in SOURCES it has reached
    into,      \* the directory it copies to, or has copied to before replacing
    from,      \* the directory it restores
    used,      \* the directories that a backup was begun in
    taken,     \* history: the state each backup was begun in
    torn,      \* history: backups the application ran beside
    replaced,  \* history: the contents that restores have removed
    restored,  \* history: the directory restored last, until anything changes
    undo,      \* history: the backup made by that restore
    undone     \* history: that restore brought back the backup of the one before

rootVars == <<live, writes, running>>
dirVars == <<files, metadata, used>>
toolVars == <<tool, at, into, from>>
backupHistory == <<taken, torn, replaced, restored, undo, undone>>
backupVars == <<rootVars, dirVars, toolVars, backupHistory>>

Existing(state) == {p \in Paths : state[p] # Absent}

BackupInit ==
    /\ live = [p \in Paths |-> IF p = "db" THEN 1 ELSE Absent]
    /\ writes = 1 /\ running = FALSE
    /\ files = [d \in Dirs |-> Nothing] /\ metadata = {} /\ used = {}
    /\ tool = "none" /\ at = 1 /\ into = NoDir /\ from = NoDir
    /\ taken = [d \in Dirs |-> Nothing] /\ torn = {} /\ replaced = {}
    /\ restored = NoDir /\ undo = NoDir /\ undone = FALSE

-----------------------------------------------------------------------------
(* The application *)

StartApp ==
    /\ ~running /\ from = NoDir
    /\ running' = TRUE
    /\ torn' = torn \cup ({into} \ {NoDir})
    /\ restored' = NoDir /\ undo' = NoDir /\ undone' = FALSE
    /\ UNCHANGED <<live, writes, dirVars, toolVars, taken, replaced>>

Write(p) ==
    /\ running /\ writes < MaxWrites
    /\ live' = [live EXCEPT ![p] = writes + 1] /\ writes' = writes + 1
    /\ UNCHANGED <<running, dirVars, toolVars, backupHistory>>

\* A clean stop folds the write-ahead log into the database; a kill leaves it.
StopApp ==
    /\ running
    /\ running' = FALSE
    /\ \/ UNCHANGED <<live, writes>>
       \/ /\ live["wal"] # Absent
          /\ live' = [live EXCEPT !["db"] = live["wal"], !["wal"] = Absent]
          /\ UNCHANGED writes
    /\ UNCHANGED <<dirVars, toolVars, backupHistory>>

-----------------------------------------------------------------------------
(* backup.mjs *)

Copying(d) ==
    /\ tool' = "copying" /\ at' = 1 /\ into' = d
    /\ used' = used \cup {d}
    /\ taken' = [taken EXCEPT ![d] = live]
    /\ torn' = IF running THEN torn \cup {d} ELSE torn

BeginBackup(d) ==
    /\ tool = "none" /\ d \notin used
    /\ Copying(d)
    /\ UNCHANGED <<rootVars, files, metadata, from, replaced, restored, undo, undone>>

CopyNext ==
    /\ tool = "copying" /\ at \in DOMAIN SOURCES
    /\ LET p == SOURCES[at] IN files' = [files EXCEPT ![into][p] = live[p]]
    /\ at' = at + 1
    /\ UNCHANGED <<rootVars, metadata, used, tool, into, from, backupHistory>>

\* runBackup writes the metadata last.  In a restore the replacing follows.
WriteMetadata ==
    /\ tool = "copying" /\ at \notin DOMAIN SOURCES
    /\ metadata' = metadata \cup {into}
    /\ at' = 1
    /\ \/ /\ from = NoDir /\ tool' = "none" /\ into' = NoDir
       \/ /\ from # NoDir /\ tool' = "replacing"
          /\ UNCHANGED into
    /\ UNCHANGED <<rootVars, files, used, from, backupHistory>>

-----------------------------------------------------------------------------
(* restore.mjs *)

Present(d) == Existing(files[d])
Conflicts(d) == Present(d) \cap Existing(live)

BeginRestoreUnsaved(d, force) ==
    /\ tool = "none" /\ ~running
    /\ d \in metadata /\ Present(d) # {}
    /\ Conflicts(d) = {} \/ force
    /\ from' = d /\ tool' = "replacing" /\ at' = 1
    /\ restored' = NoDir /\ undone' = FALSE
    /\ UNCHANGED <<rootVars, dirVars, into, taken, torn, replaced, undo>>

\* A directory without metadata or without files is refused, and so is one with
\* conflicts unless --force is given.
BeginRestore(d, force) ==
    /\ tool = "none" /\ ~running
    /\ d \in metadata /\ Present(d) # {}
    /\ from' = d
    /\ \/ /\ Conflicts(d) = {}
          /\ tool' = "replacing" /\ at' = 1
          /\ UNCHANGED <<into, used, taken, torn>>
       \/ /\ Conflicts(d) # {} /\ force
          /\ \E e \in Dirs \ used : Copying(e)
    /\ restored' = NoDir /\ undone' = FALSE
    /\ UNCHANGED <<rootVars, files, metadata, replaced, undo>>

\* fs.rmSync
RemovePath ==
    /\ tool = "replacing" /\ at \in DOMAIN SOURCES /\ SOURCES[at] \in Present(from)
    /\ replaced' = replaced \cup ({<<SOURCES[at], live[SOURCES[at]]>>} \ NoContent)
    /\ live' = [live EXCEPT ![SOURCES[at]] = Absent]
    /\ tool' = "removed"
    /\ UNCHANGED <<writes, running, dirVars, at, into, from, taken, torn, restored, undo, undone>>

CopyBackSnapshot ==
    /\ tool = "removed"
    /\ LET d == IF into = NoDir THEN from ELSE into
       IN live' = [live EXCEPT ![SOURCES[at]] = files[d][SOURCES[at]]]
    /\ tool' = "replacing" /\ at' = at + 1
    /\ UNCHANGED <<writes, running, dirVars, into, from, backupHistory>>

\* fs.cpSync
CopyBack ==
    /\ tool = "removed"
    /\ live' = [live EXCEPT ![SOURCES[at]] = files[from][SOURCES[at]]]
    /\ tool' = "replacing" /\ at' = at + 1
    /\ UNCHANGED <<writes, running, dirVars, into, from, backupHistory>>

SkipPath ==
    /\ tool = "replacing" /\ at \in DOMAIN SOURCES /\ SOURCES[at] \notin Present(from)
    /\ at' = at + 1
    /\ UNCHANGED <<rootVars, dirVars, tool, into, from, backupHistory>>

EndRestore ==
    /\ tool = "replacing" /\ at \notin DOMAIN SOURCES
    /\ tool' = "none" /\ from' = NoDir /\ into' = NoDir
    /\ restored' = from /\ undo' = into /\ undone' = (from = undo)
    /\ UNCHANGED <<rootVars, dirVars, at, taken, torn, replaced>>

\* The tool is stopped, or a call throws: the process ends.
ToolEnds ==
    /\ tool # "none"
    /\ tool' = "none" /\ into' = NoDir /\ from' = NoDir /\ undo' = NoDir
    /\ UNCHANGED <<rootVars, dirVars, at, taken, torn, replaced, restored, undone>>

BackupNext ==
    \/ StartApp
    \/ \E p \in Paths : Write(p)
    \/ StopApp
    \/ \E d \in Dirs : BeginBackup(d)
    \/ CopyNext \/ WriteMetadata
    \/ \E d \in Dirs, force \in BOOLEAN : BeginRestore(d, force)
    \/ RemovePath \/ CopyBack \/ SkipPath \/ EndRestore \/ ToolEnds

BackupSpec == BackupInit /\ [][BackupNext]_backupVars

-----------------------------------------------------------------------------

BackupTypeOK ==
    /\ live \in [Paths -> 0..MaxWrites] /\ writes \in 1..MaxWrites
    /\ running \in BOOLEAN
    /\ files \in [Dirs -> [Paths -> 0..MaxWrites]] /\ metadata \subseteq used /\ used \subseteq Dirs
    /\ tool \in {"none", "copying", "replacing", "removed"}
    /\ at \in 1..(Len(SOURCES) + 1)
    /\ {into, from, restored, undo} \subseteq Dirs \cup {NoDir} /\ undone \in BOOLEAN
    /\ taken \in [Dirs -> [Paths -> 0..MaxWrites]] /\ torn \subseteq Dirs
    /\ replaced \subseteq Paths \X (1..MaxWrites)

(* Wherever a backup or a restore is cut off, everything a restore has      *)
(* removed is in a backup that restore.mjs accepts.                         *)
NothingLost ==
    \A lost \in replaced : \E d \in metadata : files[d][lost[1]] = lost[2]

(* After a restore from a backup that the application did not run beside,   *)
(* until it is started again, every path it had then is as it was then:     *)
(* a backup that was cut off is never taken for one.                        *)
RestoreBringsBack ==
    restored # NoDir /\ restored \notin torn =>
        \A p \in Existing(taken[restored]) : live[p] = taken[restored][p]

(* README.md:377, "a forced restore first writes a `pre-restore` snapshot   *)
(* so it stays reversible": when that snapshot is restored in turn, the     *)
(* root is again what it was; the application ran beside none of them.      *)
Reversible == undone /\ torn = {} => live = taken[restored]
=============================================================================
