-------------------------- MODULE OperationsProofs --------------------------
(* Proofs about what the operator does beside the chat: the login windows and*)
(* rows of the provider connections, for any number of callers; backup and  *)
(* restore, for any number of backup directories and of contents; the export*)
(* and import of conversations, for any files and order of answers; release *)
(* packages, for any edits and order of the tools; the onboarding wizard,   *)
(* for any models, calls and order of their answers; and the settings pages,*)
(* for any items, calls and order of their answers.                         *)
EXTENDS ProviderConnection, Backup, Transfer, Release, Onboarding, SettingsPages, FiniteSetTheorems,
        TLAPS

-----------------------------------------------------------------------------
(* Provider connections: the maps of the browser manager, the login windows.*)

\* A window is open when it is about to be registered, and only windows whose
\* call has got that far are registered.
WindowsOK ==
    /\ MapsConsistent
    /\ \A c \in Connects : connect[c] = "goto" => c \in windows
    /\ \A c \in registered : connect[c] \in {"audit", "failed", "done"}

\* Without an overlap one call of connect/start is under way at most, and from
\* the closing of the old window to the registration there is none.
Serial ==
    ~overlapped =>
        /\ registered \subseteq {current}
        /\ \A x, y \in Connects : Busy(x) /\ Busy(y) => x = y
        /\ \A x \in Connects : connect[x] \in {"open", "goto"} => registered = {}

\* A poll that may store a session has a window, and a validation that will
\* note "connected" on a row without a session was overtaken by a disconnect.
SessionsOK ==
    /\ \A p \in Polls : poll[p] \in {"validate", "export", "store"} => polled[p] \in Connects
    /\ \A v \in Checkers : checker[v] = "connected" /\ blob = NoWindow => v \in overtaken

ConnectionInv == ConnectionTypeOK /\ WindowsOK /\ Serial /\ SessionsOK

-----------------------------------------------------------------------------
(* Types.                                                                   *)

LEMMA InitTypes == Init => ConnectionTypeOK
BY DEF Init, ConnectionTypeOK, Rows, Refused

LEMMA CloseTypes ==
  ASSUME ConnectionTypeOK, NEW ws, CloseWindows(ws)
  PROVE  /\ windows' \subseteq Connects /\ registered' \subseteq Connects
         /\ expired' \subseteq Connects /\ current' \in Connects \cup {NoWindow}
BY DEF ConnectionTypeOK, CloseWindows

LEMMA ConnectTypes ==
  ASSUME ConnectionTypeOK, NEW c \in Connects, StartConnect(c) \/ ConnectStep(c) \/ Expire(c)
  PROVE  ConnectionTypeOK'
<1>1. CASE StartConnect(c)
  BY <1>1 DEF StartConnect, ConnectGoto, ConnectionTypeOK, Rows, browserVars, pollVars
<1>2. CASE Sweep(c)
  BY <1>2, CloseTypes DEF Sweep, ConnectGoto, ConnectionTypeOK, rowVars, pollVars, history
<1>3. CASE Replace(c)
  BY <1>3, CloseTypes DEF Replace, ConnectGoto, ConnectionTypeOK, rowVars, pollVars, history
<1>4. CASE OpenWindow(c)
  BY <1>4 DEF OpenWindow, ConnectGoto, ConnectionTypeOK, rowVars, pollVars, history
<1>5. CASE Register(c)
  BY <1>5 DEF Register, ConnectGoto, ConnectionTypeOK, rowVars, pollVars, history
<1>6. CASE AuditConnect(c)
  BY <1>6 DEF AuditConnect, ConnectGoto, ConnectionTypeOK, rowVars, browserVars, pollVars, history
<1>7. CASE ConnectFails(c)
  BY <1>7 DEF ConnectFails, ConnectGoto, ConnectionTypeOK, Rows, browserVars, pollVars, history
<1>8. CASE Expire(c)
  BY <1>8 DEF Expire, ConnectionTypeOK, rowVars, pollVars, history
<1> QED BY <1>1, <1>2, <1>3, <1>4, <1>5, <1>6, <1>7, <1>8 DEF ConnectStep

LEMMA PollTypes ==
  ASSUME ConnectionTypeOK, NEW p \in Polls, PollStep(p) \/ \E c \in Connects : FindWindow(p, c)
  PROVE  ConnectionTypeOK'
<1>1. CASE \E c \in Connects : FindWindow(p, c)
  <2>1. PICK c \in Connects : FindWindow(p, c)
    BY <1>1
  <2>2. CASE c \in expired
    BY <2>1, <2>2, CloseTypes DEF FindWindow, ConnectionTypeOK, rowVars, pollVars, history
  <2>3. CASE c \notin expired
    BY <2>1, <2>3 DEF FindWindow, PollGoto, ConnectionTypeOK, rowVars, browserVars, history
  <2> QED BY <2>2, <2>3
<1>2. CASE ValidateWindow(p)
  BY <1>2 DEF ValidateWindow, PollGoto, ConnectionTypeOK, Refused, rowVars, browserVars, history
<1>3. CASE NoteRefusal(p)
  BY <1>3 DEF NoteRefusal, PollGoto, ConnectionTypeOK, Refused, Rows, browserVars, history
<1>4. CASE ExportWindow(p)
  BY <1>4 DEF ExportWindow, PollGoto, ConnectionTypeOK, rowVars, browserVars, history
<1>5. CASE StoreSession(p)
  BY <1>5 DEF StoreSession, PollGoto, ConnectionTypeOK, Rows, rowVars, browserVars, history
<1>6. CASE AuditPoll(p)
  BY <1>6 DEF AuditPoll, PollGoto, ConnectionTypeOK, rowVars, browserVars, history
<1>7. CASE ClosePolled(p)
  BY <1>7, CloseTypes DEF ClosePolled, PollGoto, ConnectionTypeOK, rowVars, history
<1>8. CASE PollFails(p)
  BY <1>8 DEF PollFails, PollGoto, ConnectionTypeOK, Rows, browserVars, history
<1> QED BY <1>1, <1>2, <1>3, <1>4, <1>5, <1>6, <1>7, <1>8 DEF PollStep

LEMMA OtherTypes ==
  ASSUME ConnectionTypeOK,
         \/ \E d \in Closers : Disconnect(d) \/ CloseCurrent(d)
         \/ \E v \in Checkers : BeginRefresh(v) \/ BeginJob(v) \/ NoteVerdict(v)
  PROVE  ConnectionTypeOK'
<1>1. ASSUME NEW d \in Closers, Disconnect(d)
      PROVE  ConnectionTypeOK'
  BY <1>1 DEF Disconnect, ConnectionTypeOK, Rows, browserVars, pollVars
<1>2. ASSUME NEW d \in Closers, CloseCurrent(d)
      PROVE  ConnectionTypeOK'
  BY <1>2, CloseTypes DEF CloseCurrent, ConnectionTypeOK, rowVars, pollVars, history
<1>3. ASSUME NEW v \in Checkers, BeginRefresh(v) \/ BeginJob(v)
      PROVE  ConnectionTypeOK'
  BY <1>3 DEF BeginRefresh, BeginJob, CheckGoto, ConnectionTypeOK, Refused, rowVars,
     browserVars, pollVars, history
<1>4. ASSUME NEW v \in Checkers, NoteVerdict(v)
      PROVE  ConnectionTypeOK'
  BY <1>4 DEF NoteVerdict, CheckGoto, ConnectionTypeOK, Rows, browserVars, pollVars
<1> QED BY <1>1, <1>2, <1>3, <1>4

LEMMA StutterTypes ==
  ASSUME ConnectionTypeOK, UNCHANGED vars
  PROVE  ConnectionTypeOK'
BY DEF vars, rowVars, browserVars, pollVars, history, ConnectionTypeOK

LEMMA TypesStep ==
  ASSUME ConnectionTypeOK, [Next]_vars
  PROVE  ConnectionTypeOK'
BY ConnectTypes, PollTypes, OtherTypes, StutterTypes DEF Next

-----------------------------------------------------------------------------
(* The maps.                                                                *)

LEMMA CloseWindowsOK ==
  ASSUME WindowsOK, NEW ws, CloseWindows(ws)
  PROVE  /\ MapsConsistent'
         /\ registered' \subseteq registered
         /\ \A c \in Connects : connect[c] = "goto" => c \in windows'
BY DEF WindowsOK, MapsConsistent, CloseWindows

LEMMA CloseSerial ==
  ASSUME Serial, NEW ws, CloseWindows(ws), ~overlapped
  PROVE  registered' \subseteq {current'} /\ (registered = {} => registered' = {})
BY DEF Serial, CloseWindows

\* Steps that neither touch the maps nor advance a call of connect/start.
LEMMA KeepMaps ==
  ASSUME WindowsOK, Serial, UNCHANGED <<windows, registered, current, connect, overlapped>>
  PROVE  WindowsOK' /\ Serial'
BY DEF WindowsOK, MapsConsistent, Serial, Busy

\* A window is closed by somebody else than connect/start.
LEMMA CloseMaps ==
  ASSUME WindowsOK, Serial, NEW ws, CloseWindows(ws), UNCHANGED <<connect, overlapped>>
  PROVE  WindowsOK' /\ Serial'
<1>1. WindowsOK'
  BY CloseWindowsOK DEF WindowsOK
<1>2. Serial'
  BY CloseSerial DEF Serial, Busy
<1> QED BY <1>1, <1>2

LEMMA ConnectMaps ==
  ASSUME ConnectionTypeOK, WindowsOK, Serial,
         NEW c \in Connects, StartConnect(c) \/ ConnectStep(c) \/ Expire(c)
  PROVE  WindowsOK' /\ Serial'
<1>0. connect \in [Connects -> {"none", "sweep", "replace", "open", "goto", "audit", "failed", "done"}]
      /\ registered \subseteq Connects
  BY DEF ConnectionTypeOK
<1>1. CASE StartConnect(c)
  <2>1. WindowsOK'
    BY <1>0, <1>1 DEF StartConnect, ConnectGoto, WindowsOK, MapsConsistent, browserVars
  <2>2. Serial'
    BY <1>0, <1>1 DEF StartConnect, ConnectGoto, Serial, Busy, browserVars
  <2> QED BY <2>1, <2>2
<1>2. CASE Sweep(c)
  <2>1. WindowsOK'
    BY <1>0, <1>2, CloseWindowsOK DEF Sweep, ConnectGoto, WindowsOK
  <2>2. Serial'
    BY <1>0, <1>2, CloseSerial DEF Sweep, ConnectGoto, Serial, Busy, history
  <2> QED BY <2>1, <2>2
<1>3. CASE Replace(c)
  <2>1. WindowsOK'
    BY <1>0, <1>3, CloseWindowsOK DEF Replace, ConnectGoto, WindowsOK
  <2>2. overlapped' = overlapped
    BY <1>3 DEF Replace, history
  <2>3. ~overlapped => registered' = {}
    BY <1>3 DEF Replace, CloseWindows, Serial
  <2>4. Serial'
    BY <1>0, <1>3, <2>2, <2>3 DEF Replace, ConnectGoto, Serial, Busy
  <2> QED BY <2>1, <2>4
<1>4. CASE OpenWindow(c)
  <2>1. WindowsOK'
    BY <1>0, <1>4 DEF OpenWindow, ConnectGoto, WindowsOK, MapsConsistent
  <2>2. Serial'
    BY <1>0, <1>4 DEF OpenWindow, ConnectGoto, Serial, Busy, history
  <2> QED BY <2>1, <2>2
<1>5. CASE Register(c)
  <2>1. WindowsOK'
    BY <1>0, <1>5 DEF Register, ConnectGoto, WindowsOK, MapsConsistent
  <2>2. Serial'
    BY <1>0, <1>5 DEF Register, ConnectGoto, Serial, Busy, history
  <2> QED BY <2>1, <2>2
<1>6. CASE AuditConnect(c)
  <2>1. WindowsOK'
    BY <1>0, <1>6 DEF AuditConnect, ConnectGoto, WindowsOK, MapsConsistent, browserVars
  <2>2. Serial'
    BY <1>0, <1>6 DEF AuditConnect, ConnectGoto, Serial, Busy, browserVars, history
  <2> QED BY <2>1, <2>2
<1>7. CASE ConnectFails(c)
  <2>1. WindowsOK'
    BY <1>0, <1>7 DEF ConnectFails, ConnectGoto, WindowsOK, MapsConsistent, browserVars
  <2>2. Serial'
    BY <1>0, <1>7 DEF ConnectFails, ConnectGoto, Serial, Busy, browserVars, history
  <2> QED BY <2>1, <2>2
<1>8. CASE Expire(c)
  BY <1>8, KeepMaps DEF Expire, history
<1> QED BY <1>1, <1>2, <1>3, <1>4, <1>5, <1>6, <1>7, <1>8 DEF ConnectStep

LEMMA PollMaps ==
  ASSUME WindowsOK, Serial, NEW p \in Polls, PollStep(p) \/ \E c \in Connects : FindWindow(p, c)
  PROVE  WindowsOK' /\ Serial'
<1>1. ASSUME NEW c \in Connects, FindWindow(p, c)
      PROVE  WindowsOK' /\ Serial'
  <2>1. CASE c \in expired
    BY <1>1, <2>1, CloseMaps DEF FindWindow, history
  <2>2. CASE c \notin expired
    BY <1>1, <2>2, KeepMaps DEF FindWindow, browserVars, history
  <2> QED BY <2>1, <2>2
<1>2. CASE ClosePolled(p)
  BY <1>2, CloseMaps DEF ClosePolled, history
<1>3. CASE \/ ValidateWindow(p) \/ NoteRefusal(p) \/ ExportWindow(p) \/ StoreSession(p)
           \/ AuditPoll(p) \/ PollFails(p)
  BY <1>3, KeepMaps DEF ValidateWindow, NoteRefusal, ExportWindow, StoreSession, AuditPoll,
     PollFails, browserVars, history
<1> QED BY <1>1, <1>2, <1>3 DEF PollStep

LEMMA OtherMaps ==
  ASSUME WindowsOK, Serial,
         \/ \E d \in Closers : Disconnect(d) \/ CloseCurrent(d)
         \/ \E v \in Checkers : BeginRefresh(v) \/ BeginJob(v) \/ NoteVerdict(v)
  PROVE  WindowsOK' /\ Serial'
<1>1. ASSUME NEW d \in Closers, Disconnect(d)
      PROVE  WindowsOK' /\ Serial'
  BY <1>1, KeepMaps DEF Disconnect, browserVars
<1>2. ASSUME NEW d \in Closers, CloseCurrent(d)
      PROVE  WindowsOK' /\ Serial'
  BY <1>2, CloseMaps DEF CloseCurrent, history
<1>3. ASSUME NEW v \in Checkers, BeginRefresh(v) \/ BeginJob(v) \/ NoteVerdict(v)
      PROVE  WindowsOK' /\ Serial'
  BY <1>3, KeepMaps DEF BeginRefresh, BeginJob, NoteVerdict, browserVars, history
<1> QED BY <1>1, <1>2, <1>3

LEMMA MapsStep ==
  ASSUME ConnectionTypeOK, WindowsOK, Serial, [Next]_vars
  PROVE  WindowsOK' /\ Serial'
<1>1. CASE UNCHANGED vars
  BY <1>1, KeepMaps DEF vars, browserVars, history
<1> QED BY <1>1, ConnectMaps, PollMaps, OtherMaps DEF Next

-----------------------------------------------------------------------------
(* Sessions.                                                                *)

\* What a step does to the row and to the validations.
SessionStep ==
    /\ status' = "connected" /\ blob' = NoWindow =>
          \/ status = "connected" /\ blob = NoWindow
          \/ \E v \in overtaken : checker[v] = "connected" /\ checker'[v] = "none"

LEMMA KeepSessions ==
  ASSUME SessionsOK, UNCHANGED <<blob, poll, polled, checker, overtaken>>,
         status' = status \/ status' # "connected"
  PROVE  SessionsOK' /\ SessionStep
BY DEF SessionsOK, SessionStep

LEMMA ConnectSessions ==
  ASSUME SessionsOK, NEW c \in Connects, StartConnect(c) \/ ConnectStep(c) \/ Expire(c)
  PROVE  SessionsOK' /\ SessionStep
BY KeepSessions DEF ConnectStep, StartConnect, Sweep, Replace, OpenWindow, Register,
   AuditConnect, ConnectFails, Expire, rowVars, pollVars, history

LEMMA PollSessions ==
  ASSUME ConnectionTypeOK, SessionsOK, NEW p \in Polls,
         PollStep(p) \/ \E c \in Connects : FindWindow(p, c)
  PROVE  SessionsOK' /\ SessionStep
<1>0. polled \in [Polls -> Connects \cup {NoWindow}] /\ DOMAIN poll = Polls
  BY DEF ConnectionTypeOK
<1>1. ASSUME NEW c \in Connects, FindWindow(p, c)
      PROVE  SessionsOK' /\ SessionStep
  BY <1>0, <1>1 DEF FindWindow, PollGoto, SessionsOK, SessionStep, rowVars, pollVars, history
<1>2. CASE StoreSession(p)
  <2>1. polled[p] # NoWindow
    BY <1>2, ConnectionAssumption DEF StoreSession, SessionsOK
  <2> QED BY <1>0, <1>2, <2>1 DEF StoreSession, PollGoto, SessionsOK, SessionStep, rowVars, history
<1>3. CASE ValidateWindow(p) \/ ExportWindow(p) \/ AuditPoll(p) \/ ClosePolled(p)
  BY <1>0, <1>3 DEF ValidateWindow, ExportWindow, AuditPoll, ClosePolled, PollGoto, Refused,
     SessionsOK, SessionStep, rowVars, history
<1>4. CASE NoteRefusal(p) \/ PollFails(p)
  BY <1>0, <1>4 DEF NoteRefusal, PollFails, PollGoto, Refused, SessionsOK, SessionStep, history
<1> QED BY <1>1, <1>2, <1>3, <1>4 DEF PollStep

LEMMA OtherSessions ==
  ASSUME ConnectionTypeOK, SessionsOK,
         \/ \E d \in Closers : Disconnect(d) \/ CloseCurrent(d)
         \/ \E v \in Checkers : BeginRefresh(v) \/ BeginJob(v) \/ NoteVerdict(v)
  PROVE  SessionsOK' /\ SessionStep
<1>0. DOMAIN checker = Checkers /\ overtaken \subseteq Checkers
  BY DEF ConnectionTypeOK
<1>1. ASSUME NEW d \in Closers, Disconnect(d)
      PROVE  SessionsOK' /\ SessionStep
  BY <1>1 DEF Disconnect, SessionsOK, SessionStep, pollVars
<1>2. ASSUME NEW d \in Closers, CloseCurrent(d)
      PROVE  SessionsOK' /\ SessionStep
  BY <1>2, KeepSessions DEF CloseCurrent, rowVars, pollVars, history
<1>3. ASSUME NEW v \in Checkers, BeginRefresh(v) \/ BeginJob(v)
      PROVE  SessionsOK' /\ SessionStep
  BY <1>0, <1>3 DEF BeginRefresh, BeginJob, CheckGoto, Refused, SessionsOK, SessionStep,
     rowVars, pollVars, history
<1>4. ASSUME NEW v \in Checkers, NoteVerdict(v)
      PROVE  SessionsOK' /\ SessionStep
  BY <1>0, <1>4 DEF NoteVerdict, CheckGoto, SessionsOK, SessionStep, pollVars
<1> QED BY <1>1, <1>2, <1>3, <1>4

LEMMA SessionsStep ==
  ASSUME ConnectionTypeOK, SessionsOK, [Next]_vars
  PROVE  SessionsOK' /\ SessionStep
<1>1. CASE UNCHANGED vars
  BY <1>1, KeepSessions DEF vars, rowVars, pollVars, history
<1> QED BY <1>1, ConnectSessions, PollSessions, OtherSessions DEF Next

-----------------------------------------------------------------------------
(* Results.                                                                 *)

LEMMA InitInv == Init => ConnectionInv
<1> SUFFICES ASSUME Init PROVE ConnectionInv
  OBVIOUS
<1>1. WindowsOK /\ Serial /\ SessionsOK
  BY DEF Init, WindowsOK, MapsConsistent, Serial, Busy, SessionsOK
<1> QED BY <1>1, InitTypes DEF ConnectionInv

(* The inductive invariant of login windows, polls and validations, for any  *)
(* number of each.                                                            *)
THEOREM ConnectionInvariant == Spec => []ConnectionInv
<1>1. ConnectionInv /\ [Next]_vars => ConnectionInv'
  BY TypesStep, MapsStep, SessionsStep DEF ConnectionInv
<1> QED BY InitInv, <1>1, PTL DEF Spec

(* The browser manager's maps agree, and what is registered is open.         *)
THEOREM MapsSafety == Spec => []MapsConsistent
<1>1. ConnectionInv => MapsConsistent
  BY DEF ConnectionInv, WindowsOK
<1> QED BY <1>1, ConnectionInvariant, PTL

(* One login window at most, and it can be found, unless connects overlap.   *)
THEOREM WindowSafety == Spec => []WindowReachable
<1>1. ConnectionInv => WindowReachable
  BY DEF ConnectionInv, Serial, WindowReachable
<1> QED BY <1>1, ConnectionInvariant, PTL

(* A row becomes "connected" without a session only through a validation     *)
(* that a disconnect has overtaken.                                           *)
THEOREM SessionSafety == Spec => ConnectedHasSession
<1>1. ConnectionInv /\ [Next]_vars => [SessionStep]_vars
  BY SessionsStep DEF ConnectionInv
<1> QED BY <1>1, ConnectionInvariant, PTL DEF Spec, ConnectedHasSession, SessionStep

-----------------------------------------------------------------------------
(* Backup and restore: whatever is cut off, nothing removed is lost.       *)

\* The index of the first path whose content has not been removed yet.
Kept == IF tool = "removed" THEN at + 1 ELSE at

BackupTypes ==
    /\ live \in [Paths -> Nat] /\ writes \in Nat /\ running \in BOOLEAN
    /\ files \in [Dirs -> [Paths -> Nat]]
    /\ metadata \subseteq used /\ used \subseteq Dirs
    /\ tool \in {"none", "copying", "replacing", "removed"}
    /\ at \in 1..4 /\ into \in Dirs \cup {NoDir} /\ from \in Dirs \cup {NoDir}

\* An idle tool has no directory, a copy goes to one without metadata, and the
\* application does not run beside a restore.
ToolInv ==
    /\ tool = "none" => into = NoDir /\ from = NoDir
    /\ tool = "copying" => into \in used \ metadata
    /\ tool \in {"replacing", "removed"} => from # NoDir
    /\ tool = "removed" => at \in 1..3
    /\ from # NoDir => ~running

\* What a restore has copied so far is what is there.
Saved ==
    tool = "copying" /\ from # NoDir =>
        \A i \in 1..3 : i < at => files[into][SOURCES[i]] = live[SOURCES[i]]

\* What it has yet to remove is in its snapshot; without one there is nothing.
Covered ==
    tool \in {"replacing", "removed"} =>
        \A i \in 1..3 : i >= Kept =>
            IF into = NoDir THEN SOURCES[i] \in Present(from) => live[SOURCES[i]] = Absent
            ELSE into \in metadata /\ files[into][SOURCES[i]] = live[SOURCES[i]]

\* The inductive invariant.
BackupInv == BackupTypes /\ ToolInv /\ Saved /\ Covered /\ NothingLost

LEMMA SourcesFacts ==
  /\ DOMAIN SOURCES = 1..3
  /\ \A i \in 1..3 : SOURCES[i] \in Paths
  /\ \A p \in Paths : \E i \in 1..3 : p = SOURCES[i]
  /\ \A i, j \in 1..3 : SOURCES[i] = SOURCES[j] => i = j
  BY DEF SOURCES, Paths

LEMMA BackupInitInv == BackupInit => BackupInv
<1> SUFFICES ASSUME BackupInit PROVE BackupInv OBVIOUS
<1>1. BackupTypes
  <2>1. live \in [Paths -> Nat] /\ Nothing \in [Paths -> Nat]
    <3>1. live = [p \in Paths |-> IF p = "db" THEN 1 ELSE Absent]
      BY DEF BackupInit
    <3>2. \A p \in Paths : (IF p = "db" THEN 1 ELSE Absent) \in Nat
      BY DEF Absent
    <3> QED BY <3>1, <3>2 DEF Nothing, Absent
  <2>2. files \in [Dirs -> [Paths -> Nat]]
    BY <2>1 DEF BackupInit
  <2>3. /\ writes = 1 /\ running = FALSE /\ metadata = {} /\ used = {}
        /\ tool = "none" /\ at = 1 /\ into = NoDir /\ from = NoDir
    BY DEF BackupInit
  <2>4. metadata \subseteq used /\ used \subseteq Dirs
    BY <2>3
  <2>5. writes \in Nat /\ at \in 1..4 /\ tool \in {"none", "copying", "replacing", "removed"}
    BY <2>3
  <2>6. running \in BOOLEAN
    BY <2>3, Zenon
  <2>7. into \in Dirs \cup {NoDir} /\ from \in Dirs \cup {NoDir}
    BY <2>3
  <2> QED BY <2>1, <2>2, <2>4, <2>5, <2>6, <2>7, Zenon DEF BackupTypes
<1>2. ToolInv /\ Saved /\ Covered /\ NothingLost
  BY DEF BackupInit, ToolInv, Saved, Covered, NothingLost
<1> QED BY <1>1, <1>2 DEF BackupInv

\* The application changes nothing while a restore is under way.
LEMMA AppInv ==
  ASSUME BackupInv, StartApp \/ (\E p \in Paths : Write(p)) \/ StopApp
  PROVE  BackupInv'
<1>1. CASE StartApp
  BY <1>1 DEF StartApp, dirVars, toolVars, BackupInv, BackupTypes, ToolInv, Saved, Covered,
              Kept, Present, Existing, NothingLost
<1>2. ASSUME NEW p \in Paths, Write(p)
      PROVE  BackupInv'
  <2>1. from = NoDir /\ tool \notin {"replacing", "removed"}
    BY <1>2 DEF Write, BackupInv, ToolInv
  <2>2. BackupTypes'
    BY <1>2 DEF Write, dirVars, toolVars, BackupInv, BackupTypes
  <2>3. (ToolInv /\ Saved /\ Covered /\ NothingLost)'
    BY <1>2, <2>1 DEF Write, dirVars, toolVars, backupHistory, BackupInv, ToolInv, Saved, Covered,
                      NothingLost
  <2> QED BY <2>2, <2>3 DEF BackupInv
<1>3. CASE StopApp
  <2>1. from = NoDir /\ tool \notin {"replacing", "removed"}
    BY <1>3 DEF StopApp, BackupInv, ToolInv
  <2>2. BackupTypes'
    <3>1. live' \in [Paths -> Nat] /\ writes' = writes /\ running' = FALSE
      <4>1. "db" \in Paths /\ "wal" \in Paths /\ live \in [Paths -> Nat]
        BY DEF Paths, SOURCES, BackupInv, BackupTypes
      <4> QED BY <1>3, <4>1 DEF StopApp, Absent
    <3> QED BY <1>3, <3>1 DEF StopApp, dirVars, toolVars, BackupInv, BackupTypes
  <2>3. (ToolInv /\ Saved /\ Covered /\ NothingLost)'
    BY <1>3, <2>1 DEF StopApp, dirVars, toolVars, backupHistory, BackupInv, ToolInv, Saved, Covered,
                      NothingLost
  <2> QED BY <2>2, <2>3 DEF BackupInv
<1> QED BY <1>1, <1>2, <1>3

\* A directory is copied to once, and has no metadata meanwhile.
LEMMA BeginBackupInv ==
  ASSUME BackupInv, NEW d \in Dirs, BeginBackup(d)
  PROVE  BackupInv'
<1>1. tool = "none" /\ from = NoDir /\ d \notin metadata
  BY DEF BeginBackup, BackupInv, BackupTypes, ToolInv
<1>2. BackupTypes'
  BY DEF BeginBackup, Copying, rootVars, BackupInv, BackupTypes
<1>3. (ToolInv /\ Saved /\ Covered /\ NothingLost)'
  BY <1>1 DEF BeginBackup, Copying, rootVars, BackupInv, ToolInv, Saved, Covered, NothingLost
<1> QED BY <1>2, <1>3 DEF BackupInv

LEMMA CopyNextInv ==
  ASSUME BackupInv, CopyNext
  PROVE  BackupInv'
<1>1. at \in 1..3 /\ into \in Dirs /\ into \in used \ metadata /\ SOURCES[at] \in Paths /\ tool' = "copying"
  BY SourcesFacts DEF CopyNext, BackupInv, BackupTypes, ToolInv
<1>2. files' = [files EXCEPT ![into][SOURCES[at]] = live[SOURCES[at]]] /\ at' = at + 1
  BY DEF CopyNext
<1>3. BackupTypes'
  BY <1>1, <1>2 DEF CopyNext, rootVars, BackupInv, BackupTypes
<1>4. ToolInv' /\ Covered'
  BY <1>1 DEF CopyNext, rootVars, BackupInv, ToolInv, Covered
<1>5. Saved'
  BY <1>1, <1>2, SourcesFacts DEF CopyNext, rootVars, BackupInv, BackupTypes, Saved
<1>6. NothingLost'
  BY <1>1, <1>2 DEF CopyNext, rootVars, backupHistory, BackupInv, BackupTypes, NothingLost
<1> QED BY <1>3, <1>4, <1>5, <1>6 DEF BackupInv

\* The metadata is there only when everything is.
LEMMA WriteMetadataInv ==
  ASSUME BackupInv, WriteMetadata
  PROVE  BackupInv'
<1>1. tool = "copying" /\ at = 4 /\ into \in Dirs /\ metadata' = metadata \cup {into}
  BY SourcesFacts DEF WriteMetadata, BackupInv, BackupTypes, ToolInv
<1>2. BackupTypes'
  <2>1. into \in used
    BY <1>1 DEF BackupInv, ToolInv
  <2> QED BY <1>1, <2>1 DEF WriteMetadata, rootVars, BackupInv, BackupTypes
<1>3. ToolInv' /\ Saved'
  BY <1>1 DEF WriteMetadata, rootVars, BackupInv, ToolInv, Saved
<1>4. Covered'
  BY <1>1, BackupAssumption
  DEF WriteMetadata, rootVars, BackupInv, ToolInv, Saved, Covered, Kept, Present, Existing
<1>5. NothingLost'
  BY <1>1 DEF WriteMetadata, rootVars, backupHistory, BackupInv, NothingLost
<1> QED BY <1>2, <1>3, <1>4, <1>5 DEF BackupInv

\* A forced restore copies first; without conflicts nothing is to be removed.
LEMMA BeginRestoreInv ==
  ASSUME BackupInv, NEW d \in Dirs, NEW force \in BOOLEAN, BeginRestore(d, force)
  PROVE  BackupInv'
<1>1. /\ tool = "none" /\ into = NoDir /\ ~running /\ d # NoDir
      /\ from' = d /\ at' = 1 /\ UNCHANGED <<live, writes, running, files, metadata, replaced>>
  BY BackupAssumption DEF BeginRestore, Copying, rootVars, BackupInv, ToolInv
<1>2. NothingLost'
  BY <1>1 DEF BackupInv, NothingLost
<1>3. CASE tool' = "replacing"
  <2>1. Conflicts(d) = {} /\ UNCHANGED <<into, used>>
    BY <1>3 DEF BeginRestore, Copying
  <2>2. BackupTypes' /\ ToolInv' /\ Saved'
    BY <1>1, <1>3, <2>1 DEF BackupInv, BackupTypes, ToolInv, Saved
  <2>3. Covered'
    BY <1>1, <1>3, <2>1, SourcesFacts
    DEF Covered, Kept, Conflicts, Present, Existing
  <2> QED BY <1>2, <2>2, <2>3 DEF BackupInv
<1>4. CASE tool' = "copying"
  <2>1. PICK e \in Dirs \ used : into' = e /\ used' = used \cup {e}
    BY <1>4 DEF BeginRestore, Copying
  <2>2. BackupTypes' /\ ToolInv'
    BY <1>1, <1>4, <2>1 DEF BackupInv, BackupTypes, ToolInv
  <2>3. Saved' /\ Covered'
    BY <1>1, <1>4 DEF Saved, Covered
  <2> QED BY <1>2, <2>2, <2>3 DEF BackupInv
<1> QED BY <1>3, <1>4 DEF BeginRestore, Copying

\* What is removed is in the snapshot, which has its metadata by now.
LEMMA RemovePathInv ==
  ASSUME BackupInv, RemovePath
  PROVE  BackupInv'
<1>1. /\ at \in 1..3 /\ tool = "replacing" /\ tool' = "removed"
      /\ SOURCES[at] \in Paths /\ SOURCES[at] \in Present(from)
      /\ UNCHANGED <<writes, running, files, metadata, used, at, into, from>>
  BY SourcesFacts DEF RemovePath, dirVars
<1>2. live' = [live EXCEPT ![SOURCES[at]] = Absent]
  BY DEF RemovePath
<1>3. BackupTypes' /\ ToolInv' /\ Saved'
  BY <1>1, <1>2 DEF BackupInv, BackupTypes, ToolInv, Saved, Absent
<1>4. Covered'
  <2> SUFFICES ASSUME NEW i \in 1..3, i >= at + 1
      PROVE  IF into = NoDir THEN SOURCES[i] \in Present(from) => live'[SOURCES[i]] = Absent
             ELSE into \in metadata /\ files[into][SOURCES[i]] = live'[SOURCES[i]]
    BY <1>1 DEF Covered, Kept, Present
  <2>1. i >= Kept
    BY <1>1 DEF Kept
  <2>2. live'[SOURCES[i]] = live[SOURCES[i]]
    BY <1>1, <1>2, SourcesFacts DEF BackupInv, BackupTypes
  <2> QED BY <1>1, <2>1, <2>2 DEF BackupInv, Covered
<1>5. NothingLost'
  <2> SUFFICES ASSUME NEW lost \in replaced'
      PROVE  \E d \in metadata : files[d][lost[1]] = lost[2]
    BY <1>1 DEF NothingLost
  <2>1. CASE lost \in replaced
    BY <2>1 DEF BackupInv, NothingLost
  <2>2. CASE lost \notin replaced
    <3>1. lost = <<SOURCES[at], live[SOURCES[at]]>> /\ live[SOURCES[at]] # Absent
      BY <1>1, <2>2 DEF RemovePath, NoContent
    <3>2. into \in metadata /\ files[into][SOURCES[at]] = live[SOURCES[at]]
      BY <1>1, <3>1 DEF BackupInv, Covered, Kept
    <3> QED BY <3>1, <3>2
  <2> QED BY <2>1, <2>2
<1> QED BY <1>3, <1>4, <1>5 DEF BackupInv

LEMMA CopyBackInv ==
  ASSUME BackupInv, CopyBack
  PROVE  BackupInv'
<1>1. /\ at \in 1..3 /\ tool = "removed" /\ tool' = "replacing" /\ at' = at + 1
      /\ SOURCES[at] \in Paths /\ from \in Dirs
      /\ UNCHANGED <<writes, running, files, metadata, used, into, from, replaced>>
  BY SourcesFacts DEF CopyBack, dirVars, backupHistory, BackupInv, BackupTypes, ToolInv
<1>2. live' = [live EXCEPT ![SOURCES[at]] = files[from][SOURCES[at]]]
  BY DEF CopyBack
<1>3. BackupTypes'
  <2>1. files[from][SOURCES[at]] \in Nat
    BY <1>1 DEF BackupInv, BackupTypes
  <2> QED BY <1>1, <1>2, <2>1 DEF BackupInv, BackupTypes
<1>4. ToolInv' /\ Saved' /\ NothingLost'
  BY <1>1 DEF BackupInv, ToolInv, Saved, NothingLost
<1>5. Covered'
  <2> SUFFICES ASSUME NEW i \in 1..3, i >= at + 1
      PROVE  IF into = NoDir THEN SOURCES[i] \in Present(from) => live'[SOURCES[i]] = Absent
             ELSE into \in metadata /\ files[into][SOURCES[i]] = live'[SOURCES[i]]
    BY <1>1 DEF Covered, Kept, Present
  <2>1. i >= Kept
    BY <1>1 DEF Kept
  <2>2. live'[SOURCES[i]] = live[SOURCES[i]]
    BY <1>1, <1>2, SourcesFacts DEF BackupInv, BackupTypes
  <2> QED BY <1>1, <2>1, <2>2 DEF BackupInv, Covered
<1> QED BY <1>3, <1>4, <1>5 DEF BackupInv

LEMMA RestoreEndInv ==
  ASSUME BackupInv, SkipPath \/ EndRestore \/ ToolEnds
  PROVE  BackupInv'
<1>1. CASE SkipPath
  <2>1. /\ at \in 1..3 /\ tool = "replacing" /\ tool' = "replacing" /\ at' = at + 1
        /\ UNCHANGED <<live, writes, running, files, metadata, used, into, from, replaced>>
    BY <1>1, SourcesFacts DEF SkipPath, rootVars, dirVars, backupHistory
  <2>2. BackupTypes' /\ ToolInv' /\ Saved' /\ NothingLost'
    BY <2>1 DEF BackupInv, BackupTypes, ToolInv, Saved, NothingLost
  <2>3. Covered'
    BY <2>1 DEF BackupInv, Covered, Kept, Present
  <2> QED BY <2>2, <2>3 DEF BackupInv
<1>2. CASE EndRestore \/ ToolEnds
  <2>1. /\ tool' = "none" /\ from' = NoDir /\ into' = NoDir
        /\ UNCHANGED <<live, writes, running, files, metadata, used, at, replaced>>
    BY <1>2 DEF EndRestore, ToolEnds, rootVars, dirVars
  <2> QED BY <2>1 DEF BackupInv, BackupTypes, ToolInv, Saved, Covered, NothingLost
<1> QED BY <1>1, <1>2

LEMMA BackupStepInv == BackupInv /\ [BackupNext]_backupVars => BackupInv'
<1> SUFFICES ASSUME BackupInv, [BackupNext]_backupVars PROVE BackupInv' OBVIOUS
<1>1. CASE UNCHANGED backupVars
  BY <1>1 DEF backupVars, rootVars, dirVars, toolVars, backupHistory, BackupInv, BackupTypes,
              ToolInv, Saved, Covered, Kept, Present, NothingLost
<1>2. CASE BackupNext
  BY <1>2, AppInv, BeginBackupInv, CopyNextInv, WriteMetadataInv, BeginRestoreInv, RemovePathInv,
     CopyBackInv, RestoreEndInv
  DEF BackupNext
<1> QED BY <1>1, <1>2

\* The inductive invariant of tools/backup beside the application.
THEOREM BackupInvariant == BackupSpec => []BackupInv
  BY BackupInitInv, BackupStepInv, PTL DEF BackupSpec

\* README.md:377: whatever cuts a backup or a restore off, what a restore
\* removed is in a backup that restore.mjs accepts.
THEOREM RestoreSafety == BackupSpec => []NothingLost
<1>1. BackupInv => NothingLost
  BY DEF BackupInv
<1> QED BY <1>1, BackupInvariant, PTL

-----------------------------------------------------------------------------
(* Backup and restore: what a restore brings back.                         *)

\* What is in a backup, once it has its metadata and unless the application ran beside it.
Whole == \A d \in metadata : d \notin torn => files[d] = taken[d]

\* While nothing runs beside it, a backup copies the state it was begun in.
CopiesState ==
    tool = "copying" /\ into \notin torn =>
        /\ ~running /\ live = taken[into]
        /\ \A i \in 1..3 : i < at => files[into][SOURCES[i]] = live[SOURCES[i]]

\* What a restore has replaced so far is as it was.
BringsBack ==
    tool \in {"replacing", "removed"} /\ from \notin torn =>
        \A i \in 1..3 : i < at /\ taken[from][SOURCES[i]] # Absent =>
                            live[SOURCES[i]] = taken[from][SOURCES[i]]

\* The inductive invariant, together with BackupInv.
BringInv ==
    /\ taken \in [Dirs -> [Paths -> Nat]]
    /\ Whole /\ CopiesState /\ BringsBack
    /\ from # NoDir => from \in metadata /\ restored = NoDir
    /\ restored # NoDir => restored \in metadata /\ ~running
    /\ RestoreBringsBack

LEMMA BringInit == BackupInit => BringInv
<1> SUFFICES ASSUME BackupInit PROVE BringInv
  OBVIOUS
<1>1. taken \in [Dirs -> [Paths -> Nat]]
  <2>1. Nothing \in [Paths -> Nat]
    BY DEF Nothing, Absent
  <2> QED BY <2>1 DEF BackupInit
<1> QED BY <1>1 DEF BackupInit, BringInv, Whole, CopiesState, BringsBack, RestoreBringsBack

\* A directory is a name of its own, and is copied to without metadata.
LEMMA DirsAre ==
  ASSUME BackupInv
  PROVE  /\ NoDir \notin Dirs /\ metadata \subseteq Dirs /\ NoDir \notin metadata
         /\ tool = "copying" => into \in Dirs /\ into \in used /\ into \notin metadata
         /\ tool = "none" => into = NoDir /\ from = NoDir
         /\ tool \in {"replacing", "removed"} => from \in Dirs /\ from # NoDir
         /\ from # NoDir => ~running
BY BackupAssumption DEF BackupInv, BackupTypes, ToolInv

LEMMA AppBring ==
  ASSUME BackupInv, BringInv, StartApp \/ (\E p \in Paths : Write(p)) \/ StopApp
  PROVE  BringInv'
<1>1. CASE StartApp
  <2>1. /\ ~running /\ from = NoDir /\ running' = TRUE /\ torn' = torn \cup ({into} \ {NoDir})
        /\ restored' = NoDir /\ UNCHANGED <<live, files, metadata, tool, at, into, from, taken>>
    BY <1>1 DEF StartApp, dirVars, toolVars
  <2>2. Whole'
    BY <2>1 DEF BringInv, Whole
  <2>3. CopiesState'
    BY <2>1, DirsAre DEF CopiesState
  <2>4. BringsBack' /\ RestoreBringsBack'
    BY <2>1, DirsAre DEF BringsBack, RestoreBringsBack
  <2> QED BY <2>1, <2>2, <2>3, <2>4 DEF BringInv
<1>2. CASE (\E p \in Paths : Write(p)) \/ StopApp
  <2>1. /\ running /\ UNCHANGED <<files, metadata, tool, at, into, from, taken, torn, restored>>
    BY <1>2 DEF Write, StopApp, dirVars, toolVars, backupHistory
  <2>2. restored = NoDir /\ from = NoDir /\ (tool = "copying" => into \in torn)
        /\ tool \notin {"replacing", "removed"}
    BY <2>1, DirsAre DEF BringInv, CopiesState
  <2>3. Whole' /\ CopiesState' /\ BringsBack' /\ RestoreBringsBack'
    BY <2>1, <2>2 DEF BringInv, Whole, CopiesState, BringsBack, RestoreBringsBack
  <2> QED BY <2>1, <2>2, <2>3 DEF BringInv
<1> QED BY <1>1, <1>2

\* What a directory is begun with does not concern those that were used.
LEMMA CopyingBring ==
  ASSUME BackupInv, BringInv, NEW d \in Dirs \ used, Copying(d), tool = "none",
         UNCHANGED <<live, writes, running, files, metadata>>,
         restored' = restored \/ restored' = NoDir,
         from' = from \/ (from' \in metadata /\ restored' = NoDir)
  PROVE  BringInv'
<1>1. /\ tool' = "copying" /\ at' = 1 /\ into' = d /\ taken' = [taken EXCEPT ![d] = live]
      /\ torn' = IF running THEN torn \cup {d} ELSE torn
  BY DEF Copying
<1>2. /\ live \in [Paths -> Nat] /\ metadata \subseteq used /\ d \notin metadata /\ from = NoDir
      /\ NoDir \notin Dirs /\ metadata \subseteq Dirs
  BY DirsAre DEF BackupInv, BackupTypes
<1>3. taken' \in [Dirs -> [Paths -> Nat]] /\ taken'[d] = live
  BY <1>1, <1>2 DEF BringInv
<1>4. \A e \in Dirs : e # d => taken'[e] = taken[e] /\ (e \in torn' <=> e \in torn)
  BY <1>1 DEF BringInv
<1>5. Whole'
  BY <1>2, <1>4 DEF BringInv, Whole
<1>6. CopiesState'
  BY <1>1, <1>3 DEF CopiesState
<1>7. BringsBack'
  BY <1>1 DEF BringsBack
<1>8. restored' # NoDir => restored' = restored /\ restored \in metadata /\ ~running
  BY DEF BringInv
<1>9. RestoreBringsBack'
  <2> SUFFICES ASSUME restored' # NoDir, restored' \notin torn', NEW p \in Existing(taken'[restored'])
               PROVE  live[p] = taken'[restored'][p]
    BY DEF RestoreBringsBack, Existing
  <2>1. restored' = restored /\ restored \in Dirs /\ restored # d /\ restored # NoDir
    BY <1>2, <1>8
  <2>2. taken'[restored] = taken[restored] /\ restored \notin torn
    BY <1>4, <2>1
  <2> QED BY <2>1, <2>2 DEF BringInv, RestoreBringsBack
<1> QED BY <1>2, <1>3, <1>5, <1>6, <1>7, <1>8, <1>9 DEF BringInv

LEMMA BeginBackupBring ==
  ASSUME BackupInv, BringInv, NEW d \in Dirs, BeginBackup(d)
  PROVE  BringInv'
<1>1. /\ tool = "none" /\ d \in Dirs \ used /\ Copying(d)
      /\ UNCHANGED <<live, writes, running, files, metadata>> /\ from' = from /\ restored' = restored
  BY DEF BeginBackup, rootVars
<1> QED BY <1>1, CopyingBring

LEMMA CopyNextBring ==
  ASSUME BackupInv, BringInv, CopyNext
  PROVE  BringInv'
<1>1. /\ tool = "copying" /\ at \in 1..3 /\ into \in Dirs /\ into \notin metadata /\ SOURCES[at] \in Paths
      /\ files' = [files EXCEPT ![into][SOURCES[at]] = live[SOURCES[at]]] /\ at' = at + 1
      /\ UNCHANGED <<live, running, metadata, tool, into, from, taken, torn, restored>>
  BY SourcesFacts, DirsAre DEF CopyNext, rootVars, backupHistory
<1>2. files \in [Dirs -> [Paths -> Nat]] /\ metadata \subseteq Dirs
  BY DirsAre DEF BackupInv, BackupTypes
<1>3. Whole'
  BY <1>1, <1>2 DEF BringInv, Whole
<1>4. CopiesState'
  <2> SUFFICES ASSUME into \notin torn
               PROVE  /\ ~running /\ live = taken[into]
                      /\ \A i \in 1..3 : i < at + 1 => files'[into][SOURCES[i]] = live[SOURCES[i]]
    BY <1>1 DEF CopiesState
  <2> QED BY <1>1, <1>2, SourcesFacts DEF BringInv, CopiesState
<1>5. BringsBack' /\ RestoreBringsBack'
  BY <1>1 DEF BringInv, BringsBack, RestoreBringsBack
<1> QED BY <1>1, <1>3, <1>4, <1>5 DEF BringInv

\* With every path copied the directory holds the state it was begun in.
LEMMA WriteMetadataBring ==
  ASSUME BackupInv, BringInv, WriteMetadata
  PROVE  BringInv'
<1>1. /\ tool = "copying" /\ at = 4 /\ into \in Dirs /\ metadata' = metadata \cup {into} /\ at' = 1
      /\ UNCHANGED <<live, running, files, from, taken, torn, restored>> /\ tool' # "copying"
  BY SourcesFacts, DirsAre DEF WriteMetadata, rootVars, backupHistory, BackupInv, BackupTypes
<1>2. Whole'
  <2> SUFFICES ASSUME into \notin torn PROVE files[into] = taken[into]
    BY <1>1 DEF BringInv, Whole
  <2>1. live = taken[into] /\ \A i \in 1..3 : files[into][SOURCES[i]] = live[SOURCES[i]]
    BY <1>1 DEF BringInv, CopiesState
  <2>2. \A p \in Paths : files[into][p] = taken[into][p]
    BY <2>1, SourcesFacts
  <2>3. files[into] \in [Paths -> Nat] /\ taken[into] \in [Paths -> Nat]
    BY <1>1 DEF BackupInv, BackupTypes, BringInv
  <2> QED BY <2>2, <2>3
<1>3. CopiesState' /\ BringsBack'
  BY <1>1 DEF CopiesState, BringsBack
<1>4. RestoreBringsBack'
  BY <1>1 DEF BringInv, RestoreBringsBack
<1> QED BY <1>1, <1>2, <1>3, <1>4 DEF BringInv

LEMMA BeginRestoreBring ==
  ASSUME BackupInv, BringInv, NEW d \in Dirs, NEW force \in BOOLEAN, BeginRestore(d, force)
  PROVE  BringInv'
<1>1. /\ tool = "none" /\ d \in metadata /\ from' = d /\ restored' = NoDir
      /\ UNCHANGED <<live, writes, running, files, metadata>>
  BY DEF BeginRestore, rootVars
<1>2. CASE \E e \in Dirs \ used : Copying(e)
  BY <1>1, <1>2, CopyingBring
<1>3. CASE tool' = "replacing" /\ at' = 1 /\ UNCHANGED <<into, used, taken, torn>>
  BY <1>1, <1>3 DEF BringInv, Whole, CopiesState, BringsBack, RestoreBringsBack
<1> QED BY <1>2, <1>3 DEF BeginRestore

LEMMA ReplaceBring ==
  ASSUME BackupInv, BringInv, RemovePath \/ CopyBack \/ SkipPath
  PROVE  BringInv'
<1>1. /\ tool \in {"replacing", "removed"} /\ tool' \in {"replacing", "removed"}
      /\ at \in 1..3 /\ SOURCES[at] \in Paths /\ from \in Dirs /\ from # NoDir
      /\ UNCHANGED <<running, files, metadata, into, from, taken, torn, restored>>
  BY SourcesFacts, DirsAre DEF RemovePath, CopyBack, SkipPath, rootVars, dirVars, backupHistory, BackupInv, ToolInv
<1>2. from \in metadata /\ restored = NoDir /\ live \in [Paths -> Nat]
  BY <1>1 DEF BringInv, BackupInv, BackupTypes
<1>3. Whole' /\ CopiesState' /\ RestoreBringsBack'
  BY <1>1, <1>2 DEF BringInv, Whole, CopiesState, RestoreBringsBack
<1>4. BringsBack'
  <2> SUFFICES ASSUME from \notin torn, NEW i \in 1..3, i < at', taken[from][SOURCES[i]] # Absent
               PROVE  live'[SOURCES[i]] = taken[from][SOURCES[i]]
    BY <1>1 DEF BringsBack
  <2>1. files[from] = taken[from]
    BY <1>2 DEF BringInv, Whole
  <2>2. i < at => live[SOURCES[i]] = taken[from][SOURCES[i]]
    BY <1>1 DEF BringInv, BringsBack
  <2>3. CASE RemovePath
    <3>1. at' = at /\ live' = [live EXCEPT ![SOURCES[at]] = Absent]
      BY <2>3 DEF RemovePath
    <3>2. i < at /\ SOURCES[i] # SOURCES[at] /\ SOURCES[i] \in Paths
      BY <1>1, <3>1, SourcesFacts
    <3> QED BY <1>2, <2>2, <3>1, <3>2
  <2>4. CASE CopyBack
    <3>1. at' = at + 1 /\ live' = [live EXCEPT ![SOURCES[at]] = files[from][SOURCES[at]]]
      BY <2>4 DEF CopyBack
    <3>2. CASE i = at
      BY <1>1, <1>2, <2>1, <3>1, <3>2
    <3>3. CASE i # at
      <4>1. i < at /\ SOURCES[i] # SOURCES[at] /\ SOURCES[i] \in Paths
        BY <1>1, <3>1, <3>3, SourcesFacts
      <4> QED BY <1>2, <2>2, <3>1, <4>1
    <3> QED BY <3>2, <3>3
  <2>5. CASE SkipPath
    <3>1. at' = at + 1 /\ live' = live /\ files[from][SOURCES[at]] = Absent
      BY <1>1, <2>5 DEF SkipPath, rootVars, Present, Existing
    <3>2. i # at
      BY <2>1, <3>1
    <3> QED BY <1>1, <2>2, <3>1, <3>2
  <2> QED BY <2>3, <2>4, <2>5
<1> QED BY <1>1, <1>2, <1>3, <1>4 DEF BringInv

\* A restore that comes to its end has replaced every path.
LEMMA EndBring ==
  ASSUME BackupInv, BringInv, EndRestore \/ ToolEnds
  PROVE  BringInv'
<1>1. /\ tool # "none" /\ tool' = "none" /\ from' = NoDir
      /\ UNCHANGED <<live, running, files, metadata, taken, torn>>
  BY DEF EndRestore, ToolEnds, rootVars, dirVars
<1>2. Whole' /\ CopiesState' /\ BringsBack'
  BY <1>1 DEF BringInv, Whole, CopiesState, BringsBack
<1>3. CASE EndRestore
  <2>1. tool = "replacing" /\ at = 4 /\ restored' = from
    BY <1>3, SourcesFacts DEF EndRestore, BackupInv, BackupTypes
  <2>2. from \in metadata /\ from # NoDir /\ ~running
    BY <2>1, DirsAre DEF BringInv
  <2>3. RestoreBringsBack'
    <3> SUFFICES ASSUME from \notin torn, NEW p \in Existing(taken[from])
                 PROVE  live[p] = taken[from][p]
      BY <1>1, <2>1 DEF RestoreBringsBack, Existing
    <3>1. PICK i \in 1..3 : p = SOURCES[i]
      BY SourcesFacts DEF Existing
    <3> QED BY <2>1, <3>1 DEF BringInv, BringsBack, Existing
  <2> QED BY <1>1, <1>2, <2>1, <2>2, <2>3 DEF BringInv
<1>4. CASE ToolEnds
  <2>1. restored' = restored
    BY <1>4 DEF ToolEnds
  <2> QED BY <1>1, <1>2, <2>1 DEF BringInv, RestoreBringsBack
<1> QED BY <1>3, <1>4

LEMMA BringStep == BackupInv /\ BringInv /\ [BackupNext]_backupVars => BringInv'
<1> SUFFICES ASSUME BackupInv, BringInv, [BackupNext]_backupVars PROVE BringInv'
  OBVIOUS
<1>1. CASE UNCHANGED backupVars
  BY <1>1 DEF backupVars, rootVars, dirVars, toolVars, backupHistory, BringInv, Whole, CopiesState,
              BringsBack, RestoreBringsBack
<1>2. CASE BackupNext
  BY <1>2, AppBring, BeginBackupBring, CopyNextBring, WriteMetadataBring, BeginRestoreBring,
     ReplaceBring, EndBring
  DEF BackupNext
<1> QED BY <1>1, <1>2

\* tools/backup/restore.mjs: after a restore that came to its end, every path the
\* backup was begun with is again as it was then, for any number of backups, restores
\* and writes and wherever others of them were cut off, unless the application ran beside the backup.
THEOREM RestoreComplete == BackupSpec => []RestoreBringsBack
<1>1. BringInv => RestoreBringsBack
  BY DEF BringInv
<1> QED BY <1>1, BackupInvariant, BringInit, BringStep, PTL DEF BackupSpec

-----------------------------------------------------------------------------
(* Export and import of conversations.                                     *)

\* The messages of any finite number of conversations.
Finite == {S \in SUBSET Nat : IsFiniteSet(S)}
Holdings == UNION {[S -> Nat] : S \in Finite}
AllWords == Words \cup {NoWord, WrongWord}
Files == [kind : {"none", "garbage", "plain", "encrypted"}, word : AllWords, holds : Holdings]
Flags == BOOLEAN
Reads == {"read"} \cup Previews \cup Imports
RequestRecords ==
    [n : Nat, does : Reads \cup {"export"}, stage : {"sent", "reading", "done"}, file : Files,
     word : AllWords, shown : Files, start : Holdings, todo : SUBSET Nat, got : Holdings, ok : Flags]

TransferTypes ==
    /\ chats \in Holdings /\ ids \in Nat /\ DOMAIN chats \subseteq 1..ids
    /\ turns \in Nat /\ asked \in Nat /\ imports \in Nat
    /\ disk \subseteq Files /\ picked \in Files /\ data \in Files /\ preview \in Files
    /\ encrypted \in Flags /\ asking \in Flags /\ unseen \in Flags /\ refused \in Flags
    /\ word \in AllWords
    /\ requests \subseteq RequestRecords
    /\ odd \subseteq {"overlap", "retyped", "lost"}

\* What an export under way has read, against the conversations it began with.
Covers(c) ==
    /\ DOMAIN c.start \subseteq 1..ids
    /\ c.todo \subseteq DOMAIN c.start /\ DOMAIN c.got \subseteq DOMAIN c.start
    /\ DOMAIN c.start \cap DOMAIN chats \subseteq DOMAIN c.got \cup c.todo
    /\ \A t \in DOMAIN c.start : t \in DOMAIN chats => c.start[t] <= chats[t]
    /\ \A t \in DOMAIN c.got :
          c.start[t] <= c.got[t] /\ (t \in DOMAIN chats => c.got[t] <= chats[t])
    /\ c.stage = "done" => c.todo = {}
Sound(c) ==
    /\ c.stage = "reading" => c.does = "export"
    /\ c.does = "export" => IF c.stage = "sent" THEN DOMAIN c.got = {} ELSE Covers(c)
ExportsCover == \A c \in requests : Sound(c)

\* The call about the present choice of a file, of which there is one.
Knows(c) == "retyped" \notin odd => word = c.word
Chosen(c) ==
    /\ c.does = "read" => /\ picked = c.file /\ preview = NoFile /\ imports = 0
                          /\ ~encrypted /\ ~asking
    /\ c.does = "preview" => /\ picked = c.file /\ data = c.file /\ preview = NoFile
                             /\ c.file.kind # "encrypted" /\ imports = 0 /\ ~encrypted /\ ~asking
                             /\ c.stage = "done" /\ c.ok =>
                                   c.file.kind = "plain" /\ FollowsSchema(c.file.holds)
    /\ c.does = "encryptedPreview" =>
          /\ asking /\ data = c.file /\ Knows(c)
          /\ c.stage = "done" /\ c.ok => Decrypts(c) /\ FollowsSchema(c.file.holds)
    /\ c.does \in Imports =>
          /\ preview # NoFile /\ c.file = data /\ c.shown = preview
          /\ encrypted => c.word = word
          /\ c.does = "encryptedImport" <=> encrypted
          /\ "lost" \notin odd => imports <= 1
          /\ "lost" \notin odd /\ ~(c.stage = "done" /\ c.ok) => imports = 0

Consistent ==
    /\ \A c, d \in Under(Reads) : c = d
    /\ \A c \in Under(Reads) : Chosen(c)
    /\ preview # NoFile =>
          /\ picked = preview /\ data = preview /\ ~asking
          /\ preview.kind \in {"plain", "encrypted"} /\ FollowsSchema(preview.holds)
          /\ encrypted <=> preview.kind = "encrypted"
          /\ encrypted /\ "retyped" \notin odd => word = preview.word
          /\ "lost" \notin odd /\ Under(Imports) = {} => imports = 0
    /\ asking => /\ encrypted /\ picked = data /\ data.kind = "encrypted"
                 /\ preview = NoFile /\ imports = 0
    /\ ~unseen
    /\ "lost" \notin odd => imports <= 1
    /\ "retyped" \notin odd => ~refused
ChoiceOK == "overlap" \notin odd => Consistent

\* The inductive invariant.
TransferInv == TransferTypes /\ ExportsCover /\ ChoiceOK

-----------------------------------------------------------------------------
(* Files and calls.                                                         *)

LEMMA HoldingsAre ==
  /\ \A h \in Holdings : /\ DOMAIN h \in Finite /\ DOMAIN h \subseteq Nat
                         /\ IsFiniteSet(DOMAIN h) /\ \A t \in DOMAIN h : h[t] \in Nat
  /\ \A S \in Finite : \A h \in [S -> Nat] : h \in Holdings
BY DEF Holdings, Finite

LEMMA EmptyIs == Empty \in Holdings /\ DOMAIN Empty = {}
<1>1. {} \in Finite
  BY FS_EmptySet DEF Finite
<1>2. Empty \in [{} -> Nat] /\ DOMAIN Empty = {}
  BY DEF Empty
<1> QED BY <1>1, <1>2, HoldingsAre

LEMMA WordsAre == Words \subseteq AllWords /\ NoWord \in AllWords /\ WrongWord \in AllWords
BY DEF AllWords

LEMMA FileIs ==
  ASSUME NEW kind \in {"none", "garbage", "plain", "encrypted"}, NEW w \in AllWords,
         NEW h \in Holdings
  PROVE  /\ File(kind, w, h) \in Files /\ File(kind, w, h).kind = kind
         /\ File(kind, w, h).word = w /\ File(kind, w, h).holds = h
BY DEF File, Files

LEMMA NoFileIs == NoFile \in Files /\ NoFile.kind = "none"
BY FileIs, EmptyIs, WordsAre DEF NoFile

LEMMA RequestIs ==
  ASSUME TransferTypes, NEW does \in Reads \cup {"export"}, NEW f \in Files, NEW w \in AllWords
  PROVE  /\ Request(does, f, w) \in RequestRecords
         /\ Request(does, f, w).does = does /\ Request(does, f, w).stage = "sent"
         /\ Request(does, f, w).file = f /\ Request(does, f, w).word = w
         /\ Request(does, f, w).shown = preview /\ DOMAIN Request(does, f, w).got = {}
<1>1. asked + 1 \in Nat /\ preview \in Files
  BY DEF TransferTypes
<1> QED BY <1>1, EmptyIs DEF Request, RequestRecords, Flags

LEMMA AnswerIs ==
  ASSUME NEW c \in RequestRecords, NEW ok \in Flags
  PROVE  LET d == [c EXCEPT !.stage = "done", !.ok = ok]
         IN  /\ d \in RequestRecords /\ d.stage = "done" /\ d.ok = ok
             /\ d.does = c.does /\ d.file = c.file /\ d.word = c.word /\ d.shown = c.shown
BY DEF RequestRecords

LEMMA OverlapsAre ==
  ASSUME TransferTypes
  PROVE  /\ Overlaps \subseteq {"overlap", "retyped", "lost"}
         /\ \A x \in {"retyped", "lost"} : x \in Overlaps <=> x \in odd
         /\ "overlap" \notin Overlaps => "overlap" \notin odd /\ Under(Reads) = {}
BY DEF TransferTypes, Overlaps, Reads

LEMMA DoesAre ==
  /\ Previews \subseteq Reads /\ Imports \subseteq Reads /\ "read" \in Reads
  /\ "export" \notin Reads
  /\ \A d \in Reads : d \in {"read", "preview", "encryptedPreview"} \/ d \in Imports
  /\ Imports = {"import", "encryptedImport"} /\ Previews = {"preview", "encryptedPreview"}
BY DEF Reads, Previews, Imports

LEMMA InitTransfer == TransferInit => TransferInv
<1> SUFFICES ASSUME TransferInit PROVE TransferInv
  OBVIOUS
<1>1. \A n \in 1..2 : 1..n \in Finite
  <2> SUFFICES ASSUME NEW n \in 1..2 PROVE 1..n \in Finite
    OBVIOUS
  <2> QED BY FS_Interval DEF Finite
<1>2. chats \in Holdings /\ DOMAIN chats = 1..2 /\ [t \in {1} |-> 1] \in Holdings
  <2>1. chats \in [1..2 -> Nat] /\ [t \in {1} |-> 1] \in [1..1 -> Nat] /\ DOMAIN chats = 1..2
    BY DEF TransferInit
  <2> QED BY <1>1, <2>1, HoldingsAre
<1>3. disk \subseteq Files
  <2> DEFINE one == [t \in {1} |-> 1]
             w == CHOOSE v \in Words : TRUE
  <2>1. w \in AllWords
    BY TransferAssumption, WordsAre
  <2>2. one \in Holdings
    BY <1>2
  <2> HIDE DEF one, w
  <2>3. /\ File("garbage", NoWord, Empty) \in Files /\ File("plain", NoWord, one) \in Files
        /\ File("encrypted", w, one) \in Files
    BY <2>1, <2>2, FileIs, EmptyIs, WordsAre
  <2> QED BY <2>3 DEF TransferInit, Foreign, one, w
<1>4. TransferTypes
  BY <1>2, <1>3, NoFileIs, WordsAre DEF TransferInit, TransferTypes, Flags
<1>5. Under(Reads) = {}
  BY DEF TransferInit, Under
<1> QED BY <1>4, <1>5 DEF TransferInit, TransferInv, ExportsCover, ChoiceOK, Consistent

-----------------------------------------------------------------------------
(* What a step keeps.                                                       *)

LEMMA ExportsKept ==
  ASSUME TransferInv, TransferTypes', ids <= ids',
         \A t \in DOMAIN chats' : t \in 1..ids => t \in DOMAIN chats /\ chats[t] <= chats'[t],
         \A c \in requests' : c \in requests \/ Sound(c)'
  PROVE  ExportsCover'
<1> SUFFICES ASSUME NEW c \in requests', c.does = "export", c.stage # "sent", c \in requests
             PROVE  Covers(c)'
  BY DEF TransferInv, ExportsCover, Sound
<1>1. Covers(c)
  BY DEF TransferInv, ExportsCover, Sound
<1>2. DOMAIN c.start \subseteq 1..ids /\ DOMAIN c.got \subseteq 1..ids
  BY <1>1 DEF Covers
<1>3. ids \in Nat /\ ids' \in Nat
  BY DEF TransferInv, TransferTypes
<1>4. DOMAIN c.start \subseteq 1..ids'
  BY <1>2, <1>3
<1>5. /\ c.start \in Holdings /\ c.got \in Holdings /\ chats \in Holdings /\ chats' \in Holdings
  BY DEF TransferInv, TransferTypes, RequestRecords
<1>6. ASSUME NEW x \in Nat, NEW t \in DOMAIN chats', t \in DOMAIN chats, x <= chats[t],
             chats[t] <= chats'[t]
      PROVE  x <= chats'[t]
  BY <1>5, <1>6, HoldingsAre
<1>7. ASSUME NEW t \in DOMAIN c.start, t \in DOMAIN chats'
      PROVE  c.start[t] <= chats'[t]
  <2>1. /\ t \in DOMAIN chats /\ chats[t] <= chats'[t] /\ c.start[t] <= chats[t]
        /\ c.start[t] \in Nat
    BY <1>1, <1>2, <1>5, <1>7, HoldingsAre DEF Covers
  <2> QED BY <1>6, <1>7, <2>1
<1>8. ASSUME NEW t \in DOMAIN c.got, t \in DOMAIN chats'
      PROVE  c.got[t] <= chats'[t]
  <2>1. /\ t \in DOMAIN chats /\ chats[t] <= chats'[t] /\ c.got[t] <= chats[t]
        /\ c.got[t] \in Nat
    BY <1>1, <1>2, <1>5, <1>8, HoldingsAre DEF Covers
  <2> QED BY <1>6, <1>8, <2>1
<1>9. DOMAIN c.start \cap DOMAIN chats' \subseteq DOMAIN c.got \cup c.todo
  BY <1>1, <1>2 DEF Covers
<1> QED BY <1>1, <1>4, <1>7, <1>8, <1>9 DEF Covers

\* The same for a step that leaves the conversations alone.
LEMMA ExportsStay ==
  ASSUME TransferInv, TransferTypes', UNCHANGED chatVars,
         \A c \in requests' : c \in requests \/ Sound(c)'
  PROVE  ExportsCover'
<1>1. chats \in Holdings /\ ids \in Nat /\ chats' = chats /\ ids' = ids
  BY DEF TransferInv, TransferTypes, chatVars
<1>2. \A t \in DOMAIN chats : chats[t] \in Nat
  BY <1>1, HoldingsAre
<1> QED BY <1>1, <1>2, ExportsKept

\* A step that is not about the present choice.
LEMMA ChoiceStays ==
  ASSUME TransferInv, Under(Reads)' \subseteq Under(Reads),
         UNCHANGED <<choiceVars, preview, transferHistory, odd>>,
         Under(Imports)' = Under(Imports)
  PROVE  ChoiceOK'
BY DEF TransferInv, ChoiceOK, Consistent, Chosen, Knows, choiceVars, transferHistory

-----------------------------------------------------------------------------
(* Conversations and exports.                                               *)

LEMMA TurnTransfer == TransferInv /\ Turn => TransferInv'
<1> SUFFICES ASSUME TransferInv, Turn PROVE TransferInv'
  OBVIOUS
<1>1. /\ UNCHANGED <<disk, choiceVars, preview, requests, asked, transferHistory, odd>>
      /\ turns' = turns + 1
  BY DEF Turn
<1>2. /\ chats \in Holdings /\ ids \in Nat /\ DOMAIN chats \subseteq 1..ids
      /\ DOMAIN chats \in Finite /\ \A t \in DOMAIN chats : chats[t] \in Nat
  BY HoldingsAre DEF TransferInv, TransferTypes
<1>3. /\ chats' \in Holdings /\ ids' \in Nat /\ ids <= ids' /\ DOMAIN chats' \subseteq 1..ids'
      /\ \A t \in DOMAIN chats' : t \in 1..ids => t \in DOMAIN chats /\ chats[t] <= chats'[t]
  <2>1. CASE \E t \in DOMAIN chats : chats' = WithChat(t, chats[t] + 1) /\ ids' = ids
    <3>1. PICK t \in DOMAIN chats : chats' = WithChat(t, chats[t] + 1) /\ ids' = ids
      BY <2>1
    <3>2. /\ DOMAIN chats' = DOMAIN chats /\ chats[t] + 1 \in Nat
          /\ \A u \in DOMAIN chats : chats'[u] = IF u = t THEN chats[t] + 1 ELSE chats[u]
      BY <1>2, <3>1 DEF WithChat
    <3>3. chats' \in [DOMAIN chats -> Nat]
      <4>1. chats' = [u \in DOMAIN chats \cup {t} |-> chats'[u]]
        BY <3>1 DEF WithChat
      <4>2. DOMAIN chats \cup {t} = DOMAIN chats
        BY <3>1
      <4> QED BY <1>2, <3>2, <4>1, <4>2
    <3> QED BY <1>2, <3>1, <3>2, <3>3, HoldingsAre
  <2>2. CASE chats' = WithChat(ids + 1, 1) /\ ids' = ids + 1
    <3>1. /\ DOMAIN chats' = DOMAIN chats \cup {ids + 1}
          /\ \A u \in DOMAIN chats : u # ids + 1 => chats'[u] = chats[u]
          /\ chats' \in [DOMAIN chats \cup {ids + 1} -> Nat]
      BY <1>2, <2>2 DEF WithChat
    <3>2. DOMAIN chats \cup {ids + 1} \in Finite
      BY <1>2, FS_AddElement DEF Finite
    <3> QED BY <1>2, <2>2, <3>1, <3>2, HoldingsAre
  <2>3. CASE \E t \in DOMAIN chats : chats' = [u \in DOMAIN chats \ {t} |-> chats[u]] /\ ids' = ids
    <3>1. PICK t \in DOMAIN chats : chats' = [u \in DOMAIN chats \ {t} |-> chats[u]] /\ ids' = ids
      BY <2>3
    <3>2. /\ DOMAIN chats' = DOMAIN chats \ {t} /\ \A u \in DOMAIN chats' : chats'[u] = chats[u]
          /\ chats' \in [DOMAIN chats \ {t} -> Nat]
      BY <1>2, <3>1
    <3>3. DOMAIN chats \ {t} \in Finite
      BY <1>2, FS_RemoveElement DEF Finite
    <3> QED BY <1>2, <3>1, <3>2, <3>3, HoldingsAre
  <2> QED BY <2>1, <2>2, <2>3 DEF Turn
<1>4. TransferTypes'
  BY <1>1, <1>3 DEF TransferInv, TransferTypes, choiceVars, transferHistory
<1>5. ExportsCover'
  BY <1>1, <1>3, <1>4, ExportsKept
<1>6. ChoiceOK'
  BY <1>1, ChoiceStays DEF Under
<1> QED BY <1>4, <1>5, <1>6 DEF TransferInv

\* A step that starts, goes on with or ends an export and leaves the choice alone.
LEMMA ExportStep ==
  ASSUME TransferInv, UNCHANGED <<chatVars, choiceVars, preview, transferHistory, odd>>,
         disk' \subseteq Files, asked' \in Nat, requests' \subseteq RequestRecords,
         \A c \in requests' : c \in requests \/ c.does = "export",
         \A c \in requests : c \in requests' \/ c.does = "export",
         \A c \in requests' : c \in requests \/ Sound(c)'
  PROVE  TransferInv'
<1>1. TransferTypes'
  BY DEF TransferInv, TransferTypes, chatVars, choiceVars, transferHistory
<1>2. ExportsCover'
  BY <1>1, ExportsStay
<1>3. Under(Reads)' = Under(Reads) /\ Under(Imports)' = Under(Imports)
  BY DoesAre DEF Under
<1>4. ChoiceOK'
  BY <1>3, ChoiceStays
<1> QED BY <1>1, <1>2, <1>4 DEF TransferInv

LEMMA ExportStarts ==
  ASSUME TransferInv, NEW w \in AllWords, Starts(Request("export", NoFile, w)),
         UNCHANGED <<chatVars, disk, choiceVars, preview, transferHistory, odd>>
  PROVE  TransferInv'
<1> PICK c : c = Request("export", NoFile, w)
  OBVIOUS
<1>1. /\ c \in RequestRecords /\ c.does = "export" /\ c.stage = "sent" /\ DOMAIN c.got = {}
  BY RequestIs, NoFileIs DEF TransferInv
<1>2. requests' = requests \cup {c} /\ asked' = asked + 1
  BY DEF Starts
<1>4. Sound(c)'
  BY <1>1 DEF Sound
<1>3. requests \subseteq RequestRecords /\ asked \in Nat /\ disk \subseteq Files
  BY DEF TransferInv, TransferTypes
<1> QED BY <1>1, <1>2, <1>3, <1>4, ExportStep

LEMMA ListChatsTransfer ==
  ASSUME TransferInv, NEW c \in requests, ListChats(c)
  PROVE  TransferInv'
<1> PICK d : d = [c EXCEPT !.stage = "reading", !.start = chats, !.todo = DOMAIN chats]
  OBVIOUS
<1>1. /\ c \in RequestRecords /\ c.does = "export" /\ c.stage = "sent"
      /\ requests \subseteq RequestRecords /\ asked \in Nat /\ disk \subseteq Files
  BY DEF TransferInv, TransferTypes, ListChats
<1>2. /\ requests' = (requests \ {c}) \cup {d}
      /\ UNCHANGED <<chatVars, disk, choiceVars, preview, asked, transferHistory, odd>>
  BY DEF ListChats, Becomes
<1>3. /\ chats \in Holdings /\ DOMAIN chats \subseteq Nat /\ DOMAIN chats \subseteq 1..ids
      /\ \A t \in DOMAIN chats : chats[t] \in Nat
  BY HoldingsAre DEF TransferInv, TransferTypes
<1>4. /\ d \in RequestRecords /\ d.does = "export" /\ d.stage = "reading" /\ d.start = chats
      /\ d.todo = DOMAIN chats /\ d.got = c.got
  BY <1>1, <1>3 DEF RequestRecords
<1>5. DOMAIN c.got = {}
  BY <1>1 DEF TransferInv, ExportsCover, Sound
<1>6. \A t \in DOMAIN chats : chats[t] <= chats[t]
  BY <1>3
<1>7. Sound(d)'
  BY <1>2, <1>3, <1>4, <1>5, <1>6 DEF Sound, Covers, chatVars
<1> QED BY <1>1, <1>2, <1>4, <1>7, ExportStep

LEMMA SerializeTransfer ==
  ASSUME TransferInv, NEW c \in requests, NEW t \in c.todo, Serialize(c, t)
  PROVE  TransferInv'
<1> PICK d : d = [c EXCEPT !.todo = c.todo \ {t},
                           !.got = IF t \in DOMAIN chats THEN With(c.got, t) ELSE c.got]
  OBVIOUS
<1>1. /\ c \in RequestRecords /\ c.stage = "reading"
      /\ requests \subseteq RequestRecords /\ asked \in Nat /\ disk \subseteq Files
  BY DEF TransferInv, TransferTypes, Serialize
<1>2. /\ requests' = (requests \ {c}) \cup {d}
      /\ UNCHANGED <<chatVars, disk, choiceVars, preview, asked, transferHistory, odd>>
  BY DEF Serialize, Becomes
<1>3. Covers(c) /\ c.does = "export"
  BY <1>1 DEF TransferInv, ExportsCover, Sound
<1>4. /\ chats \in Holdings /\ c.got \in Holdings /\ c.todo \subseteq Nat /\ t \in Nat
      /\ \A u \in DOMAIN chats : chats[u] \in Nat
      /\ \A u \in DOMAIN c.got : c.got[u] \in Nat
      /\ DOMAIN c.got \in Finite
  BY <1>1, HoldingsAre DEF RequestRecords, TransferInv, TransferTypes
<1> PICK got : got = IF t \in DOMAIN chats THEN With(c.got, t) ELSE c.got
  OBVIOUS
<1>5. /\ got \in Holdings
      /\ DOMAIN got = IF t \in DOMAIN chats THEN DOMAIN c.got \cup {t} ELSE DOMAIN c.got
      /\ \A u \in DOMAIN got : got[u] = IF u = t /\ t \in DOMAIN chats THEN chats[t] ELSE c.got[u]
  <2>1. CASE t \in DOMAIN chats
    <3>1. /\ got = [u \in DOMAIN c.got \cup {t} |-> IF u = t THEN chats[t] ELSE c.got[u]]
          /\ got \in [DOMAIN c.got \cup {t} -> Nat]
      BY <1>4, <2>1 DEF With
    <3>2. DOMAIN c.got \cup {t} \in Finite
      BY <1>4, FS_AddElement DEF Finite
    <3> QED BY <2>1, <3>1, <3>2, HoldingsAre
  <2>2. CASE t \notin DOMAIN chats
    BY <1>4, <2>2
  <2> QED BY <2>1, <2>2
<1>6. /\ d \in RequestRecords /\ d.does = "export" /\ d.stage = "reading" /\ d.start = c.start
      /\ d.todo = c.todo \ {t} /\ d.got = got
  BY <1>1, <1>3, <1>4, <1>5 DEF RequestRecords
<1>7. \A u \in DOMAIN chats : chats[u] <= chats[u]
  BY <1>4
<1>8. /\ DOMAIN d.start \subseteq 1..ids /\ d.todo \subseteq DOMAIN d.start
      /\ DOMAIN d.got \subseteq DOMAIN d.start
      /\ DOMAIN d.start \cap DOMAIN chats \subseteq DOMAIN d.got \cup d.todo
      /\ \A u \in DOMAIN d.start : u \in DOMAIN chats => d.start[u] <= chats[u]
  BY <1>3, <1>5, <1>6 DEF Covers
<1>9. \A u \in DOMAIN d.got :
         d.start[u] <= d.got[u] /\ (u \in DOMAIN chats => d.got[u] <= chats[u])
  BY <1>3, <1>5, <1>6, <1>7 DEF Covers
<1>10. Sound(d)'
  BY <1>2, <1>6, <1>8, <1>9 DEF Sound, Covers, chatVars
<1> QED BY <1>1, <1>2, <1>3, <1>6, <1>10, ExportStep

LEMMA SendExportTransfer ==
  ASSUME TransferInv, NEW c \in requests, SendExport(c)
  PROVE  TransferInv'
<1> PICK d : d = [c EXCEPT !.stage = "done", !.ok = TRUE, !.file = Encrypt(c)]
  OBVIOUS
<1>1. /\ c \in RequestRecords /\ c.stage = "reading" /\ c.todo = {}
      /\ requests \subseteq RequestRecords /\ asked \in Nat /\ disk \subseteq Files
  BY DEF TransferInv, TransferTypes, SendExport
<1>2. /\ requests' = (requests \ {c}) \cup {d}
      /\ UNCHANGED <<chatVars, disk, choiceVars, preview, asked, transferHistory, odd>>
  BY DEF SendExport, Becomes
<1>3. Covers(c) /\ c.does = "export"
  BY <1>1 DEF TransferInv, ExportsCover, Sound
<1>4. Encrypt(c) \in Files
  BY <1>1, FileIs DEF Encrypt, RequestRecords
<1>5. /\ d \in RequestRecords /\ d.does = "export" /\ d.stage = "done" /\ d.start = c.start
      /\ d.todo = {} /\ d.got = c.got
  <2>1. TRUE \in Flags
    BY DEF Flags
  <2> QED BY <1>1, <1>3, <1>4, <2>1 DEF RequestRecords
<1>6. Sound(d)'
  BY <1>1, <1>2, <1>3, <1>5 DEF Sound, Covers, chatVars
<1> QED BY <1>1, <1>2, <1>3, <1>5, <1>6, ExportStep

LEMMA ExportEnds ==
  ASSUME TransferInv, NEW c \in requests, Exported(c) \/ ExportFailed(c)
  PROVE  TransferInv'
<1>1. /\ requests' = requests \ {c} /\ c.does = "export"
      /\ UNCHANGED <<chatVars, choiceVars, preview, asked, transferHistory, odd>>
      /\ disk' \in {disk, disk \cup {c.file}}
  BY DEF Exported, ExportFailed
<1>2. /\ requests \subseteq RequestRecords /\ asked \in Nat /\ disk \subseteq Files
      /\ c.file \in Files
  BY DEF TransferInv, TransferTypes, RequestRecords
<1>3. disk' \subseteq Files
  BY <1>1, <1>2
<1> QED BY <1>1, <1>2, <1>3, ExportStep

-----------------------------------------------------------------------------
(* The choice of a file, its preview and its import.                        *)

\* A step that changes calls about the choice only, and no conversation.
LEMMA ChoiceStep ==
  ASSUME TransferInv, TransferTypes', UNCHANGED chatVars, ChoiceOK',
         \A c \in requests' : c \in requests \/ (c.does \in Reads /\ c.stage # "reading")
  PROVE  TransferInv'
<1>1. \A c \in requests' : c \in requests \/ Sound(c)'
  BY DoesAre DEF Sound
<1>2. ExportsCover'
  BY <1>1, ExportsStay
<1> QED BY <1>2 DEF TransferInv

\* The only call about the choice is what a step leaves of it.
LEMMA OnlyOne ==
  ASSUME Consistent, NEW c \in requests, c.does \in Reads
  PROVE  Under(Reads) = {c} /\ Chosen(c) /\ (c.does \notin Imports => Under(Imports) = {})
<1>1. c \in Under(Reads) /\ \A d \in Under(Imports) : d \in Under(Reads) /\ d.does \in Imports
  BY DoesAre DEF Under
<1>2. \A d \in Under(Reads) : d = c
  BY <1>1 DEF Consistent
<1>3. Chosen(c)
  BY <1>1 DEF Consistent
<1> QED BY <1>1, <1>2, <1>3

LEMMA StartsAre ==
  ASSUME TransferInv, NEW does \in Reads, NEW f \in Files, NEW w \in AllWords,
         NEW c, c = Request(does, f, w), requests' = requests \cup {c}, asked' = asked + 1
  PROVE  /\ c \in RequestRecords /\ c.does = does /\ c.stage = "sent" /\ c.file = f
         /\ c.word = w /\ c.shown = preview /\ asked' \in Nat
         /\ requests' \subseteq RequestRecords
         /\ Under(Reads) = {} => Under(Reads)' = {c}
         /\ Under(Imports)' = IF does \in Imports THEN Under(Imports) \cup {c} ELSE Under(Imports)
<1>1. /\ c \in RequestRecords /\ c.does = does /\ c.stage = "sent" /\ c.file = f
      /\ c.word = w /\ c.shown = preview
  BY RequestIs DEF TransferInv
<1>2. requests \subseteq RequestRecords /\ asked \in Nat
  BY DEF TransferInv, TransferTypes
<1> QED BY <1>1, <1>2 DEF Under

LEMMA ChooseFileTransfer ==
  ASSUME TransferInv, NEW f \in disk, ChooseFile(f)
  PROVE  TransferInv'
<1>1. f \in Files /\ NoWord \in AllWords
  BY WordsAre DEF TransferInv, TransferTypes
<1>2. /\ picked' = f /\ preview' = NoFile /\ encrypted' = FALSE /\ asking' = FALSE
      /\ word' = NoWord /\ imports' = 0 /\ odd' = Overlaps
      /\ UNCHANGED <<chatVars, disk, data, unseen, refused>>
  BY DEF ChooseFile
<1> PICK c : c = Request("read", f, NoWord)
  OBVIOUS
<1>3. requests' = requests \cup {c} /\ asked' = asked + 1
  BY DEF ChooseFile, Starts
<1>4. "read" \in Reads /\ "read" \notin Imports
  BY DoesAre
<1>5. /\ c.does = "read" /\ c.stage = "sent" /\ c.file = f /\ asked' \in Nat
      /\ requests' \subseteq RequestRecords
      /\ Under(Reads) = {} => Under(Reads)' = {c}
      /\ Under(Imports)' = Under(Imports)
  BY <1>1, <1>3, <1>4, StartsAre
<1>6. TransferTypes'
  BY <1>1, <1>2, <1>5, NoFileIs, OverlapsAre DEF TransferInv, TransferTypes, chatVars, Flags
<1>7. ChoiceOK'
  <2>1. SUFFICES ASSUME "overlap" \notin odd' PROVE Consistent'
    BY DEF ChoiceOK
  <2>2. "overlap" \notin odd /\ Under(Reads)' = {c} /\ Consistent
    BY <1>2, <1>5, <2>1, OverlapsAre DEF TransferInv, ChoiceOK
  <2>3. Chosen(c)'
    BY <1>2, <1>5, DoesAre DEF Chosen
  <2> QED BY <1>2, <2>2, <2>3, OverlapsAre DEF Consistent, TransferInv
<1> QED BY <1>2, <1>6, <1>7, <1>3, <1>4, <1>5, ChoiceStep

\* What the requests become when one ends.
LEMMA EndsAre ==
  ASSUME TransferInv, NEW c \in requests, requests' = requests \ {c}
  PROVE  /\ requests' \subseteq RequestRecords /\ c \in RequestRecords
         /\ Under(Reads)' = Under(Reads) \ {c} /\ Under(Imports)' = Under(Imports) \ {c}
         /\ c.file \in Files /\ c.word \in AllWords
BY DEF TransferInv, TransferTypes, RequestRecords, Under

LEMMA FileReadTransfer ==
  ASSUME TransferInv, NEW c \in requests, FileRead(c)
  PROVE  TransferInv'
<1>1. /\ c.does = "read" /\ c.file.kind # "garbage" /\ data' = c.file
      /\ UNCHANGED <<chatVars, disk, picked, word, preview, transferHistory, odd>>
  BY DEF FileRead
<1>2. c.does \in Reads /\ c.does \notin Imports
  BY <1>1, DoesAre
<1>3. /\ requests \subseteq RequestRecords /\ asked \in Nat /\ c.file \in Files
      /\ encrypted \in Flags /\ asking \in Flags /\ NoWord \in AllWords
  BY WordsAre DEF TransferInv, TransferTypes, RequestRecords
<1>4. CASE c.file.kind = "encrypted"
  <2>1. encrypted' = TRUE /\ asking' = TRUE /\ requests' = requests \ {c} /\ asked' = asked
    BY <1>4 DEF FileRead
  <2>2. /\ Under(Reads)' = Under(Reads) \ {c} /\ Under(Imports)' = Under(Imports) \ {c}
        /\ requests' \subseteq RequestRecords
    BY <2>1, EndsAre
  <2>3. TransferTypes'
    BY <1>1, <1>3, <2>1, <2>2 DEF TransferInv, TransferTypes, chatVars, transferHistory, Flags
  <2>4. ChoiceOK'
    <3> SUFFICES ASSUME "overlap" \notin odd' PROVE Consistent'
      BY DEF ChoiceOK
    <3>1. Consistent
      BY <1>1 DEF TransferInv, ChoiceOK
    <3>2. Under(Reads)' = {} /\ picked = c.file /\ preview = NoFile /\ imports = 0
      BY <1>1, <1>2, <2>2, <3>1, OnlyOne DEF Chosen
    <3> QED BY <1>1, <1>4, <2>1, <3>1, <3>2 DEF Consistent, transferHistory
  <2> QED BY <1>1, <2>1, <2>3, <2>4, ChoiceStep
<1>5. CASE c.file.kind # "encrypted"
  <2> PICK d : d = Request("preview", c.file, NoWord)
    OBVIOUS
  <2>1. /\ requests' = (requests \ {c}) \cup {d} /\ asked' = asked + 1
        /\ UNCHANGED <<encrypted, asking>>
    BY <1>5 DEF FileRead, PreviewCall
  <2>2. /\ d \in RequestRecords /\ d.does = "preview" /\ d.stage = "sent" /\ d.file = c.file
    <3>1. "preview" \in Reads
      BY DoesAre
    <3> QED BY <1>3, <3>1, RequestIs DEF TransferInv
  <2>3. TransferTypes'
    BY <1>1, <1>3, <2>1, <2>2 DEF TransferInv, TransferTypes, chatVars, transferHistory
  <2>4. ChoiceOK'
    <3> SUFFICES ASSUME "overlap" \notin odd' PROVE Consistent'
      BY DEF ChoiceOK
    <3>1. Consistent
      BY <1>1 DEF TransferInv, ChoiceOK
    <3>2. Under(Reads) = {c} /\ Chosen(c)
      BY <1>2, <3>1, OnlyOne
    <3>3. Under(Reads)' = {d}
      BY <2>1, <2>2, <3>2, DoesAre DEF Under
    <3>4. Chosen(d)'
      BY <1>1, <1>5, <2>1, <2>2, <3>2, DoesAre DEF Chosen, transferHistory
    <3> QED BY <1>1, <1>5, <2>1, <3>1, <3>2, <3>3, <3>4 DEF Consistent, Chosen, transferHistory
  <2>5. \A x \in requests' : x \in requests \/ (x.does \in Reads /\ x.stage # "reading")
    BY <2>1, <2>2, DoesAre
  <2> QED BY <1>1, <2>3, <2>4, <2>5, ChoiceStep
<1> QED BY <1>4, <1>5

LEMMA FileFailedTransfer ==
  ASSUME TransferInv, NEW c \in requests, FileFailed(c)
  PROVE  TransferInv'
<1>1. /\ c.does \in {"read", "preview"} /\ requests' = requests \ {c}
      /\ picked' = NoFile /\ data' = NoFile
      /\ UNCHANGED <<chatVars, disk, encrypted, asking, word, preview, asked, transferHistory, odd>>
  BY DEF FileFailed
<1>2. c.does \in Reads /\ c.does \notin Imports
  BY <1>1, DoesAre
<1>3. /\ Under(Reads)' = Under(Reads) \ {c} /\ requests' \subseteq RequestRecords
  BY <1>1, EndsAre
<1>4. TransferTypes'
  BY <1>1, <1>3, NoFileIs DEF TransferInv, TransferTypes, chatVars, transferHistory
<1>5. ChoiceOK'
  <2> SUFFICES ASSUME "overlap" \notin odd' PROVE Consistent'
    BY DEF ChoiceOK
  <2>1. Consistent
    BY <1>1 DEF TransferInv, ChoiceOK
  <2>2. Under(Reads)' = {} /\ preview = NoFile /\ imports = 0 /\ ~encrypted /\ ~asking
    BY <1>1, <1>2, <1>3, <2>1, OnlyOne DEF Chosen
  <2> QED BY <1>1, <2>1, <2>2 DEF Consistent, transferHistory
<1> QED BY <1>1, <1>4, <1>5, ChoiceStep

LEMMA TypeWordTransfer ==
  ASSUME TransferInv, NEW w \in Words \cup {WrongWord}, TypeWord(w)
  PROVE  TransferInv'
<1>1. /\ asking /\ word' = w
      /\ odd' = IF Under({"encryptedPreview"}) # {} THEN odd \cup {"retyped"} ELSE odd
      /\ UNCHANGED <<chatVars, disk, picked, data, encrypted, asking, preview, requests, asked,
                     transferHistory>>
  BY DEF TypeWord
<1>2. TransferTypes'
  BY <1>1, WordsAre DEF TransferInv, TransferTypes, chatVars, transferHistory
<1>3. ChoiceOK'
  <2> SUFFICES ASSUME "overlap" \notin odd' PROVE Consistent'
    BY DEF ChoiceOK
  <2>1. Consistent
    BY <1>1 DEF TransferInv, ChoiceOK
  <2>2. preview = NoFile /\ imports = 0
    BY <1>1, <2>1 DEF Consistent
  <2>3. Under(Reads)' = Under(Reads)
    BY <1>1 DEF Under
  <2>4. ASSUME NEW c \in Under(Reads) PROVE Chosen(c)'
    <3>1. Chosen(c) /\ c.does \notin Imports
      BY <2>1, <2>2, <2>4 DEF Consistent, Chosen
    <3>2. c.does = "encryptedPreview" => "retyped" \in odd'
      BY <1>1, <2>4 DEF Under
    <3> QED BY <1>1, <3>1, <3>2 DEF Chosen, Knows, transferHistory
  <2> QED BY <1>1, <2>1, <2>2, <2>3, <2>4 DEF Consistent, transferHistory
<1> QED BY <1>1, <1>2, <1>3, ChoiceStep

LEMMA PreviewEncryptedTransfer == TransferInv /\ PreviewEncrypted => TransferInv'
<1> SUFFICES ASSUME TransferInv, PreviewEncrypted PROVE TransferInv'
  OBVIOUS
<1>1. /\ asking /\ odd' = Overlaps
      /\ UNCHANGED <<chatVars, disk, choiceVars, preview, transferHistory>>
  BY DEF PreviewEncrypted
<1> PICK f, w : f = data /\ w = word
  OBVIOUS
<1> PICK c : c = Request("encryptedPreview", f, w)
  OBVIOUS
<1>2. requests' = requests \cup {c} /\ asked' = asked + 1
  BY DEF PreviewEncrypted, Starts, EncryptedPreviewCall
<1>3. /\ "encryptedPreview" \in Reads /\ "encryptedPreview" \notin Imports
      /\ f \in Files /\ w \in AllWords
  BY DoesAre DEF TransferInv, TransferTypes
<1>4. /\ c.does = "encryptedPreview" /\ c.stage = "sent" /\ c.file = f /\ c.word = w
      /\ asked' \in Nat /\ requests' \subseteq RequestRecords
      /\ Under(Reads) = {} => Under(Reads)' = {c}
      /\ Under(Imports)' = Under(Imports)
  BY <1>2, <1>3, StartsAre
<1>5. TransferTypes'
  BY <1>1, <1>4, OverlapsAre DEF TransferInv, TransferTypes, chatVars, choiceVars, transferHistory
<1>6. ChoiceOK'
  <2> SUFFICES ASSUME "overlap" \notin odd' PROVE Consistent'
    BY DEF ChoiceOK
  <2>1. "overlap" \notin odd /\ Under(Reads)' = {c} /\ Consistent
    BY <1>1, <1>4, OverlapsAre DEF TransferInv, ChoiceOK
  <2>2. Chosen(c)'
    BY <1>1, <1>4, DoesAre DEF Chosen, Knows, choiceVars
  <2> QED BY <1>1, <2>1, <2>2, OverlapsAre
          DEF Consistent, TransferInv, choiceVars, transferHistory
<1> QED BY <1>1, <1>5, <1>6, <1>2, <1>3, <1>4, ChoiceStep

LEMMA ConfirmTransfer == TransferInv /\ Confirm => TransferInv'
<1> SUFFICES ASSUME TransferInv, Confirm PROVE TransferInv'
  OBVIOUS
<1>1. /\ preview # NoFile /\ Under(Imports) = {} /\ odd' = Overlaps
      /\ UNCHANGED <<chatVars, disk, choiceVars, preview, transferHistory>>
  BY DEF Confirm, Importing
<1> PICK does : does = IF encrypted THEN "encryptedImport" ELSE "import"
  OBVIOUS
<1> PICK w : w = IF encrypted THEN word ELSE NoWord
  OBVIOUS
<1> PICK c : c = Request(does, data, w)
  OBVIOUS
<1>2. requests' = requests \cup {c} /\ asked' = asked + 1
  BY DEF Confirm, Starts, EncryptedImportCall, ImportCall
<1>3. /\ does \in Imports /\ does \in Reads
      /\ data \in Files /\ w \in AllWords
  BY DoesAre, WordsAre DEF TransferInv, TransferTypes
<1>4. /\ c.does = does /\ c.stage = "sent" /\ c.file = data /\ c.word = w /\ c.shown = preview
      /\ asked' \in Nat /\ requests' \subseteq RequestRecords
      /\ Under(Reads) = {} => Under(Reads)' = {c}
      /\ Under(Imports)' = Under(Imports) \cup {c}
  BY <1>2, <1>3, StartsAre
<1>5. TransferTypes'
  BY <1>1, <1>4, OverlapsAre DEF TransferInv, TransferTypes, chatVars, choiceVars, transferHistory
<1>6. ChoiceOK'
  <2> SUFFICES ASSUME "overlap" \notin odd' PROVE Consistent'
    BY DEF ChoiceOK
  <2>1. "overlap" \notin odd /\ Under(Reads)' = {c} /\ Consistent
    BY <1>1, <1>4, OverlapsAre DEF TransferInv, ChoiceOK
  <2>2. Chosen(c)'
    <3>1. "lost" \notin odd' => "lost" \notin odd
      BY <1>1, OverlapsAre DEF TransferInv
    <3>2. "lost" \notin odd => imports = 0
      BY <1>1, <2>1 DEF Consistent
    <3>3. /\ c.does \notin {"read", "preview", "encryptedPreview"} /\ c.does \in Imports
          /\ c.does = "encryptedImport" <=> encrypted
      BY <1>3, <1>4, DoesAre
    <3>4. encrypted => c.word = word
      BY <1>4
    <3> QED BY <1>1, <1>4, <3>1, <3>2, <3>3, <3>4 DEF Chosen, choiceVars, transferHistory
  <2> QED BY <1>1, <1>4, <2>1, <2>2, OverlapsAre
          DEF Consistent, TransferInv, choiceVars, transferHistory
<1> QED BY <1>1, <1>2, <1>3, <1>4, <1>5, <1>6, ChoiceStep

\* What the requests become when one is answered.
LEMMA AnsweredAre ==
  ASSUME TransferInv, NEW c \in requests, c.does \in Reads,
         NEW d \in RequestRecords, d.does = c.does, requests' = (requests \ {c}) \cup {d}
  PROVE  /\ requests' \subseteq RequestRecords
         /\ Under(Reads)' = (Under(Reads) \ {c}) \cup {d}
         /\ c.does \in Imports => Under(Imports)' = (Under(Imports) \ {c}) \cup {d}
         /\ c.does \notin Imports => Under(Imports)' = Under(Imports)
<1>1. requests \subseteq RequestRecords
  BY DEF TransferInv, TransferTypes
<1> QED BY <1>1 DEF Under

LEMMA HandlePreviewTransfer ==
  ASSUME TransferInv, NEW c \in requests, HandlePreview(c)
  PROVE  TransferInv'
<1> PICK ok \in Flags :
      /\ requests' = (requests \ {c}) \cup {[c EXCEPT !.stage = "done", !.ok = ok]}
      /\ ok => IF c.does = "preview" THEN PreviewRoute(c) ELSE EncryptedPreviewRoute(c)
  BY DEF HandlePreview, Becomes, Flags
<1> PICK d : d = [c EXCEPT !.stage = "done", !.ok = ok]
  OBVIOUS
<1>1. /\ c.does \in Previews /\ requests' = (requests \ {c}) \cup {d}
      /\ UNCHANGED <<chatVars, disk, choiceVars, preview, asked, transferHistory, odd>>
  BY DEF HandlePreview
<1>2. c.does \in Reads /\ c.does \notin Imports
  BY <1>1, DoesAre
<1>3. /\ d \in RequestRecords /\ d.stage = "done" /\ d.ok = ok /\ d.does = c.does
      /\ d.file = c.file /\ d.word = c.word /\ d.shown = c.shown
  <2>1. c \in RequestRecords
    BY DEF TransferInv, TransferTypes
  <2> QED BY <2>1, AnswerIs
<1>4. /\ requests' \subseteq RequestRecords
      /\ Under(Reads)' = (Under(Reads) \ {c}) \cup {d} /\ Under(Imports)' = Under(Imports)
  BY <1>1, <1>2, <1>3, AnsweredAre
<1>5. TransferTypes'
  BY <1>1, <1>4 DEF TransferInv, TransferTypes, chatVars, choiceVars, transferHistory
<1>6. ChoiceOK'
  <2> SUFFICES ASSUME "overlap" \notin odd' PROVE Consistent'
    BY DEF ChoiceOK
  <2>1. Consistent
    BY <1>1 DEF TransferInv, ChoiceOK
  <2>2. Under(Reads)' = {d} /\ Chosen(c)
    BY <1>2, <1>4, <2>1, OnlyOne
  <2>3. Chosen(d)'
    <3>1. CASE c.does = "preview"
      <4>1. ok => c.file.kind = "plain" /\ FollowsSchema(c.file.holds)
        BY <3>1 DEF PreviewRoute, ValidPreview
      <4> QED BY <1>1, <1>3, <2>2, <3>1, <4>1, DoesAre DEF Chosen, choiceVars, transferHistory
    <3>2. CASE c.does = "encryptedPreview"
      <4>1. ok => Decrypts(c) /\ FollowsSchema(c.file.holds)
        BY <3>2 DEF EncryptedPreviewRoute, ValidPreview
      <4> QED BY <1>1, <1>3, <2>2, <3>2, <4>1, DoesAre
              DEF Chosen, Knows, Decrypts, choiceVars, transferHistory
    <3> QED BY <1>1, <3>1, <3>2, DoesAre
  <2> QED BY <1>1, <1>4, <2>1, <2>2, <2>3 DEF Consistent, choiceVars, transferHistory
<1> QED BY <1>1, <1>2, <1>3, <1>5, <1>6, ChoiceStep

LEMMA PreviewedTransfer ==
  ASSUME TransferInv, NEW c \in requests, Previewed(c)
  PROVE  TransferInv'
<1>1. /\ c.does \in Previews /\ c.stage = "done" /\ c.ok
      /\ requests' = requests \ {c} /\ preview' = c.file
      /\ asking' = IF c.does = "encryptedPreview" THEN FALSE ELSE asking
      /\ UNCHANGED <<chatVars, disk, picked, data, encrypted, word, asked, transferHistory, odd>>
  BY DEF Previewed
<1>2. c.does \in Reads /\ c.does \notin Imports
  BY <1>1, DoesAre
<1>3. /\ Under(Reads)' = Under(Reads) \ {c} /\ Under(Imports)' = Under(Imports) \ {c}
      /\ requests' \subseteq RequestRecords /\ c.file \in Files
  BY <1>1, EndsAre
<1>4. TransferTypes'
  BY <1>1, <1>3 DEF TransferInv, TransferTypes, chatVars, transferHistory, Flags
<1>5. ChoiceOK'
  <2> SUFFICES ASSUME "overlap" \notin odd' PROVE Consistent'
    BY DEF ChoiceOK
  <2>1. Consistent
    BY <1>1 DEF TransferInv, ChoiceOK
  <2>2. Under(Reads)' = {} /\ Under(Imports)' = {} /\ Chosen(c)
    BY <1>2, <1>3, <2>1, OnlyOne
  <2>3. CASE c.does = "preview"
    <3>1. /\ picked = c.file /\ data = c.file /\ c.file.kind = "plain" /\ imports = 0
          /\ FollowsSchema(c.file.holds) /\ ~encrypted /\ ~asking
      BY <1>1, <2>2, <2>3 DEF Chosen
    <3>2. ~asking'
      BY <1>1, <2>3, <3>1
    <3> QED BY <1>1, <2>1, <2>2, <3>1, <3>2 DEF Consistent, transferHistory
  <2>4. CASE c.does = "encryptedPreview"
    <3>1. /\ asking /\ data = c.file /\ Knows(c) /\ Decrypts(c) /\ FollowsSchema(c.file.holds)
      BY <1>1, <2>2, <2>4 DEF Chosen
    <3>2. encrypted /\ picked = data /\ imports = 0
      BY <2>1, <3>1 DEF Consistent
    <3>3. c.file.kind = "encrypted" /\ ("retyped" \notin odd => word = c.file.word)
      BY <3>1 DEF Decrypts, Knows
    <3>4. ~asking'
      BY <1>1, <2>4
    <3> QED BY <1>1, <2>1, <2>2, <3>1, <3>2, <3>3, <3>4 DEF Consistent, transferHistory
  <2> QED BY <1>1, <2>3, <2>4, DoesAre
<1> QED BY <1>1, <1>4, <1>5, ChoiceStep

LEMMA EncryptedPreviewFailedTransfer ==
  ASSUME TransferInv, NEW c \in requests, EncryptedPreviewFailed(c)
  PROVE  TransferInv'
<1>1. /\ c.does = "encryptedPreview" /\ requests' = requests \ {c} /\ preview' = NoFile
      /\ UNCHANGED <<chatVars, disk, choiceVars, asked, transferHistory, odd>>
  BY DEF EncryptedPreviewFailed
<1>2. c.does \in Reads /\ c.does \notin Imports
  BY <1>1, DoesAre
<1>3. /\ Under(Reads)' = Under(Reads) \ {c} /\ requests' \subseteq RequestRecords
  BY <1>1, EndsAre
<1>4. TransferTypes'
  BY <1>1, <1>3, NoFileIs DEF TransferInv, TransferTypes, chatVars, choiceVars, transferHistory
<1>5. ChoiceOK'
  <2> SUFFICES ASSUME "overlap" \notin odd' PROVE Consistent'
    BY DEF ChoiceOK
  <2>1. Consistent
    BY <1>1 DEF TransferInv, ChoiceOK
  <2>2. Under(Reads)' = {} /\ asking
    BY <1>1, <1>2, <1>3, <2>1, OnlyOne DEF Chosen
  <2> QED BY <1>1, <2>1, <2>2 DEF Consistent, choiceVars, transferHistory
<1> QED BY <1>1, <1>4, <1>5, ChoiceStep

LEMMA ImportedTransfer ==
  ASSUME TransferInv, NEW c \in requests, Imported(c)
  PROVE  TransferInv'
<1>1. /\ c.does \in Imports /\ requests' = requests \ {c}
      /\ picked' = NoFile /\ data' = NoFile /\ preview' = NoFile
      /\ encrypted' = FALSE /\ word' = NoWord
      /\ UNCHANGED <<chatVars, disk, asking, asked, transferHistory, odd>>
  BY DEF Imported
<1>2. c.does \in Reads /\ c.does \notin {"read", "preview", "encryptedPreview"}
  BY <1>1, DoesAre
<1>3. /\ Under(Reads)' = Under(Reads) \ {c} /\ requests' \subseteq RequestRecords
  BY <1>1, EndsAre
<1>4. TransferTypes'
  BY <1>1, <1>3, NoFileIs, WordsAre DEF TransferInv, TransferTypes, chatVars, transferHistory, Flags
<1>5. ChoiceOK'
  <2> SUFFICES ASSUME "overlap" \notin odd' PROVE Consistent'
    BY DEF ChoiceOK
  <2>1. Consistent
    BY <1>1 DEF TransferInv, ChoiceOK
  <2>2. Under(Reads)' = {} /\ preview # NoFile
    BY <1>1, <1>2, <1>3, <2>1, OnlyOne DEF Chosen
  <2>3. ~asking
    BY <2>1, <2>2 DEF Consistent
  <2> QED BY <1>1, <2>1, <2>2, <2>3 DEF Consistent, transferHistory
<1> QED BY <1>1, <1>4, <1>5, ChoiceStep

LEMMA ImportFailedTransfer ==
  ASSUME TransferInv, NEW c \in requests, ImportFailed(c)
  PROVE  TransferInv'
<1>1. /\ c.does \in Imports /\ requests' = requests \ {c}
      /\ odd' = IF c.stage = "done" /\ c.ok THEN odd \cup {"lost"} ELSE odd
      /\ UNCHANGED <<chatVars, disk, choiceVars, preview, asked, transferHistory>>
  BY DEF ImportFailed
<1>2. c.does \in Reads
  BY <1>1, DoesAre
<1>3. /\ Under(Reads)' = Under(Reads) \ {c} /\ Under(Imports)' = Under(Imports) \ {c}
      /\ requests' \subseteq RequestRecords
  BY <1>1, EndsAre
<1>4. TransferTypes'
  BY <1>1, <1>3 DEF TransferInv, TransferTypes, chatVars, choiceVars, transferHistory
<1>5. ChoiceOK'
  <2> SUFFICES ASSUME "overlap" \notin odd' PROVE Consistent'
    BY DEF ChoiceOK
  <2>1. Consistent
    BY <1>1 DEF TransferInv, ChoiceOK
  <2>2. Under(Reads)' = {}
    BY <1>2, <1>3, <2>1, OnlyOne
  <2>3. Chosen(c)
    BY <1>2, <2>1, OnlyOne
  <2>4. "lost" \notin odd' => "lost" \notin odd /\ imports = 0
    BY <1>1, <2>3 DEF Chosen
  <2>5. "retyped" \notin odd' => "retyped" \notin odd
    BY <1>1
  <2> QED BY <1>1, <2>1, <2>2, <2>4, <2>5 DEF Consistent, choiceVars, transferHistory
<1> QED BY <1>1, <1>4, <1>5, ChoiceStep

\* The ids of n new conversations: n of them, none used before.
LEMMA FreshIds ==
  ASSUME NEW i \in Nat, NEW n \in Nat
  PROVE  LET new == i + 1..i + n
         IN  /\ IsFiniteSet(new) /\ Cardinality(new) = n /\ new \subseteq Nat
             /\ \A t \in new : t \in 1..i + n /\ t \notin 1..i
<1> PICK a \in Int, b \in Int : a = i + 1 /\ b = i + n
  OBVIOUS
<1>1. IsFiniteSet(a..b) /\ Cardinality(a..b) = IF a > b THEN 0 ELSE b - a + 1
  BY FS_Interval
<1>2. Cardinality(a..b) = n
  BY <1>1
<1>3. IsFiniteSet(i + 1..i + n) /\ Cardinality(i + 1..i + n) = n
  BY <1>1, <1>2
<1> QED BY <1>3

\* An import adds conversations with ids of their own and changes none.
LEMMA ImportAllGrows ==
  ASSUME TransferInv, NEW c \in requests, ImportAll(c)
  PROVE  /\ chats' \in Holdings /\ ids' \in Nat /\ ids <= ids' /\ DOMAIN chats' \subseteq 1..ids'
         /\ \A t \in DOMAIN chats' : t \in 1..ids => t \in DOMAIN chats /\ chats[t] <= chats'[t]
<1> PICK holds : holds = c.file.holds
  OBVIOUS
<1> PICK n : n = Cardinality(DOMAIN holds)
  OBVIOUS
<1>1. /\ holds \in Holdings /\ chats \in Holdings /\ ids \in Nat /\ DOMAIN chats \subseteq 1..ids
      /\ IsFiniteSet(DOMAIN holds) /\ \A t \in DOMAIN holds : holds[t] \in Nat
      /\ DOMAIN chats \in Finite /\ \A t \in DOMAIN chats : chats[t] \in Nat
  <2>1. c.file.holds \in Holdings
    BY DEF TransferInv, TransferTypes, RequestRecords, Files
  <2> QED BY <2>1, HoldingsAre DEF TransferInv, TransferTypes
<1>2. n \in Nat
  BY <1>1, FS_CardinalityType
<1> PICK new : new = ids + 1..ids + n
  OBVIOUS
<1>3. /\ IsFiniteSet(new) /\ Cardinality(new) = n
      /\ new \subseteq Nat /\ \A t \in new : t \in 1..ids + n /\ t \notin 1..ids
  BY <1>1, <1>2, FreshIds
<1>4. Bijection(new, DOMAIN holds) # {}
  <2>1. ExistsBijection(new, DOMAIN holds)
    BY <1>1, <1>3, FS_SameCardinalityBij
  <2> QED BY <2>1 DEF ExistsBijection
<1> PICK origin : origin = CHOOSE f \in Bijection(new, DOMAIN holds) : TRUE
  OBVIOUS
<1>5. origin \in [new -> DOMAIN holds]
  BY <1>4 DEF Bijection, Injection
<1>6. /\ chats' = [t \in DOMAIN chats \cup new |-> IF t \in new THEN holds[origin[t]] ELSE chats[t]]
      /\ ids' = ids + n
  BY <1>3 DEF ImportAll
<1>7. chats' \in [DOMAIN chats \cup new -> Nat]
  BY <1>1, <1>5, <1>6
<1>8. DOMAIN chats \cup new \in Finite
  <2>1. IsFiniteSet(DOMAIN chats \cup new)
    BY <1>1, <1>3, FS_Union DEF Finite
  <2> QED BY <1>1, <1>3, <2>1 DEF Finite
<1>9. DOMAIN chats' = DOMAIN chats \cup new /\ \A t \in DOMAIN chats : t \notin new => chats'[t] = chats[t]
  BY <1>6
<1>10. chats' \in Holdings
  BY <1>7, <1>8, <1>9, HoldingsAre
<1>11. ids' \in Nat /\ ids <= ids' /\ \A t \in 1..ids : t \in 1..ids + n
  BY <1>1, <1>2, <1>6
<1>12. DOMAIN chats' \subseteq 1..ids'
  BY <1>1, <1>3, <1>6, <1>9, <1>11
<1>13. \A t \in DOMAIN chats' : t \in 1..ids => t \in DOMAIN chats /\ chats[t] <= chats'[t]
  <2> SUFFICES ASSUME NEW t \in DOMAIN chats', t \in 1..ids
               PROVE  t \in DOMAIN chats /\ chats[t] <= chats'[t]
    OBVIOUS
  <2>1. t \in DOMAIN chats /\ chats'[t] = chats[t] /\ chats[t] \in Nat
    BY <1>1, <1>3, <1>9
  <2> QED BY <2>1
<1> QED BY <1>10, <1>11, <1>12, <1>13

LEMMA HandleImportTransfer ==
  ASSUME TransferInv, NEW c \in requests, HandleImport(c)
  PROVE  TransferInv'
<1> PICK ok \in Flags :
      /\ requests' = (requests \ {c}) \cup {[c EXCEPT !.stage = "done", !.ok = ok]}
      /\ IF ok THEN ImportAll(c) /\ imports' = imports + 1 ELSE UNCHANGED <<chats, ids, imports>>
      /\ unseen' \in Flags /\ refused' \in Flags
      /\ unseen' => unseen \/ c.file # c.shown
      /\ refused' => refused \/ ~(IF c.does = "import" THEN ImportRoute(c) ELSE EncryptedImportRoute(c))
  BY DEF HandleImport, Becomes, Flags
<1> PICK d : d = [c EXCEPT !.stage = "done", !.ok = ok]
  OBVIOUS
<1>1. /\ c.does \in Imports /\ c.stage = "sent" /\ requests' = (requests \ {c}) \cup {d}
      /\ UNCHANGED <<turns, disk, choiceVars, preview, asked, odd>>
  BY DEF HandleImport
<1>2. c.does \in Reads /\ c.does \notin {"read", "preview", "encryptedPreview"}
  BY <1>1, DoesAre
<1>3. /\ d \in RequestRecords /\ d.stage = "done" /\ d.ok = ok /\ d.does = c.does
      /\ d.file = c.file /\ d.word = c.word /\ d.shown = c.shown
  <2>1. c \in RequestRecords
    BY DEF TransferInv, TransferTypes
  <2> QED BY <2>1, AnswerIs
<1>4. /\ requests' \subseteq RequestRecords
      /\ Under(Reads)' = (Under(Reads) \ {c}) \cup {d}
      /\ Under(Imports)' = (Under(Imports) \ {c}) \cup {d}
  BY <1>1, <1>2, <1>3, AnsweredAre
<1>5. /\ chats' \in Holdings /\ ids' \in Nat /\ ids <= ids' /\ DOMAIN chats' \subseteq 1..ids'
      /\ \A t \in DOMAIN chats' : t \in 1..ids => t \in DOMAIN chats /\ chats[t] <= chats'[t]
      /\ imports' \in Nat
  <2>1. CASE ok
    BY <2>1, ImportAllGrows DEF TransferInv, TransferTypes
  <2>2. CASE ~ok
    <3>1. /\ chats \in Holdings /\ ids \in Nat /\ DOMAIN chats \subseteq 1..ids /\ imports \in Nat
          /\ \A t \in DOMAIN chats : chats[t] \in Nat
      BY HoldingsAre DEF TransferInv, TransferTypes
    <3> QED BY <2>2, <3>1
  <2> QED BY <2>1, <2>2
<1>6. TransferTypes'
  BY <1>1, <1>4, <1>5 DEF TransferInv, TransferTypes, choiceVars
<1>7. ExportsCover'
  <2>1. Sound(d)'
    BY <1>2, <1>3, DoesAre DEF Sound
  <2> QED BY <1>1, <1>5, <1>6, <2>1, ExportsKept
<1>8. ChoiceOK'
  <2> SUFFICES ASSUME "overlap" \notin odd' PROVE Consistent'
    BY DEF ChoiceOK
  <2>1. Consistent
    BY <1>1 DEF TransferInv, ChoiceOK
  <2>2. Under(Reads)' = {d} /\ Chosen(c) /\ c \in Under(Imports)
    BY <1>1, <1>2, <1>4, <2>1, OnlyOne DEF Under
  <2>3. /\ preview # NoFile /\ c.file = data /\ c.shown = preview /\ (encrypted => c.word = word)
        /\ c.does = "encryptedImport" <=> encrypted
        /\ "lost" \notin odd => imports = 0
    BY <1>1, <1>2, <2>2 DEF Chosen
  <2>4. /\ picked = preview /\ data = preview /\ ~asking
        /\ preview.kind \in {"plain", "encrypted"} /\ FollowsSchema(preview.holds)
        /\ encrypted <=> preview.kind = "encrypted"
        /\ encrypted /\ "retyped" \notin odd => word = preview.word
    BY <2>1, <2>3 DEF Consistent
  <2>5. "lost" \notin odd => imports' <= 1 /\ (~ok => imports' = 0)
    BY <2>3
  <2>6. ~unseen'
    BY <2>1, <2>3, <2>4 DEF Consistent
  <2>7. "retyped" \notin odd => ~refused'
    <3>1. CASE c.does = "import"
      BY <2>1, <2>3, <2>4, <3>1 DEF Consistent, ImportRoute
    <3>2. CASE c.does # "import"
      <4>1. encrypted
        BY <1>1, <2>3, <3>2, DoesAre
      <4> QED BY <2>1, <2>3, <2>4, <3>2, <4>1 DEF Consistent, EncryptedImportRoute, Decrypts
    <3> QED BY <3>1, <3>2
  <2>8. Chosen(d)'
    BY <1>1, <1>2, <1>3, <2>3, <2>5 DEF Chosen, choiceVars
  <2> QED BY <1>1, <1>4, <2>1, <2>2, <2>4, <2>5, <2>6, <2>7, <2>8 DEF Consistent, choiceVars
<1> QED BY <1>6, <1>7, <1>8 DEF TransferInv

-----------------------------------------------------------------------------
(* Every step.                                                              *)

LEMMA NextTransfer == TransferInv /\ [TransferNext]_transferVars => TransferInv'
<1> SUFFICES ASSUME TransferInv, [TransferNext]_transferVars PROVE TransferInv'
  OBVIOUS
<1>1. CASE UNCHANGED transferVars
  <2>1. /\ UNCHANGED <<chatVars, choiceVars, preview, transferHistory, odd>>
        /\ disk' = disk /\ asked' = asked /\ requests' = requests
    BY <1>1 DEF transferVars
  <2>2. disk \subseteq Files /\ asked \in Nat /\ requests \subseteq RequestRecords
    BY DEF TransferInv, TransferTypes
  <2> QED BY <2>1, <2>2, ExportStep
<1>2. CASE Turn \/ Confirm \/ PreviewEncrypted
  BY <1>2, TurnTransfer, ConfirmTransfer, PreviewEncryptedTransfer
<1>3. CASE ExportAll
  BY <1>3, ExportStarts, WordsAre DEF ExportAll, ExportCall
<1>4. CASE \E w, confirmed \in Words \cup {NoWord} : ExportEncrypted(w, confirmed)
  BY <1>4, ExportStarts, WordsAre DEF ExportEncrypted, EncryptedExportCall
<1>5. CASE \E f \in disk : ChooseFile(f)
  BY <1>5, ChooseFileTransfer
<1>6. CASE \E w \in Words \cup {WrongWord} : TypeWord(w)
  BY <1>6, TypeWordTransfer
<1>7. ASSUME NEW c \in requests,
             \/ FileRead(c) \/ FileFailed(c)
             \/ HandlePreview(c) \/ HandleImport(c)
             \/ ListChats(c) \/ SendExport(c)
             \/ \E t \in c.todo : Serialize(c, t)
             \/ Exported(c) \/ ExportFailed(c)
             \/ Previewed(c) \/ EncryptedPreviewFailed(c)
             \/ Imported(c) \/ ImportFailed(c)
      PROVE  TransferInv'
  BY <1>7, FileReadTransfer, FileFailedTransfer, HandlePreviewTransfer, HandleImportTransfer,
     ListChatsTransfer, SendExportTransfer, SerializeTransfer, ExportEnds, PreviewedTransfer,
     EncryptedPreviewFailedTransfer, ImportedTransfer, ImportFailedTransfer
<1> QED BY <1>1, <1>2, <1>3, <1>4, <1>5, <1>6, <1>7 DEF TransferNext

LEMMA TransferInvariant == TransferSpec => []TransferInv
BY InitTransfer, NextTransfer, PTL DEF TransferSpec

\* What the page settings/conversations shows is what it would import and what is
\* imported, once, by the route for its kind (routes/conversations.ts), for any files,
\* passphrases and limits and any order of answers, unless the user went on while a
\* file was read, previewed or imported.
THEOREM ImportSafety == TransferSpec => []ImportAsShown
<1>1. TransferInv => ImportAsShown
  <2> SUFFICES ASSUME TransferInv, "overlap" \notin odd
               PROVE  /\ preview # NoFile => /\ picked = preview /\ data = preview
                                             /\ encrypted = (preview.kind = "encrypted")
                      /\ ~unseen
                      /\ "lost" \notin odd => imports <= 1
                      /\ "retyped" \notin odd => ~refused
    BY DEF ImportAsShown
  <2>1. Consistent
    BY DEF TransferInv, ChoiceOK
  <2>2. preview # NoFile => encrypted = (preview.kind = "encrypted")
    <3>1. encrypted \in BOOLEAN
      BY DEF TransferInv, TransferTypes, Flags
    <3>2. preview # NoFile => (encrypted <=> preview.kind = "encrypted")
      BY <2>1 DEF Consistent
    <3> QED BY <3>1, <3>2
  <2> QED BY <2>1, <2>2 DEF Consistent
<1> QED BY <1>1, TransferInvariant, PTL

\* conversationExportService.ts reads the conversations one by one, while turns change
\* them and others are deleted or imported: the file has every conversation that was there from
\* beginning to end, as it was at some time in between, and no other.
THEOREM ExportSafety == TransferSpec => []ExportWhole
<1>1. TransferInv => ExportWhole
  <2> SUFFICES ASSUME TransferInv, NEW c \in requests, c.does = "export", c.stage = "done"
               PROVE  /\ DOMAIN c.got \subseteq DOMAIN c.start
                      /\ DOMAIN c.start \cap DOMAIN chats \subseteq DOMAIN c.got
                      /\ \A t \in DOMAIN c.got :
                            c.start[t] <= c.got[t] /\ (t \in DOMAIN chats => c.got[t] <= chats[t])
    BY DEF ExportWhole
  <2>1. Covers(c)
    BY DEF TransferInv, ExportsCover, Sound
  <2> QED BY <2>1 DEF Covers
<1> QED BY <1>1, TransferInvariant, PTL

-----------------------------------------------------------------------------
(* Release packages.                                                       *)

Contents == [PackageFiles -> Nat]
Copied(f) == f \in TreeFiles /\ ~ShouldExclude(f)
Packaging == {"copy", "manifest", "checksums"}

ReleaseTypes ==
    /\ tree \in Nat \ {0} /\ packagings \in Nat /\ manifest \in Nat /\ sbom \in Nat
    /\ packed \in Contents /\ made \in Contents /\ manifestFiles \in Contents

\* What a directory with a manifest holds: the files that are copied, and unless somebody
\* changed it no other.
Packaged ==
    /\ manifest # 0 =>
          /\ exists /\ manifestFiles = made
          /\ \A f \in PackageFiles : made[f] # Missing <=> Copied(f)
          /\ ~tampered => packed = made
    /\ step = "manifest" =>
          /\ exists /\ packagings # 0 /\ packed = made /\ ~tampered
          /\ \A f \in PackageFiles : made[f] # Missing <=> Copied(f)
    /\ step = "checksums" => manifest # 0
    /\ step = "copy" => exists /\ packagings # 0 /\ manifest = 0 /\ ~tampered
    /\ step \in Packaging \cup {"sumSbom"} => said = "nothing"

\* The lines that checksums.sha256 has, and the one it must not lack.
Summed ==
    /\ step \in Packaging => sums = {}
    /\ \A line \in sums :
          \/ line[1] = "sbom" /\ (cutOff \/ step = "sumSbom" \/ line[2] = sbom)
          \/ manifest # 0 /\ line = <<"manifest", manifest>>
          \/ manifest # 0 /\ \E f \in PackageFiles : Copied(f) /\ line = <<f, made[f]>>
    /\ manifest # 0 /\ step # "checksums" /\ ~cutOff => <<"code", made["code"]>> \in sums

Earned ==
    /\ marker \/ step = "marker" => earned
    /\ said \in {"ready", "statusPasses"} => earned

\* The inductive invariant.
ReleaseInv == ReleaseTypes /\ Packaged /\ Summed /\ Earned /\ VerifyTells /\ ReadyIsEarned

LEMMA FilesAre ==
  /\ "code" \in PackageFiles /\ Copied("code")
  /\ \A f \in PackageFiles : f # "sbom" /\ f # "manifest" /\ (LooksForbidden(f) => ~Copied(f))
BY DEF PackageFiles, TreeFiles, Copied, ShouldExclude, LooksForbidden

LEMMA ReleaseStart == ReleaseInit => ReleaseInv
<1> SUFFICES ASSUME ReleaseInit PROVE ReleaseInv
  OBVIOUS
<1>1. Nowhere \in Contents
  BY DEF Nowhere, Contents, Missing
<1>2. ReleaseTypes
  BY <1>1 DEF ReleaseInit, ReleaseTypes, Missing
<1> QED BY <1>2 DEF ReleaseInit, ReleaseInv, Packaged, Packaging, Summed, Earned, VerifyTells, ReadyIsEarned

\* Steps that leave the package and its history as they are, and say nothing.
LEMMA OtherSteps ==
  ASSUME ReleaseInv, UNCHANGED <<packageVars, releaseHistory>>, tree' \in Nat \ {0},
         step' \notin Packaging \cup {"sumSbom", "marker"}, step \notin Packaging \cup {"sumSbom"},
         said' = said \/ said' = "nothing"
  PROVE  ReleaseInv'
BY DEF packageVars, releaseHistory, ReleaseInv, ReleaseTypes, Packaged, Packaging, Summed, Earned,
       VerifyTells, ReadyIsEarned

\* The tree is edited, containers come and go.
LEMMA AroundSteps ==
  ASSUME ReleaseInv,
         \/ Edit \/ ContainersStop
         \/ GenerateStagingEnv
         \/ \E generateEnv \in BOOLEAN : BeginSmoke(generateEnv)
         \/ \E report \in DockerPreflights, only \in BOOLEAN : RunDockerPreflight(report, only)
         \/ \E skipUp \in BOOLEAN : ComposeUp(skipUp)
         \/ WaitForReady
         \/ \E down \in BOOLEAN : ComposeDown(down)
         \/ SmokeFails
  PROVE  ReleaseInv'
<1>1. CASE Edit \/ ContainersStop
  <2>1. UNCHANGED <<packageVars, step, said, releaseHistory>> /\ tree' \in Nat \ {0}
    BY <1>1 DEF Edit, ContainersStop, ReleaseInv, ReleaseTypes
  <2> QED BY <2>1 DEF packageVars, releaseHistory, ReleaseInv, ReleaseTypes, Packaged, Packaging, Summed,
                      Earned, VerifyTells, ReadyIsEarned
<1>2. ASSUME ~(Edit \/ ContainersStop) PROVE ReleaseInv'
  <2>1. /\ UNCHANGED <<packageVars, releaseHistory, tree>> /\ (said' = said \/ said' = "nothing")
        /\ step' \in {"none", "preflight", "up", "ready", "verify"}
        /\ step \in {"none", "preflight", "up", "ready", "verify", "marker", "down"}
    BY <1>2 DEF GenerateStagingEnv, BeginSmoke, RunDockerPreflight, ComposeUp, WaitForReady, ComposeDown,
                SmokeFails, Idle, Begins, Goes
  <2> QED BY <2>1, OtherSteps DEF Packaging, ReleaseInv, ReleaseTypes
<1> QED BY <1>1, <1>2

LEMMA TamperStep ==
  ASSUME ReleaseInv, NEW f \in PackageFiles, Tamper(f)
  PROVE  ReleaseInv'
<1>1. /\ packed' \in Contents /\ tampered' = TRUE /\ said' = "nothing" /\ step' = step /\ step = "none"
      /\ UNCHANGED <<tree, exists, packagings, manifest, manifestFiles, sums, sbom, marker, made, cutOff, earned>>
  BY ReleaseAssumption DEF Tamper, Idle, ByHand, ReleaseInv, ReleaseTypes, Contents, Missing
<1> QED BY <1>1 DEF ReleaseInv, ReleaseTypes, Packaged, Packaging, Summed, Earned, VerifyTells, ReadyIsEarned

LEMMA PackageSteps ==
  ASSUME ReleaseInv, BeginPackage \/ CopyFiles \/ WriteManifest \/ WriteChecksums
  PROVE  ReleaseInv'
<1>1. CASE BeginPackage
  <2>1. Nowhere \in Contents
    BY DEF Nowhere, Contents, Missing
  <2>2. /\ packagings' = packagings + 1 /\ exists' /\ packed' = Nowhere /\ manifest' = 0
        /\ manifestFiles' = Nowhere /\ sums' = {} /\ sbom' = 0 /\ ~marker' /\ made' = Nowhere
        /\ ~cutOff' /\ ~tampered' /\ ~earned' /\ tree' = tree /\ step' = "copy" /\ said' = "nothing"
    BY <1>1 DEF BeginPackage, Begins, Missing
  <2>3. ReleaseTypes'
    BY <2>1, <2>2 DEF ReleaseInv, ReleaseTypes
  <2>4. packagings' # 0
    BY <2>2 DEF ReleaseInv, ReleaseTypes
  <2> QED BY <2>2, <2>3, <2>4 DEF ReleaseInv, Packaged, Packaging, Summed, Earned, VerifyTells, ReadyIsEarned
<1>2. CASE CopyFiles
  <2>1. /\ step = "copy" /\ step' = "manifest" /\ said' = said
        /\ packed' = [f \in PackageFiles |-> IF Copied(f) THEN tree ELSE 0] /\ made' = packed'
        /\ UNCHANGED <<tree, exists, packagings, manifest, manifestFiles, sums, sbom, marker,
                       cutOff, tampered, earned>>
    BY <1>2 DEF CopyFiles, Goes, Missing, Copied
  <2>2. packed' \in Contents /\ \A f \in PackageFiles : packed'[f] # Missing <=> Copied(f)
    BY <2>1 DEF ReleaseInv, ReleaseTypes, Contents, Missing
  <2>3. /\ exists /\ packagings # 0 /\ manifest = 0 /\ ~tampered /\ said = "nothing" /\ sums = {}
        /\ (marker => earned)
    BY <2>1 DEF ReleaseInv, Packaged, Packaging, Summed, Earned
  <2> QED BY <2>1, <2>2, <2>3
          DEF ReleaseInv, ReleaseTypes, Packaged, Packaging, Summed, Earned, VerifyTells, ReadyIsEarned
<1>3. CASE WriteManifest
  <2>1. /\ step = "manifest" /\ step' = "checksums" /\ said' = said
        /\ manifest' = packagings /\ manifestFiles' = packed
        /\ UNCHANGED <<tree, exists, packed, packagings, sums, sbom, marker, made, cutOff, tampered, earned>>
    BY <1>3 DEF WriteManifest, Goes, releaseHistory
  <2> QED BY <2>1 DEF ReleaseInv, ReleaseTypes, Packaged, Packaging, Summed, Earned, VerifyTells, ReadyIsEarned
<1>4. CASE WriteChecksums
  <2>1. /\ step = "checksums" /\ step' = "none" /\ said' = said
        /\ sums' = {<<f, manifestFiles[f]>> : f \in Listed} \cup {<<"manifest", manifest>>}
        /\ UNCHANGED <<tree, exists, packed, packagings, manifest, manifestFiles, sbom, marker,
                       made, cutOff, tampered, earned>>
    BY <1>4 DEF WriteChecksums, Goes, releaseHistory
  <2>2. ReleaseTypes' /\ Packaged' /\ Earned' /\ VerifyTells' /\ ReadyIsEarned'
    BY <2>1 DEF ReleaseInv, ReleaseTypes, Packaged, Packaging, Earned, VerifyTells, ReadyIsEarned
  <2>3. /\ manifest # 0 /\ manifestFiles = made
        /\ Listed = {f \in PackageFiles : Copied(f)}
    BY <2>1 DEF ReleaseInv, Packaged, Listed
  <2>4. Summed'
    <3>1. \A line \in sums' : \/ line = <<"manifest", manifest>>
                             \/ \E f \in PackageFiles : Copied(f) /\ line = <<f, made[f]>>
      BY <2>1, <2>3
    <3>2. <<"code", made["code"]>> \in sums'
      BY <2>1, <2>3, FilesAre
    <3> QED BY <2>1, <2>3, <3>1, <3>2 DEF Packaging, Summed
  <2> QED BY <2>2, <2>4 DEF ReleaseInv
<1> QED BY <1>1, <1>2, <1>3, <1>4

LEMMA SbomSteps ==
  ASSUME ReleaseInv, WriteSbom \/ SumSbom \/ Sign
  PROVE  ReleaseInv'
<1>1. CASE WriteSbom
  <2>1. /\ step = "none" /\ step' = "sumSbom" /\ said' = "nothing" /\ sbom' = tree
        /\ UNCHANGED <<tree, exists, packed, packagings, manifest, manifestFiles, sums, marker,
                       made, cutOff, tampered, earned>>
    BY <1>1 DEF WriteSbom, Begins, releaseHistory
  <2> QED BY <2>1 DEF ReleaseInv, ReleaseTypes, Packaged, Packaging, Summed, Earned, VerifyTells, ReadyIsEarned
<1>2. CASE SumSbom
  <2>1. /\ step = "sumSbom" /\ step' = "none" /\ said' = said
        /\ sums' = {line \in sums : line[1] # "sbom"} \cup {<<"sbom", sbom>>}
        /\ UNCHANGED <<tree, exists, packed, packagings, manifest, manifestFiles, sbom, marker,
                       made, cutOff, tampered, earned>>
    BY <1>2 DEF SumSbom, OtherLines, Goes, releaseHistory
  <2>2. ReleaseTypes' /\ Packaged' /\ Earned' /\ VerifyTells' /\ ReadyIsEarned'
    BY <2>1 DEF ReleaseInv, ReleaseTypes, Packaged, Packaging, Earned, VerifyTells, ReadyIsEarned
  <2>3. Summed'
    <3>1. \A line \in sums' :
            \/ line[1] = "sbom" /\ line[2] = sbom
            \/ manifest # 0 /\ line = <<"manifest", manifest>>
            \/ manifest # 0 /\ \E f \in PackageFiles : Copied(f) /\ line = <<f, made[f]>>
      BY <2>1 DEF ReleaseInv, Summed
    <3>2. manifest # 0 /\ ~cutOff => <<"code", made["code"]>> \in sums'
      BY <2>1 DEF ReleaseInv, Summed
    <3> QED BY <2>1, <3>1, <3>2 DEF Packaging, Summed
  <2> QED BY <2>2, <2>3 DEF ReleaseInv
<1>3. CASE Sign
  <2>1. UNCHANGED <<tree, exists, packed, packagings, manifest, manifestFiles, sums, sbom, marker,
                    step, said, made, cutOff, tampered, earned>>
    BY <1>3 DEF Sign, Idle, releaseHistory
  <2> QED BY <2>1 DEF ReleaseInv, ReleaseTypes, Packaged, Packaging, Summed, Earned, VerifyTells, ReadyIsEarned
<1> QED BY <1>1, <1>2, <1>3

\* A package that was left alone has the hashes of its manifest and of its sums.
LEMMA LeftAlone ==
  ASSUME ReleaseInv, step = "none", manifest # 0, ~tampered, ~cutOff
  PROVE  exists /\ ManifestHolds /\ NoneForbidden /\ SumsHold
<1>1. exists /\ manifestFiles = made /\ packed = made /\ \A f \in PackageFiles : made[f] # Missing <=> Copied(f)
  BY DEF ReleaseInv, Packaged
<1>2. ManifestHolds
  BY <1>1 DEF ManifestHolds, Listed
<1>3. NoneForbidden
  BY <1>1, FilesAre DEF NoneForbidden
<1>4. SumsHold
  <2> SUFFICES ASSUME NEW line \in sums PROVE line[2] = HashOf(line[1])
    BY DEF SumsHold
  <2>1. \/ line[1] = "sbom" /\ line[2] = sbom
        \/ line = <<"manifest", manifest>>
        \/ \E f \in PackageFiles : line = <<f, made[f]>>
    BY DEF ReleaseInv, Summed
  <2>2. HashOf("manifest") = manifest /\ HashOf("sbom") = sbom /\ \A f \in PackageFiles : HashOf(f) = packed[f]
    BY FilesAre DEF HashOf
  <2> QED BY <1>1, <2>1, <2>2
<1> QED BY <1>1, <1>2, <1>3, <1>4

\* What holds of a package that verify.mjs passes.
LEMMA VerifiedIs ==
  ASSUME ReleaseInv, ManifestHolds, NoneForbidden, NEW f \in PackageFiles, packed[f] # made[f]
  PROVE  tampered /\ made[f] = Missing /\ ~LooksForbidden(f)
<1>1. manifest # 0 /\ manifestFiles = made /\ (made[f] # Missing <=> Copied(f)) /\ (~tampered => packed = made)
  BY DEF ManifestHolds, ReleaseInv, Packaged
<1>2. made[f] = Missing
  BY <1>1 DEF ManifestHolds, Listed
<1>3. ~LooksForbidden(f)
  BY <1>2 DEF NoneForbidden
<1> QED BY <1>1, <1>2, <1>3

LEMMA VerifyStep ==
  ASSUME ReleaseInv, NEW requireSbom \in BOOLEAN, Verify(requireSbom)
  PROVE  ReleaseInv'
<1>1. /\ step = "none" /\ step' = step
      /\ UNCHANGED <<tree, exists, packed, packagings, manifest, manifestFiles, summed, sums, sbom, marker,
                     made, cutOff, tampered, earned>>
      /\ said' = IF Verifies(requireSbom) THEN "verified"
                 ELSE IF requireSbom /\ sbom = Missing THEN "nothing" ELSE "notVerified"
  BY DEF Verify, Idle, packageVars, releaseHistory
<1>2. said' = "verified" =>
         \A f \in PackageFiles : packed[f] # made[f] => tampered /\ made[f] = Missing /\ ~LooksForbidden(f)
  BY <1>1, VerifiedIs DEF Verifies
<1>3. said' = "notVerified" => tampered \/ cutOff \/ manifest = 0
  BY <1>1, LeftAlone DEF Verifies
<1>4. said' \notin {"ready", "statusPasses"}
  BY <1>1
<1>5. ReleaseTypes' /\ Packaged' /\ Summed'
  BY <1>1 DEF ReleaseInv, ReleaseTypes, Packaged, Packaging, Summed
<1> QED BY <1>1, <1>2, <1>3, <1>4, <1>5 DEF ReleaseInv, Earned, VerifyTells, ReadyIsEarned

LEMMA StagingSteps ==
  ASSUME ReleaseInv, VerifyStaging \/ WriteStagingMarker
  PROVE  ReleaseInv'
<1>1. /\ UNCHANGED <<tree, packed, packagings, manifest, manifestFiles, sums, sbom, said, made, cutOff, tampered>>
      /\ step \in {"verify", "marker"} /\ step' \in {"marker", "down"} /\ (exists => exists')
      /\ earned' /\ (marker' => earned')
  BY DEF VerifyStaging, WriteStagingMarker, Goes, packageVars, releaseHistory, ReleaseInv, Earned
<1> QED BY <1>1
        DEF ReleaseInv, ReleaseTypes, Packaged, Packaging, Summed, Earned, VerifyTells, ReadyIsEarned

\* A dry run that says "ready" has read the code's sum and compared it.
LEMMA TagDryRunStep ==
  ASSUME ReleaseInv, RunTagDryRun
  PROVE  ReleaseInv'
<1>1. /\ step = "none" /\ step' = step
      /\ UNCHANGED <<tree, exists, packed, packagings, manifest, manifestFiles, summed, sums, sbom, marker,
                     made, cutOff, tampered, earned>>
      /\ said' \in {"refused", "ready", "warned"}
      /\ said' = "ready" => TagChecks /\ marker
  BY DEF RunTagDryRun, Idle, packageVars, releaseHistory
<1>2. said' = "ready" => packed["code"] = made["code"] \/ cutOff
  <2> SUFFICES ASSUME TagChecks, ~cutOff PROVE packed["code"] = made["code"]
    BY <1>1
  <2>1. <<"code", made["code"]>> \in sums
    BY <1>1 DEF TagChecks, ReleaseInv, Summed
  <2>2. \A line \in sums : line[2] = HashOf(line[1])
    BY DEF TagChecks, SumsHold
  <2>3. HashOf("code") = packed["code"]
    BY FilesAre DEF HashOf
  <2> QED BY <2>1, <2>2, <2>3
<1>3. ReleaseTypes' /\ Packaged' /\ Summed'
  BY <1>1 DEF ReleaseInv, ReleaseTypes, Packaged, Packaging, Summed
<1> QED BY <1>1, <1>2, <1>3 DEF ReleaseInv, Earned, VerifyTells, ReadyIsEarned

LEMMA OperatorStatusStep ==
  ASSUME ReleaseInv, RunOperatorStatus
  PROVE  ReleaseInv'
<1>1. /\ step = "none" /\ step' = step
      /\ UNCHANGED <<tree, exists, packed, packagings, manifest, manifestFiles, summed, sums, sbom, marker,
                     made, cutOff, tampered, earned>>
      /\ said' \in {"refused", "warned", "statusPasses"}
      /\ said' = "statusPasses" => marker
  BY DEF RunOperatorStatus, RowsBlocked, Idle, packageVars, releaseHistory
<1>2. ReleaseTypes' /\ Packaged' /\ Summed'
  BY <1>1 DEF ReleaseInv, ReleaseTypes, Packaged, Packaging, Summed
<1> QED BY <1>1, <1>2 DEF ReleaseInv, Earned, VerifyTells, ReadyIsEarned

LEMMA InterruptStep ==
  ASSUME ReleaseInv, Interrupt
  PROVE  ReleaseInv'
<1>1. /\ step \in Packaging \cup {"sumSbom"} /\ step' = "none" /\ cutOff' = TRUE
      /\ UNCHANGED <<tree, exists, packed, packagings, manifest, manifestFiles, sums, sbom, marker, said,
                     made, tampered, earned>>
  BY DEF Interrupt, packageVars, Packaging
<1> QED BY <1>1
        DEF ReleaseInv, ReleaseTypes, Packaged, Packaging, Summed, Earned, VerifyTells, ReadyIsEarned

LEMMA ReleaseStep == ReleaseInv /\ [ReleaseNext]_releaseVars => ReleaseInv'
<1> SUFFICES ASSUME ReleaseInv, [ReleaseNext]_releaseVars PROVE ReleaseInv'
  OBVIOUS
<1>1. CASE UNCHANGED releaseVars
  BY <1>1 DEF releaseVars, packageVars, releaseHistory, ReleaseInv, ReleaseTypes, Packaged, Packaging, Summed,
              Earned, VerifyTells, ReadyIsEarned
<1>2. CASE ReleaseNext
  BY <1>2, AroundSteps, TamperStep, PackageSteps, SbomSteps, VerifyStep, StagingSteps, TagDryRunStep,
     OperatorStatusStep, InterruptStep
  DEF ReleaseNext
<1> QED BY <1>1, <1>2

\* package.mjs and sbom.mjs: a packaged directory holds every file of the tree that
\* forbiddenPackagePatterns does not name and no other, until somebody changes it, and its
\* manifest and checksum list have the lines ReleaseInv says, wherever a tool is cut off.
THEOREM ReleaseInvariant == ReleaseSpec => []ReleaseInv
BY ReleaseStart, ReleaseStep, PTL DEF ReleaseSpec

\* verify.mjs passes only a package that differs from what package.mjs copied by no more
\* than files put in by hand under names it does not look for, and fails none that nobody
\* changed and no tool was cut off in, for any edits, packagings and order of the tools.
THEOREM VerifySafety == ReleaseSpec => []VerifyTells
<1>1. ReleaseInv => VerifyTells
  BY DEF ReleaseInv
<1> QED BY <1>1, ReleaseInvariant, PTL

\* tag-dry-run.mjs and operator-status.mjs: without a warning only for a package that
\* staging was verified after, and whose code is what was packaged.
THEOREM ReadySafety == ReleaseSpec => []ReadyIsEarned
<1>1. ReleaseInv => ReadyIsEarned
  BY DEF ReleaseInv
<1> QED BY <1>1, ReleaseInvariant, PTL

-----------------------------------------------------------------------------
(* The onboarding wizard.                                                  *)

\* The calls that may take the wizard to another step.
StepCalls == Moving \cup {"load", "connect"}

IsCall(c) ==
    c = [n |-> c.n, does |-> c.does, on |-> c.on, models |-> c.models, stage |-> c.stage,
         completed |-> c.completed, state |-> c.state, read |-> c.read, scope |-> c.scope]

\* A call of the page that is shown.
CallOK(c) ==
    /\ IsCall(c)
    /\ c.does \in StepCalls \cup {"validate", "model", "key", "test"}
    /\ c.does \notin {"load", "step", "skip"} => standing # "none"
    /\ c.does = "step" => c.on \in StepIds
    /\ c.state.recommended \in StepIds \cup {Done}

\* What a choice of a model sends; that it stands until another save overtakes it; and
\* what it reads back.
ModelOK(c) ==
    c.does = "model" =>
        /\ c.models.default = {c.on} /\ c.on \in c.models.enabled
        /\ c.stage = "stored" /\ c.n \notin savedOver =>
              hasPrefs /\ defaultPrefs = {c.on} /\ c.on \in enabledPrefs
        /\ c.stage = "done" =>
              /\ Cardinality(c.read.default) = 1
              /\ c.n \in savedOver \/ c.on \in c.read.enabled \cap c.read.default

\* What a call about the step has made of the stored step, and what it read there.
Agrees(c) ==
    /\ c.does = "step" => /\ currentStep = c.on /\ chosen = c.on
                          /\ c.stage = "done" => lastStep = c.on
    /\ c.does = "skip" /\ c.stage = "done" => lastStep = Skipped
    /\ c.does = "complete" /\ c.stage = "done" => lastStep = Done
    /\ c.does \in {"load", "connect"} /\ c.stage \in {"statusRead", "done"} =>
          c.state.lastStep = lastStep /\ (lastStep = Done => c.state.recommended = Done)
    /\ c.does = "load" => standing = "none"

\* The page is at the step that is stored.
AtStored ==
    /\ lastStep \in StepIds => currentStep = lastStep
    /\ lastStep = Done => currentStep = Finish

StepsAgree ==
    /\ \A c, d \in wizardCalls : c.does \in StepCalls /\ d.does \in StepCalls => c = d
    /\ \A c \in wizardCalls : Agrees(c)
    /\ (\A c \in wizardCalls : c.does = "step" => c.stage = "done") =>
          (lastStep \in StepIds => lastStep = chosen)
    /\ (\A c \in wizardCalls : c.does \notin Moving \cup {"load"}) /\ standing # "none" => AtStored

\* No list that is stored has two defaults.
DefaultStored == hasPrefs => defaultPrefs = {} \/ \E d : defaultPrefs = {d}

\* The inductive invariant.
WizardInv ==
    /\ lastStep \in StepIds \cup {NoStep, Skipped, Done} /\ currentStep \in StepIds
    /\ lastStep = Done => completedAt
    /\ DefaultStored
    /\ \A c \in wizardCalls : CallOK(c) /\ ModelOK(c)
    /\ ~crossed => StepsAgree

\* Names of steps and of calls.
LEMMA NamesAre ==
  /\ Moving = {"step", "skip", "complete"} /\ StepCalls = {"step", "skip", "complete", "load", "connect"}
  /\ NoStep \notin StepIds /\ Skipped \notin StepIds /\ Done \notin StepIds
  /\ Done # NoStep /\ Done # Skipped /\ NoStep # Skipped
  /\ Welcome \in StepIds /\ Finish \in StepIds
BY DEF Moving, StepCalls, StepIds, NoStep, Skipped, Done, Welcome, Finish

\* A new call.
LEMMA CallIs ==
  ASSUME NEW does, NEW on, NEW models, NEW d, d = WizardCall(does, on, models)
  PROVE  /\ IsCall(d) /\ d.does = does /\ d.on = on /\ d.models = models /\ d.stage = "sent"
         /\ d.state.recommended = Done
BY DEF WizardCall, IsCall

\* One default, whether it is stored or picked.
LEMMA OneDefault == WizardInv => Cardinality(DefaultModels) = 1
<1> SUFFICES ASSUME WizardInv PROVE Cardinality(DefaultModels) = 1
  OBVIOUS
<1>1. \E m : DefaultModels = {m}
  BY DEF DefaultModels, PickDefault, WizardInv, DefaultStored
<1> QED BY <1>1, FS_Singleton

\* What a choice made of the models is as it was when the models are.
LEMMA ModelKept ==
  ASSUME NEW c, ModelOK(c), UNCHANGED <<hasPrefs, enabledPrefs, defaultPrefs, savedOver>>
  PROVE  ModelOK(c)'
BY DEF ModelOK

\* A call that is no choice of a model.
LEMMA NoModelOK ==
  ASSUME NEW c, c.does # "model"
  PROVE  ModelOK(c) /\ ModelOK(c)'
BY DEF ModelOK

LEMMA WizardStart == OnboardingInit => WizardInv
BY NamesAre DEF OnboardingInit, WizardInv, DefaultStored, StepsAgree, AtStored

\* The page opens with a load and no other call.
LEMMA OpenWizardStep ==
  ASSUME WizardInv, OpenWizard
  PROVE  WizardInv'
<1> PICK d : d = WizardCall("load", 0, NoModels)
  OBVIOUS
<1>1. /\ wizardCalls = {} /\ wizardCalls' = {d} /\ standing' = "none" /\ currentStep' = Welcome
      /\ UNCHANGED <<lastStep, completedAt, hasPrefs, enabledPrefs, defaultPrefs, savedOver, chosen, crossed>>
  BY DEF OpenWizard, Places, serverVars, settings, modelVars
<1>2. IsCall(d) /\ d.does = "load" /\ d.stage = "sent" /\ d.state.recommended = Done
  BY CallIs
<1>3. \A c \in wizardCalls' : CallOK(c)' /\ ModelOK(c)'
  BY <1>1, <1>2, NamesAre, NoModelOK DEF CallOK
<1>4. ~crossed' => StepsAgree'
  BY <1>1, <1>2, NamesAre DEF WizardInv, StepsAgree, Agrees
<1> QED BY <1>1, <1>3, <1>4, NamesAre DEF WizardInv, DefaultStored

LEMMA ElsewhereStep ==
  ASSUME WizardInv, Elsewhere
  PROVE  WizardInv'
<1>1. /\ UNCHANGED <<lastStep, completedAt, standing, currentStep, chosen, crossed, wizardCalls>>
  BY DEF Elsewhere, settings, stepVars, copyVars
<1>2. DefaultStored' /\ \A c \in wizardCalls : ModelOK(c)'
  <2>1. CASE UNCHANGED <<hasPrefs, enabledPrefs, defaultPrefs, savedOver>>
    BY <2>1, ModelKept DEF WizardInv, DefaultStored
  <2>2. CASE /\ defaultPrefs' \in {{}} \cup {{m} : m \in Models}
             /\ SavesOver(wizardCalls)
    <3>1. \A c \in wizardCalls :
            /\ c.n \in savedOver => c.n \in savedOver'
            /\ c.does = "model" /\ c.stage = "stored" => c.n \in savedOver'
      BY <2>2 DEF SavesOver
    <3>2. \A c \in wizardCalls : ModelOK(c)'
      BY <3>1 DEF WizardInv, ModelOK
    <3> QED BY <2>2, <3>2 DEF DefaultStored
  <2> QED BY <2>1, <2>2 DEF Elsewhere, modelVars
<1> QED BY <1>1, <1>2 DEF WizardInv, CallOK, StepsAgree, Agrees, AtStored

\* A call about the step is placed: it is the only one, or the calls cross.
LEMMA MovingPlaced ==
  ASSUME WizardInv, NEW d, IsCall(d), d.does \in Moving \cup {"connect"}, d.stage = "sent",
         d.state.recommended = Done,
         wizardCalls' = wizardCalls \cup {d}, crossed' = Crosses,
         d.does # "step" => UNCHANGED <<currentStep, chosen>>,
         d.does = "step" => d.on \in StepIds /\ currentStep' = d.on /\ chosen' = d.on,
         d.does \in {"complete", "connect"} => standing # "none",
         UNCHANGED <<lastStep, completedAt, hasPrefs, enabledPrefs, defaultPrefs, savedOver, standing>>
  PROVE  WizardInv'
<1>1. \A c \in wizardCalls' : CallOK(c)'
  BY NamesAre DEF WizardInv, CallOK
<1>3. \A c \in wizardCalls' : ModelOK(c)'
  BY NamesAre, NoModelOK, ModelKept DEF WizardInv
<1>2. ASSUME ~crossed' PROVE StepsAgree'
  <2>1. ~crossed /\ \A c \in wizardCalls : c.does \notin StepCalls
    BY <1>2 DEF Crosses, PendingOf, StepCalls
  <2>2. StepsAgree
    BY <2>1 DEF WizardInv
  <2>3. \A c \in wizardCalls' : c = d \/ (c \in wizardCalls /\ c.does \notin StepCalls)
    BY <2>1
  <2>4. \A c \in wizardCalls' : Agrees(c)'
    BY <2>3, NamesAre DEF Agrees
  <2>5. (\A c \in wizardCalls' : c.does = "step" => c.stage = "done") =>
            (lastStep' \in StepIds => lastStep' = chosen')
    BY <2>1, <2>2, NamesAre DEF StepsAgree
  <2>6. (\A c \in wizardCalls' : c.does \notin Moving \cup {"load"}) /\ standing' # "none" => AtStored'
    BY <2>1, <2>2, NamesAre DEF StepsAgree, AtStored
  <2> QED BY <2>3, <2>4, <2>5, <2>6 DEF StepsAgree
<1> QED BY <1>1, <1>2, <1>3, NamesAre DEF WizardInv, DefaultStored

LEMMA MovingSteps ==
  ASSUME WizardInv,
         \/ \E s \in NamedSteps : GoToStep(s)
         \/ NextStep \/ HandleSkip \/ HandleComplete
         \/ \E m \in Models : HandleConnect(m)
  PROVE  WizardInv'
<1>1. ASSUME NEW s \in StepIds, GoToStep(s)
      PROVE  WizardInv'
  <2> PICK d : d = WizardCall("step", s, NoModels)
    OBVIOUS
  <2>1. IsCall(d) /\ d.does = "step" /\ d.on = s /\ d.stage = "sent" /\ d.state.recommended = Done
    BY CallIs
  <2>2. /\ wizardCalls' = wizardCalls \cup {d} /\ crossed' = Crosses /\ currentStep' = s /\ chosen' = s
        /\ UNCHANGED <<lastStep, completedAt, hasPrefs, enabledPrefs, defaultPrefs, savedOver, standing>>
    BY <1>1 DEF GoToStep, Places, serverVars, settings, modelVars, copyVars
  <2> QED BY <2>1, <2>2, MovingPlaced, NamesAre
<1>2. CASE \E s \in NamedSteps : GoToStep(s)
  BY <1>1, <1>2, WizardAssumption
<1>3. CASE NextStep
  <2>1. currentStep + 1 \in StepIds /\ GoToStep(currentStep + 1)
    BY <1>3 DEF NextStep, WizardInv, StepIds, Finish
  <2>2. PICK s \in StepIds : GoToStep(s)
    BY <2>1
  <2> QED BY <1>1, <2>2
<1>4. CASE HandleSkip
  <2> PICK d : d = WizardCall("skip", 0, NoModels)
    OBVIOUS
  <2>1. IsCall(d) /\ d.does = "skip" /\ d.stage = "sent" /\ d.state.recommended = Done
    BY CallIs
  <2>2. /\ wizardCalls' = wizardCalls \cup {d} /\ crossed' = Crosses
        /\ UNCHANGED <<lastStep, completedAt, hasPrefs, enabledPrefs, defaultPrefs, savedOver, standing, currentStep, chosen>>
    BY <1>4 DEF HandleSkip, Places, serverVars, settings, modelVars, copyVars
  <2> QED BY <2>1, <2>2, MovingPlaced, NamesAre
<1>5. CASE HandleComplete
  <2> PICK d : d = WizardCall("complete", 0, NoModels)
    OBVIOUS
  <2>1. IsCall(d) /\ d.does = "complete" /\ d.stage = "sent" /\ d.state.recommended = Done
    BY CallIs
  <2>2. /\ wizardCalls' = wizardCalls \cup {d} /\ crossed' = Crosses /\ standing # "none"
        /\ UNCHANGED <<lastStep, completedAt, hasPrefs, enabledPrefs, defaultPrefs, savedOver, standing, currentStep, chosen>>
    BY <1>5 DEF HandleComplete, Visible, Places, serverVars, settings, modelVars, copyVars
  <2> QED BY <2>1, <2>2, MovingPlaced, NamesAre
<1>6. ASSUME NEW m \in Models, HandleConnect(m)
      PROVE  WizardInv'
  <2> PICK d : d = WizardCall("connect", m, NoModels)
    OBVIOUS
  <2>1. IsCall(d) /\ d.does = "connect" /\ d.stage = "sent" /\ d.state.recommended = Done
    BY CallIs
  <2>2. /\ wizardCalls' = wizardCalls \cup {d} /\ crossed' = Crosses /\ standing # "none"
        /\ UNCHANGED <<lastStep, completedAt, hasPrefs, enabledPrefs, defaultPrefs, savedOver, standing, currentStep, chosen>>
    BY <1>6 DEF HandleConnect, Visible, Places, serverVars, settings, modelVars, copyVars
  <2> QED BY <2>1, <2>2, MovingPlaced, NamesAre
<1> QED BY <1>2, <1>3, <1>4, <1>5, <1>6

\* The other handlers send calls that do not concern the step.
LEMMA OtherPlaced ==
  ASSUME WizardInv, NEW d, CallOK(d), ModelOK(d), d.does \notin StepCalls, wizardCalls' = wizardCalls \cup {d},
         UNCHANGED <<lastStep, completedAt, hasPrefs, enabledPrefs, defaultPrefs, savedOver, standing, currentStep, chosen, crossed>>
  PROVE  WizardInv'
<1>1. \A c \in wizardCalls' : CallOK(c)' /\ ModelOK(c)'
  BY ModelKept DEF WizardInv, CallOK
<1>2. ASSUME ~crossed PROVE StepsAgree'
  <2>1. StepsAgree
    BY <1>2 DEF WizardInv
  <2>2. \A c \in wizardCalls' : Agrees(c)'
    BY <2>1, NamesAre DEF StepsAgree, Agrees
  <2>3. AtStored' <=> AtStored
    BY DEF AtStored
  <2> QED BY <2>1, <2>2, <2>3, NamesAre DEF StepsAgree
<1> QED BY <1>1, <1>2 DEF WizardInv, DefaultStored

LEMMA OtherHandlers ==
  ASSUME WizardInv,
         \/ \E m \in Models : HandleValidate(m) \/ HandleDefaultModel(m)
         \/ HandleCreateApiKey \/ HideKey \/ HandleTestModels
  PROVE  WizardInv'
<1>1. ASSUME NEW m \in Models, HandleValidate(m)
      PROVE  WizardInv'
  <2> PICK d : d = WizardCall("validate", m, NoModels)
    OBVIOUS
  <2>1. IsCall(d) /\ d.does = "validate" /\ d.state.recommended = Done
    BY CallIs
  <2>2. /\ wizardCalls' = wizardCalls \cup {d} /\ standing # "none"
        /\ UNCHANGED <<lastStep, completedAt, hasPrefs, enabledPrefs, defaultPrefs, savedOver, standing, currentStep, chosen, crossed>>
    BY <1>1 DEF HandleValidate, Visible, Places, serverVars, settings, modelVars, copyVars, stepVars
  <2>3. CallOK(d) /\ ModelOK(d) /\ d.does \notin StepCalls
    BY <2>1, <2>2, NamesAre, NoModelOK DEF CallOK
  <2> QED BY <2>2, <2>3, OtherPlaced
<1>2. ASSUME NEW m \in Models, HandleDefaultModel(m)
      PROVE  WizardInv'
  <2> PICK d : d = WizardCall("model", m, ChooseDefault(m))
    OBVIOUS
  <2>1. IsCall(d) /\ d.does = "model" /\ d.on = m /\ d.models = ChooseDefault(m) /\ d.stage = "sent" /\ d.state.recommended = Done
    BY CallIs
  <2>2. /\ wizardCalls' = wizardCalls \cup {d} /\ standing # "none"
        /\ UNCHANGED <<lastStep, completedAt, hasPrefs, enabledPrefs, defaultPrefs, savedOver, standing, currentStep, chosen, crossed>>
    BY <1>2 DEF HandleDefaultModel, Visible, Places, serverVars, settings, modelVars, copyVars, stepVars
  <2>3. d.models.default = {m} /\ m \in d.models.enabled
    BY <2>1 DEF ChooseDefault
  <2>4. CallOK(d) /\ ModelOK(d) /\ d.does \notin StepCalls
    BY <2>1, <2>2, <2>3, NamesAre DEF CallOK, ModelOK
  <2> QED BY <2>2, <2>4, OtherPlaced
<1>3. CASE HandleCreateApiKey
  <2> PICK d : d = [WizardCall("key", 0, NoModels) EXCEPT !.scope = KeyScope]
    OBVIOUS
  <2>1. IsCall(d) /\ d.does = "key" /\ d.state.recommended = Done
    BY DEF WizardCall, IsCall
  <2>2. /\ wizardCalls' = wizardCalls \cup {d} /\ standing # "none"
        /\ UNCHANGED <<lastStep, completedAt, hasPrefs, enabledPrefs, defaultPrefs, savedOver, standing, currentStep, chosen, crossed>>
    BY <1>3 DEF HandleCreateApiKey, Visible, Places, serverVars, settings, modelVars, copyVars, stepVars
  <2>3. CallOK(d) /\ d.does \notin StepCalls
    BY <2>1, <2>2, NamesAre DEF CallOK
  <2>4. ModelOK(d)
    BY <2>1, NoModelOK
  <2> QED BY <2>2, <2>3, <2>4, OtherPlaced
<1>4. CASE HandleTestModels
  <2> PICK d : d = WizardCall("test", 0, NoModels)
    OBVIOUS
  <2>1. IsCall(d) /\ d.does = "test" /\ d.state.recommended = Done
    BY CallIs
  <2>2. /\ wizardCalls' = wizardCalls \cup {d} /\ standing # "none"
        /\ UNCHANGED <<lastStep, completedAt, hasPrefs, enabledPrefs, defaultPrefs, savedOver, standing, currentStep, chosen, crossed>>
    BY <1>4 DEF HandleTestModels, Visible, Places, serverVars, settings, modelVars, copyVars, stepVars
  <2>3. CallOK(d) /\ ModelOK(d) /\ d.does \notin StepCalls
    BY <2>1, <2>2, NamesAre, NoModelOK DEF CallOK
  <2> QED BY <2>2, <2>3, OtherPlaced
<1>5. CASE HideKey
  <2>1. UNCHANGED <<wizardCalls, lastStep, completedAt, hasPrefs, enabledPrefs, defaultPrefs, savedOver, standing, currentStep, chosen,
                    crossed>>
    BY <1>5 DEF HideKey, serverVars, settings, modelVars, stepVars
  <2> QED BY <2>1, ModelKept DEF WizardInv, DefaultStored, CallOK, StepsAgree, Agrees, AtStored
<1> QED BY <1>1, <1>2, <1>3, <1>4, <1>5

\* The API answers a call, d in place of c, and stores no step.
LEMMA AnsweredApart ==
  ASSUME WizardInv, NEW c \in wizardCalls, NEW d, CallOK(d), d.does = c.does, d.on = c.on,
         wizardCalls' = (wizardCalls \ {c}) \cup {d},
         d.does \notin Moving,
         d.does \in {"load", "connect"} /\ d.stage \in {"statusRead", "done"} =>
             \/ c.stage \in {"statusRead", "done"} /\ d.state = c.state
             \/ d.state.lastStep = lastStep /\ (lastStep = Done => d.state.recommended = Done),
         DefaultStored', \A e \in wizardCalls' : ModelOK(e)',
         UNCHANGED <<lastStep, completedAt, standing, currentStep, chosen, crossed>>
  PROVE  WizardInv'
<1>1. \A e \in wizardCalls' : CallOK(e)'
  BY DEF WizardInv, CallOK
<1>2. ASSUME ~crossed PROVE StepsAgree'
  <2>1. StepsAgree
    BY <1>2 DEF WizardInv
  <2>2. Agrees(d)
    BY <2>1, NamesAre DEF StepsAgree, Agrees
  <2>3. \A e \in wizardCalls' : Agrees(e)'
    BY <2>1, <2>2 DEF StepsAgree, Agrees
  <2>4. AtStored' <=> AtStored
    BY DEF AtStored
  <2>5. \A e, f \in wizardCalls' : e.does \in StepCalls /\ f.does \in StepCalls => e = f
    BY <2>1 DEF StepsAgree
  <2>6. (\A e \in wizardCalls' : e.does = "step" => e.stage = "done") =>
           \A e \in wizardCalls : e.does = "step" => e.stage = "done"
    BY NamesAre
  <2>7. (\A e \in wizardCalls' : e.does \notin Moving \cup {"load"}) =>
           \A e \in wizardCalls : e.does \notin Moving \cup {"load"}
    BY NamesAre
  <2> QED BY <2>1, <2>3, <2>4, <2>5, <2>6, <2>7 DEF StepsAgree
<1> QED BY <1>1, <1>2 DEF WizardInv

\* The API stores the step, of the only call about it or of one of several that cross.
LEMMA StoredStep ==
  ASSUME WizardInv, NEW c \in wizardCalls, NEW d, CallOK(d), d.does = c.does, d.on = c.on, d.stage = "done",
         wizardCalls' = (wizardCalls \ {c}) \cup {d},
         \/ d.does = "step" /\ lastStep' = d.on
         \/ d.does = "skip" /\ lastStep' = Skipped
         \/ d.does = "complete" /\ lastStep' = Done /\ completedAt',
         completedAt => completedAt',
         UNCHANGED <<hasPrefs, enabledPrefs, defaultPrefs, savedOver, standing, currentStep, chosen, crossed>>
  PROVE  WizardInv'
<1>1. \A e \in wizardCalls' : CallOK(e)'
  BY DEF WizardInv, CallOK
<1>2. d.does = "step" => d.on \in StepIds
  BY DEF CallOK
<1>3. lastStep' \in StepIds \cup {NoStep, Skipped, Done} /\ (lastStep' = Done => completedAt')
  BY <1>2, NamesAre
<1>5. \A e \in wizardCalls' : ModelOK(e)'
  BY NoModelOK, ModelKept DEF WizardInv
<1>4. ASSUME ~crossed PROVE StepsAgree'
  <2>1. StepsAgree
    BY <1>4 DEF WizardInv
  <2>2. \A e \in wizardCalls : e # c => e.does \notin StepCalls
    BY <2>1, NamesAre DEF StepsAgree
  <2>3. d.does = "step" => currentStep = d.on /\ chosen = d.on
    BY <2>1 DEF StepsAgree, Agrees
  <2>4. Agrees(d)'
    BY <2>3, NamesAre DEF Agrees
  <2>5. \A e \in wizardCalls' : e = d \/ (e \in wizardCalls /\ e.does \notin StepCalls)
    BY <2>2
  <2>6. \A e \in wizardCalls' : Agrees(e)'
    BY <2>4, <2>5, NamesAre DEF Agrees
  <2>7. lastStep' \in StepIds => lastStep' = chosen
    BY <2>3, NamesAre
  <2> QED BY <2>5, <2>6, <2>7, NamesAre DEF StepsAgree
<1> QED BY <1>1, <1>3, <1>4, <1>5 DEF WizardInv, DefaultStored

LEMMA StoringSteps ==
  ASSUME WizardInv, NEW c \in wizardCalls, StoreStep(c) \/ MarkOnboardingComplete(c) \/ SkipOnboarding(c)
  PROVE  WizardInv'
<1>0. CallOK(c) /\ IsCall(c)
  BY DEF WizardInv, CallOK
<1>1. CallOK(c)
  BY <1>0
<1>2. PICK b : wizardCalls' = (wizardCalls \ {c}) \cup {[c EXCEPT !.stage = "done", !.completed = b]}
  BY DEF StoreStep, MarkOnboardingComplete, SkipOnboarding, Turns
<1> PICK d : d = [c EXCEPT !.stage = "done", !.completed = b]
  OBVIOUS
<1>3. /\ IsCall(d) /\ d.stage = "done" /\ d.does = c.does /\ d.on = c.on /\ d.models = c.models /\ d.state = c.state
    BY <1>0 DEF IsCall
<1>4. /\ UNCHANGED <<hasPrefs, enabledPrefs, defaultPrefs, savedOver, standing, currentStep, chosen, crossed>>
      /\ completedAt => completedAt'
      /\ \/ d.does = "step" /\ lastStep' = d.on
         \/ d.does = "skip" /\ lastStep' = Skipped
         \/ d.does = "complete" /\ lastStep' = Done /\ completedAt'
  <2>1. CASE StoreStep(c)
    BY <1>3, <2>1 DEF StoreStep, modelVars, pageVars, stepVars, copyVars
  <2>2. CASE MarkOnboardingComplete(c)
    BY <1>3, <2>2 DEF MarkOnboardingComplete, modelVars, pageVars, stepVars, copyVars
  <2>3. CASE SkipOnboarding(c)
    BY <1>3, <2>3 DEF SkipOnboarding, modelVars, pageVars, stepVars, copyVars
  <2> QED BY <2>1, <2>2, <2>3
<1>5. CallOK(d)
  BY <1>1, <1>3, <1>4 DEF CallOK
<1> QED BY <1>2, <1>3, <1>4, <1>5, StoredStep

LEMMA OtherAnswers ==
  ASSUME WizardInv, NEW c \in wizardCalls,
         SavePreferences(c) \/ AnswerPreferences(c) \/ CreateKeyFor(c) \/ OtherCall(c)
  PROVE  WizardInv'
<1>0. CallOK(c) /\ IsCall(c)
  BY DEF WizardInv, CallOK
<1>1. CallOK(c)
  BY <1>0
<1>2. CASE SavePreferences(c)
  <2> PICK d : d = [c EXCEPT !.stage = "stored"]
    OBVIOUS
  <2>1. /\ IsCall(d) /\ d.n = c.n /\ d.stage = "stored" /\ d.does = c.does /\ d.on = c.on
        /\ d.models = c.models /\ d.state = c.state
      BY <1>0 DEF IsCall
  <2>2. /\ c.does = "model" /\ wizardCalls' = (wizardCalls \ {c}) \cup {d}
        /\ enabledPrefs' = c.models.enabled /\ defaultPrefs' = c.models.default /\ hasPrefs'
        /\ SavesOver(wizardCalls \ {c})
        /\ UNCHANGED <<lastStep, completedAt, standing, currentStep, chosen, crossed>>
    BY <1>2 DEF SavePreferences, settings, pageVars, stepVars, copyVars
  <2>3. CallOK(d)
    BY <1>1, <2>1, <2>2, NamesAre DEF CallOK
  <2>4. defaultPrefs' = {c.on} /\ c.on \in enabledPrefs'
    BY <2>2 DEF WizardInv, ModelOK
  <2>5. ModelOK(d)'
    BY <2>1, <2>2, <2>4 DEF WizardInv, ModelOK
  <2>6. ASSUME NEW e \in wizardCalls, e # c PROVE ModelOK(e)'
    <3>1. /\ e.n \in savedOver => e.n \in savedOver'
          /\ e.does = "model" /\ e.stage = "stored" => e.n \in savedOver'
      BY <2>2, <2>6 DEF SavesOver
    <3> QED BY <3>1 DEF WizardInv, ModelOK
  <2>7. DefaultStored' /\ \A e \in wizardCalls' : ModelOK(e)'
    BY <2>2, <2>4, <2>5, <2>6 DEF DefaultStored
  <2>8. d.does \notin Moving /\ ~(d.does \in {"load", "connect"} /\ d.stage \in {"statusRead", "done"})
    BY <2>1, <2>2, NamesAre
  <2> QED BY <2>1, <2>2, <2>3, <2>7, <2>8, AnsweredApart
<1>4. CASE AnswerPreferences(c)
  <2> PICK d : d = [c EXCEPT !.stage = "done", !.completed = completedAt, !.read = ModelPreferences]
    OBVIOUS
  <2>1. /\ IsCall(d) /\ d.n = c.n /\ d.stage = "done" /\ d.does = c.does /\ d.on = c.on
        /\ d.models = c.models /\ d.state = c.state /\ d.read = ModelPreferences
      BY <1>0 DEF IsCall
  <2>2. /\ c.does = "model" /\ c.stage = "stored" /\ wizardCalls' = (wizardCalls \ {c}) \cup {d}
        /\ UNCHANGED <<lastStep, completedAt, hasPrefs, enabledPrefs, defaultPrefs, savedOver, standing,
                       currentStep, chosen, crossed>>
    BY <1>4 DEF AnswerPreferences, serverVars, settings, modelVars, pageVars, stepVars, copyVars
  <2>3. CallOK(d)
    BY <1>1, <2>1, <2>2, NamesAre DEF CallOK
  <2>4. /\ Cardinality(ModelPreferences.default) = 1
        /\ c.n \notin savedOver => c.on \in ModelPreferences.enabled \cap ModelPreferences.default
    <3>1. ModelPreferences.default = DefaultModels /\ ModelPreferences.enabled = EnabledModels
      BY DEF ModelPreferences
    <3>2. c.n \notin savedOver => hasPrefs /\ defaultPrefs = {c.on} /\ c.on \in enabledPrefs
      BY <2>2 DEF WizardInv, ModelOK
    <3>3. c.n \notin savedOver => c.on \in EnabledModels \cap DefaultModels
      BY <3>2 DEF EnabledModels, DefaultModels
    <3> QED BY <3>1, <3>3, OneDefault
  <2>5. ModelOK(d)
    BY <2>1, <2>4 DEF WizardInv, ModelOK
  <2>6. DefaultStored' /\ \A e \in wizardCalls' : ModelOK(e)'
    BY <2>2, <2>5, ModelKept DEF WizardInv, DefaultStored
  <2>7. d.does \notin Moving /\ d.does \notin {"load", "connect"}
    BY <2>1, <2>2, NamesAre
  <2> QED BY <2>1, <2>2, <2>3, <2>6, <2>7, AnsweredApart
<1>3. CASE CreateKeyFor(c) \/ OtherCall(c)
  <2>1. PICK s, b :
          /\ wizardCalls' = (wizardCalls \ {c}) \cup {[c EXCEPT !.stage = s, !.completed = b]}
          /\ c.does = "connect" => s = "reload"
    BY <1>3 DEF CreateKeyFor, OtherCall, Turns
  <2> PICK d : d = [c EXCEPT !.stage = s, !.completed = b]
    OBVIOUS
  <2>2. /\ IsCall(d) /\ d.stage = s /\ d.does = c.does /\ d.on = c.on /\ d.models = c.models /\ d.state = c.state
      BY <1>0 DEF IsCall
  <2>3. /\ c.does \in {"key", "connect", "validate", "test"}
        /\ UNCHANGED <<lastStep, completedAt, hasPrefs, enabledPrefs, defaultPrefs, savedOver, standing, currentStep, chosen, crossed>>
    BY <1>3 DEF CreateKeyFor, OtherCall, settings, modelVars, pageVars, stepVars, copyVars
  <2>4. CallOK(d) /\ d.does \notin Moving /\ d.does # "load"
    BY <1>1, <2>2, <2>3, NamesAre DEF CallOK
  <2>5. ~(d.does = "connect" /\ d.stage \in {"statusRead", "done"})
    BY <2>1, <2>2
  <2>6. DefaultStored'
    BY <2>3 DEF WizardInv, DefaultStored
  <2>7. \A e \in wizardCalls' : ModelOK(e)'
    <3>1. ModelOK(d)'
      BY <2>2, <2>3, NoModelOK
    <3>2. \A e \in wizardCalls : ModelOK(e)'
      BY <2>3, ModelKept DEF WizardInv
    <3> QED BY <2>1, <3>1, <3>2
  <2> QED BY <2>1, <2>2, <2>3, <2>4, <2>5, <2>6, <2>7, AnsweredApart
<1> QED BY <1>2, <1>3, <1>4

\* loadAll reads the step as it is stored.
LEMMA LoadingSteps ==
  ASSUME WizardInv, NEW c \in wizardCalls, ReadStatus(c) \/ ReadModels(c)
  PROVE  WizardInv'
<1>0. IsCall(c)
  BY DEF WizardInv, CallOK
<1>1. /\ CallOK(c) /\ c.does \in {"load", "connect"}
      /\ UNCHANGED <<lastStep, completedAt, hasPrefs, enabledPrefs, defaultPrefs, savedOver, standing, currentStep, chosen, crossed>>
  BY DEF WizardInv, ReadStatus, ReadModels, Reading, serverVars, settings, modelVars, pageVars, stepVars, copyVars
<1>4. DefaultStored' /\ \A e \in wizardCalls : ModelOK(e)'
  BY <1>1, ModelKept DEF WizardInv, DefaultStored
<1>2. CASE ReadStatus(c)
  <2> PICK s : s = IF c.stage = "modelsRead" THEN "done" ELSE "statusRead"
    OBVIOUS
  <2> PICK d : d = [c EXCEPT !.state = OnboardingStatus, !.completed = completedAt, !.stage = s]
    OBVIOUS
  <2>1. wizardCalls' = (wizardCalls \ {c}) \cup {d}
    BY <1>2 DEF ReadStatus
  <2>2. /\ IsCall(d) /\ d.does = c.does /\ d.on = c.on /\ d.models = c.models /\ d.state = OnboardingStatus
      BY <1>0 DEF IsCall
  <2>3. /\ d.state.lastStep = lastStep /\ (lastStep = Done => d.state.recommended = Done)
        /\ d.state.recommended \in StepIds \cup {Done}
    <3>1. RecommendedNextStep \in StepIds
      BY DEF RecommendedNextStep, StepIds, ConnectProvider, ChooseModel, CreateApiKey, TestEndpoint, Backup
    <3> QED BY <2>2, <3>1 DEF OnboardingStatus, WizardInv
  <2>4. CallOK(d) /\ d.does \notin Moving
    BY <1>1, <2>2, <2>3, NamesAre DEF CallOK
  <2>5. \A e \in wizardCalls' : ModelOK(e)'
    BY <1>1, <1>4, <2>1, <2>2, NoModelOK
  <2> QED BY <1>1, <2>1, <2>2, <2>3, <2>4, <2>5, <1>4, AnsweredApart
<1>3. CASE ReadModels(c)
  <2> PICK s : s = IF c.stage = "statusRead" THEN "done" ELSE "modelsRead"
    OBVIOUS
  <2> PICK d : d = [c EXCEPT !.read = ModelPreferences, !.stage = s]
    OBVIOUS
  <2>1. wizardCalls' = (wizardCalls \ {c}) \cup {d}
    BY <1>3 DEF ReadModels
  <2>2. /\ IsCall(d) /\ d.does = c.does /\ d.on = c.on /\ d.models = c.models /\ d.state = c.state /\ d.stage = s
      BY <1>0 DEF IsCall
  <2>3. d.stage \in {"statusRead", "done"} => c.stage \in {"statusRead", "done"}
    BY <2>2
  <2>4. CallOK(d) /\ d.does \notin Moving
    BY <1>1, <2>2, <2>3, NamesAre DEF CallOK
  <2>5. \A e \in wizardCalls' : ModelOK(e)'
    BY <1>1, <1>4, <2>1, <2>2, NoModelOK
  <2> QED BY <1>1, <2>1, <2>2, <2>3, <2>4, <2>5, <1>4, AnsweredApart
<1> QED BY <1>2, <1>3

\* The page hears of an answer.
LEMMA ReturnedStep ==
  ASSUME WizardInv, NEW c \in wizardCalls, Returned(c)
  PROVE  WizardInv'
<1>1. /\ c.stage = "done" /\ wizardCalls' = wizardCalls \ {c} /\ standing' # "none"
      /\ UNCHANGED <<lastStep, completedAt, hasPrefs, enabledPrefs, defaultPrefs, savedOver, chosen, crossed>>
      /\ currentStep' = CASE c.does \in {"load", "connect"} -> Resume(c.state)
                          [] c.does \in {"skip", "complete"} -> Finish
                          [] OTHER -> currentStep
  BY DEF Returned, serverVars, settings, modelVars
<1>2. CallOK(c)
  BY DEF WizardInv
<1>3. currentStep' \in StepIds
  BY <1>1, <1>2, NamesAre DEF WizardInv, CallOK, Resume
<1>4. \A e \in wizardCalls' : CallOK(e)' /\ ModelOK(e)'
  BY <1>1, ModelKept DEF WizardInv, CallOK
<1>5. ASSUME ~crossed PROVE StepsAgree'
  <2>1. StepsAgree /\ Agrees(c)
    BY <1>5 DEF WizardInv, StepsAgree
  <2>2. CASE c.does \in StepCalls
    <3>1. \A e \in wizardCalls' : e.does \notin StepCalls
      BY <1>1, <2>1, <2>2 DEF StepsAgree
    <3>2. AtStored'
      <4>1. CASE c.does = "step"
        BY <1>1, <1>2, <2>1, <4>1, NamesAre DEF AtStored, Agrees, CallOK
      <4>2. CASE c.does \in {"skip", "complete"}
        BY <1>1, <2>1, <4>2, NamesAre DEF AtStored, Agrees
      <4>3. CASE c.does \in {"load", "connect"}
        BY <1>1, <2>1, <4>3, NamesAre DEF AtStored, Agrees, Resume
      <4> QED BY <2>2, <4>1, <4>2, <4>3, NamesAre
    <3>3. lastStep' \in StepIds => lastStep' = chosen'
      BY <1>1, <2>1, <2>2, NamesAre DEF StepsAgree
    <3> QED BY <3>1, <3>2, <3>3, NamesAre DEF StepsAgree, Agrees
  <2>3. CASE c.does \notin StepCalls
    <3>1. currentStep' = currentStep /\ standing # "none"
      BY <1>1, <1>2, <2>3, NamesAre DEF CallOK
    <3>2. \A e \in wizardCalls' : Agrees(e)'
      BY <1>1, <2>1, <3>1 DEF StepsAgree, Agrees
    <3> QED BY <1>1, <2>1, <2>3, <3>1, <3>2, NamesAre DEF StepsAgree, AtStored
  <2> QED BY <2>2, <2>3
<1> QED BY <1>1, <1>3, <1>4, <1>5 DEF WizardInv, DefaultStored

\* A call fails: the page stays where it is, and whoever moved knows that calls failed.
LEMMA FailedStep ==
  ASSUME WizardInv, NEW c \in wizardCalls, WizardCallFailed(c)
  PROVE  WizardInv'
<1>1. /\ wizardCalls' = wizardCalls \ {c}
      /\ UNCHANGED <<lastStep, completedAt, hasPrefs, enabledPrefs, defaultPrefs, savedOver, standing, currentStep, chosen>>
      /\ ~crossed' => ~crossed /\ c.does \notin Moving
  BY DEF WizardCallFailed, serverVars, settings, modelVars
<1>2. \A e \in wizardCalls' : CallOK(e)' /\ ModelOK(e)'
  BY <1>1, ModelKept DEF WizardInv, CallOK
<1>3. ASSUME ~crossed' PROVE StepsAgree'
  <2>1. StepsAgree /\ c.does \notin Moving /\ Agrees(c)
    BY <1>1, <1>3 DEF WizardInv, StepsAgree
  <2>2. \A e \in wizardCalls' : Agrees(e)'
    BY <1>1, <2>1 DEF StepsAgree, Agrees
  <2>3. AtStored' <=> AtStored
    BY <1>1 DEF AtStored
  <2>4. (\A e \in wizardCalls' : e.does = "step" => e.stage = "done") =>
           \A e \in wizardCalls : e.does = "step" => e.stage = "done"
    BY <1>1, <2>1, NamesAre
  <2>5. (\A e \in wizardCalls' : e.does \notin Moving \cup {"load"}) /\ standing # "none" =>
           \A e \in wizardCalls : e.does \notin Moving \cup {"load"}
    BY <1>1, <2>1 DEF Agrees
  <2> QED BY <1>1, <2>1, <2>2, <2>3, <2>4, <2>5 DEF StepsAgree
<1> QED BY <1>1, <1>2, <1>3 DEF WizardInv, DefaultStored

LEMMA WizardStep == WizardInv /\ [OnboardingNext]_onboardingVars => WizardInv'
<1> SUFFICES ASSUME WizardInv, [OnboardingNext]_onboardingVars PROVE WizardInv'
  OBVIOUS
<1>1. CASE UNCHANGED onboardingVars
  <2>1. UNCHANGED <<lastStep, completedAt, hasPrefs, enabledPrefs, defaultPrefs, savedOver, standing, currentStep, chosen, crossed,
                    wizardCalls>>
    BY <1>1 DEF onboardingVars, serverVars, settings, modelVars, stepVars, copyVars
  <2> QED BY <2>1, ModelKept DEF WizardInv, DefaultStored, CallOK, StepsAgree, Agrees, AtStored
<1>2. CASE OnboardingNext
  BY <1>2, OpenWizardStep, ElsewhereStep, MovingSteps, OtherHandlers, StoringSteps, OtherAnswers,
     LoadingSteps, ReturnedStep, FailedStep
  DEF OnboardingNext
<1> QED BY <1>1, <1>2

\* onboarding/page.tsx over onboardingService.ts and modelPreferenceService.ts: the step of the
\* page, the calls under way, the stored step and the stored default stay as WizardInv says,
\* for any models, calls and order of their answers.
THEOREM WizardInvariant == OnboardingSpec => []WizardInv
BY WizardStart, WizardStep, PTL DEF OnboardingSpec

\* onboarding/page.tsx: for any models, calls and order of their answers, a wizard at rest
\* is where it would resume, unless calls about the step crossed or failed or it was skipped;
\* however saves cross there is one default model, also in the list a save answers with; and
\* it is the one chosen in the wizard, and enabled, unless another save came before that read.
THEOREM WizardSafety == OnboardingSpec => []WizardResumes
<1>1. WizardInv => WizardResumes
  <2> SUFFICES ASSUME WizardInv PROVE WizardResumes
    OBVIOUS
  <2>1. ASSUME wizardCalls = {}, Visible, ~crossed, lastStep \notin {NoStep, Skipped}
        PROVE  /\ currentStep = Resume(OnboardingStatus)
               /\ lastStep \in StepIds => currentStep = chosen
    <3>1. AtStored /\ (lastStep \in StepIds => lastStep = chosen)
      BY <2>1 DEF WizardInv, StepsAgree, Visible
    <3>2. lastStep \in StepIds \cup {Done} /\ (lastStep = Done => completedAt)
      BY <2>1 DEF WizardInv
    <3> QED BY <3>1, <3>2, NamesAre DEF AtStored, Resume, OnboardingStatus
  <2>2. \A c \in wizardCalls : c.does = "model" /\ c.stage = "done" =>
          /\ Cardinality(c.read.default) = 1
          /\ c.n \in savedOver \/ c.on \in c.read.enabled \cap c.read.default
    BY DEF WizardInv, ModelOK
  <2> QED BY <2>1, <2>2, OneDefault DEF WizardResumes
<1> QED BY <1>1, WizardInvariant, PTL

-----------------------------------------------------------------------------
(* The settings pages: the copy of a list, and the edits of a form.        *)

\* What a page, and a call of it, may hold.
Lists == [Items -> Nat]

IsPageCall(c) ==
    /\ c = [n |-> c.n, does |-> c.does, item |-> c.item, list |-> c.list, filter |-> c.filter,
            stage |-> c.stage, got |-> c.got, at |-> c.at]
    /\ c.n \in Nat /\ c.n <= sent /\ c.filter \in Filters
    /\ c.list \in Lists /\ c.got \in Lists
    /\ c.stage = "sent" \/ (c.stage = "done" /\ c.n <= latest)
    /\ c.at \in Nat /\ c.at <= handled

Kinds(p) ==
    CASE p = "keys" -> {"create", "change", "scopes", "limit"}
      [] p = "alerts" -> {"change", "setBaseline"}
      [] p \in {"timeline", "overview"} -> {"change"}
      [] p = "limits" -> {"save", "reset"}
      [] p = "health" -> {"save", "saveAll"}
      [] p \in {"models", "preferences"} -> {"saveAll"}
      [] p = "events" -> {"mark", "markAll"}
      [] p \in {"usage", "none"} -> {}

Carried(c) ==
    /\ c.does \in Kinds(page) \cup {"load"}
    /\ c.does \in {"save", "reset", "mark"} => c.item \in Items
    /\ c.does = "mark" => c.list[c.item] = Read
    /\ c.does \in {"save", "reset"} => c.list[c.item] # Unlisted
    /\ page = "health" /\ c.does = "saveAll" => \A i \in Items : c.list[i] # Unlisted

PagesTypes ==
    /\ page \in Pages \cup {"none"}
    /\ server \in Lists /\ shown \in Lists /\ typed \in Lists
    /\ filter \in Filters
    /\ unread \in Nat /\ loading \in Flags /\ error \in Flags
    /\ sent \in Nat /\ handled \in Nat /\ latest \in Nat
    /\ applied \in Nat /\ applied <= handled
    /\ edited \subseteq Items
    /\ \A c \in calls : IsPageCall(c) /\ Carried(c)
    /\ page = "none" => calls = {} /\ ~Loaded /\ unread = 0

\* Pages that put answers into their copy list what the API lists, once they are loaded.
Listing == {"limits", "health", "events"}
ListedAlike ==
    page \in Listing =>
        /\ ~Loaded => /\ shown = Nobody /\ unread = 0
                      /\ \A c, d \in calls : c.does = "load" /\ c = d
        /\ Loaded => /\ \A c \in calls : c.does # "load"
                     /\ \A i \in Items : shown[i] = Unlisted <=> server[i] = Unlisted
        /\ \A c \in calls : c.stage = "done" =>
              /\ \A i \in Items : c.got[i] = Unlisted <=> server[i] = Unlisted
              /\ c.does = "mark" => c.got[c.item] \in {Unlisted, Read}
              /\ c.does = "markAll" => \A i \in Items : c.got[i] \in {Unlisted, Read}

\* Some pages have one call under way at most; only forms are edited, after they were loaded.
OneCall ==
    /\ page \in Edited \cup {"overview"} => \A c, d \in calls : c = d
    /\ page \in Edited => \A c \in calls : /\ c.stage = "done" => c.got = server
                                           /\ c.does = "load" => loading /\ edited = {}
    /\ page \notin Edited => edited = {}

\* The answer to c will set item i.
Brings(c, i) ==
    /\ c.stage = "done"
    /\ c.does \in {"load", "saveAll", "markAll"} \/ (c.does \in {"save", "reset", "mark"} /\ c.item = i)

\* An item is shown as it is, and no answer that is still to come undoes that; or
\* a call is under way that will see to it.
ItemCurrent(i) ==
    /\ shown[i] = server[i]
    /\ \A d \in calls : Brings(d, i) => d.got[i] = server[i] \/ d.at < applied
Renews(c, i) ==
    \/ c.does = "load" /\ c.stage = "sent"
    \/ page \in Reloading /\ c.does \notin {"load", "setBaseline"} /\ c.stage = "done"
    \/ /\ Brings(c, i) /\ c.got[i] = server[i]
       /\ \A d \in calls : Brings(d, i) => d.got[i] = server[i] \/ d.at < c.at
ItemKept(i) == ItemCurrent(i) \/ \E c \in calls : Renews(c, i)

KeptUnlessLost ==
    "lost" \notin excuses /\ "overtaken" \notin excuses /\ page # "none" =>
        \A i \in Items : ItemKept(i) \/ (i \in edited /\ \A c \in calls : c.stage = "sent")
KeptOrError ==
    page \in Reloading /\ ~error /\ "overtaken" \notin excuses =>
        \/ \A i \in Items : ItemKept(i)
        \/ \E c \in calls : c.does # "load"
        \/ page = "overview" /\ shown = Nobody /\ calls = {}

\* The list of the filter that is chosen is shown, or a call under way brings it; the
\* answers for another filter come before, or out of order.
Doomed(d) == IF d.stage = "sent" THEN d.n < latest ELSE d.at < applied
Before(d, c) == d.n < c.n /\ (c.stage = "done" /\ d.stage = "done" => d.at < c.at)
FilterShown == shownFor = filter /\ \A d \in Pending("load") : d.filter = filter \/ Doomed(d)
BringsFilter(c) ==
    /\ c.filter = filter
    /\ c.does = "load" => \A d \in Pending("load") : d.filter = filter \/ Before(d, c)
FilterTells ==
    page \in Filtered /\ "switched" \notin excuses /\ "swapped" \notin excuses
                      /\ "overtaken" \notin excuses =>
        /\ \A c \in calls : c.does # "load" => c.filter = filter
        /\ error \/ FilterShown \/ \E c \in calls : BringsFilter(c)

\* The counter is the count of the copy; no event is marked twice.
Counted ==
    page = "events" /\ excuses = {} =>
        /\ unread = Unread(shown)
        /\ \A c \in Pending("mark") : /\ shown[c.item] # Unlisted
                                      /\ shown[c.item] = Read => Unread(shown) = 0
        /\ \A c, d \in Pending("mark") : c.item = d.item => c = d

Typed == "edited" \notin excuses => \A i \in edited : shown[i] = typed[i]

\* The inductive invariant.
PagesInv ==
    /\ PagesTypes /\ ListedAlike /\ OneCall
    /\ KeptUnlessLost /\ KeptOrError /\ FilterTells
    /\ Counted /\ Typed

LEMMA PagesInvTells == PagesInv => PageTells
<1> SUFFICES ASSUME PagesInv PROVE PageTells
  OBVIOUS
<1>1. ASSUME Settled, page \in Reloading, ~error
      PROVE  shown = server \/ (page = "overview" /\ shown = Nobody)
  <2>1. calls = {} /\ "overtaken" \notin excuses
    BY <1>1 DEF Settled
  <2>2. (\A i \in Items : ItemCurrent(i)) \/ (page = "overview" /\ shown = Nobody)
    BY <1>1, <2>1 DEF PagesInv, KeptOrError, ItemKept
  <2>3. ASSUME \A i \in Items : ItemCurrent(i) PROVE shown = server
    BY <2>3 DEF ItemCurrent, PagesInv, PagesTypes, Lists
  <2> QED BY <2>2, <2>3
<1>2. ASSUME Settled, "lost" \notin excuses, NEW i \in Items \ edited
      PROVE  shown[i] = server[i]
  <2>1. calls = {} /\ "overtaken" \notin excuses
    BY <1>2 DEF Settled
  <2>2. CASE page # "none"
    BY <1>2, <2>1, <2>2 DEF PagesInv, KeptUnlessLost, ItemKept, ItemCurrent
  <2>3. CASE page = "none"
    BY <1>2, <2>3 DEF PagesInv, PagesTypes, Settled
  <2> QED BY <2>2, <2>3
<1>3. ASSUME Settled, page \in Filtered, ~error, excuses \cap {"switched", "swapped"} = {}
      PROVE  shownFor = filter
  BY <1>3 DEF Settled, PagesInv, FilterTells, FilterShown
<1>4. ASSUME Settled, page = "events", excuses = {}
      PROVE  unread = Unread(server)
  <2>1. edited = {}
    BY <1>4 DEF PagesInv, OneCall, Edited
  <2>2. \A i \in Items : shown[i] = server[i]
    BY <1>2, <1>4, <2>1
  <2>3. unread = Unread(shown)
    BY <1>4 DEF PagesInv, Counted
  <2> QED BY <2>2, <2>3 DEF Unread
<1>5. "edited" \notin excuses => \A i \in edited : shown[i] = typed[i]
  BY DEF PagesInv, Typed
<1> QED BY <1>1, <1>2, <1>3, <1>4, <1>5 DEF PageTells

LEMMA PagesStart == PagesInit => PagesInv
<1> SUFFICES ASSUME PagesInit PROVE PagesInv
  OBVIOUS
<1>1. Nobody \in Lists
  BY DEF Nobody, Lists, Unlisted
<1>2. /\ loading \in Flags /\ error \in Flags
      /\ edited \subseteq Items /\ \A c \in calls : IsPageCall(c) /\ Carried(c)
  BY DEF PagesInit, Flags
<1>3. /\ page = "none" /\ filter \in Filters /\ calls = {} /\ ~Loaded
  BY DEF PagesInit, Filters, Loaded
<1>4. PagesTypes
  BY <1>1, <1>2, <1>3 DEF PagesInit, PagesTypes
<1> QED
  BY <1>4 DEF PagesInit, PagesInv, ListedAlike, Listing, OneCall, Edited, KeptUnlessLost, KeptOrError,
     Reloading, FilterTells, Filtered, Counted, Typed

-----------------------------------------------------------------------------
(* Calls that a page sends.                                                 *)

\* A call stays what it is while the page sends, and the API handles, others.
LEMMA CallStays ==
  ASSUME NEW c, IsPageCall(c) /\ Carried(c), page' = page,
         sent' >= sent, latest' >= latest, handled' >= handled,
         sent \in Nat, latest \in Nat, handled \in Nat,
         sent' \in Nat, latest' \in Nat, handled' \in Nat
  PROVE  (IsPageCall(c) /\ Carried(c))'
<1>1. Carried(c)'
  BY DEF Carried, Kinds
<1>2. IsPageCall(c)'
  BY DEF IsPageCall, Lists, Filters
<1> QED BY <1>1, <1>2

\* What the handlers that send w have in common.
Sends(w) ==
    /\ page # "none"
    /\ UNCHANGED <<page, server, shown, shownFor, unread, handled, latest, applied, edited, typed>>
    /\ calls' = calls \cup {w} /\ sent' = sent + 1
    /\ w.n = sent + 1 /\ w.stage = "sent" /\ w.filter = filter'
    /\ filter' \in Filters /\ loading' \in Flags /\ error' \in Flags
    /\ \A x \in excuses : x \in excuses'
    /\ filter' = filter \/ Pending("change") = {} \/ "switched" \in excuses'
    /\ page \in Listing => Loaded /\ w.does # "load"
    /\ page \in Edited => calls = {} /\ w.does # "load"
    /\ page = "overview" => calls = {}
    /\ page = "events" /\ excuses' = {} /\ w.does = "mark" =>
          /\ shown[w.item] \notin {Unlisted, Read}
          /\ \A c \in Pending("mark") : c.item # w.item

LEMMA KindsAre ==
  /\ page \in Edited => Kinds(page) = {"saveAll"}
  /\ page \in Filtered => Kinds(page) \subseteq {"change"}
  /\ page \in Listing => Kinds(page) \subseteq {"save", "reset", "saveAll", "mark", "markAll"}
  /\ page \in Reloading => Kinds(page) \subseteq {"create", "change", "scopes", "limit", "setBaseline"}
  /\ "load" \notin Kinds(page) \/ page \notin Pages \cup {"none"}
  /\ \A p \in Pages : p \in Reloading \/ p \in Listing \/ p \in Edited \/ p = "usage"
  BY DEF Kinds, Edited, Filtered, Listing, Reloading, Pages

LEMMA SendsKeeps ==
  ASSUME PagesInv, NEW w, Sends(w), (IsPageCall(w) /\ Carried(w))'
  PROVE  PagesInv'
<1>1. PagesTypes'
  <2>1. \A c \in calls' : (IsPageCall(c) /\ Carried(c))'
    <3> SUFFICES ASSUME NEW c \in calls', c # w PROVE (IsPageCall(c) /\ Carried(c))'
      OBVIOUS
    <3>1. IsPageCall(c) /\ Carried(c)
      BY DEF Sends, PagesInv, PagesTypes
    <3> QED BY <3>1, CallStays DEF Sends, PagesInv, PagesTypes
  <2>2. sent' \in Nat
    BY DEF Sends, PagesInv, PagesTypes
  <2> QED BY <2>1, <2>2 DEF Sends, PagesInv, PagesTypes, Lists, Loaded
<1>2. ListedAlike'
  BY DEF Sends, PagesInv, ListedAlike, Loaded, Nobody
<1>3. OneCall'
  <2>1. page \in Edited => /\ calls' = {w} /\ w.stage # "done" /\ w.does # "load"
    BY DEF Sends
  <2>2. page = "overview" => calls' = {w}
    BY DEF Sends
  <2> QED BY <2>1, <2>2 DEF Sends, PagesInv, OneCall
<1>4. ASSUME NEW i, ItemKept(i) PROVE ItemKept(i)'
  <2>1. \A d \in calls' : Brings(d, i)' => d \in calls /\ Brings(d, i)
    BY DEF Sends, Brings
  <2>2. CASE ItemCurrent(i)
    BY <2>1, <2>2 DEF ItemCurrent, ItemKept, Sends
  <2>3. ASSUME NEW c \in calls, Renews(c, i) PROVE Renews(c, i)' /\ c \in calls'
    BY <2>1, <2>3 DEF Renews, Sends, Brings
  <2> QED BY <1>4, <2>2, <2>3 DEF ItemKept
<1>5. KeptUnlessLost'
  <2> SUFFICES ASSUME "lost" \notin excuses', "overtaken" \notin excuses', NEW i \in Items
      PROVE  ItemKept(i)' \/ (i \in edited' /\ \A c \in calls' : c.stage = "sent")
    BY DEF KeptUnlessLost
  <2>1. ItemKept(i) \/ (i \in edited /\ \A c \in calls : c.stage = "sent")
    BY DEF Sends, PagesInv, KeptUnlessLost
  <2> QED BY <1>4, <2>1 DEF Sends
<1>6. KeptOrError'
  <2>1. w \in calls' /\ w.stage = "sent"
    BY DEF Sends
  <2>2. CASE w.does # "load"
    BY <2>1, <2>2 DEF KeptOrError
  <2>3. CASE w.does = "load"
    BY <2>1, <2>3 DEF KeptOrError, ItemKept, Renews
  <2> QED BY <2>2, <2>3
<1>7. FilterTells'
  <2> SUFFICES ASSUME page' \in Filtered, "switched" \notin excuses', "swapped" \notin excuses',
                      "overtaken" \notin excuses'
      PROVE  /\ \A c \in calls' : c.does # "load" => c.filter = filter'
             /\ \E c \in calls' : BringsFilter(c)'
    BY DEF FilterTells
  <2>1. page \in Filtered /\ "switched" \notin excuses /\ "swapped" \notin excuses
        /\ "overtaken" \notin excuses
    BY DEF Sends
  <2>2. \A c \in calls : c.does # "load" => c.filter = filter /\ c.does = "change"
    BY <2>1, KindsAre DEF PagesInv, FilterTells, PagesTypes, Carried
  <2>3. filter' = filter \/ Pending("change") = {}
    BY DEF Sends
  <2>4. \A c \in calls' : c.does # "load" => c.filter = filter'
    BY <2>2, <2>3 DEF Sends, Pending
  <2>5. \A d \in calls : d.n < w.n
    BY DEF Sends, PagesInv, PagesTypes, IsPageCall
  <2>6. BringsFilter(w)'
    BY <2>5 DEF Sends, BringsFilter, Before, Pending
  <2> QED BY <2>4, <2>6 DEF Sends
<1>8. Counted'
  <2> SUFFICES ASSUME page' = "events", excuses' = {} PROVE Counted'
    BY DEF Counted
  <2>1. page = "events" /\ excuses = {} /\ shown' = shown /\ unread' = unread /\ Unread(shown)' = Unread(shown)
    BY DEF Sends, Unread
  <2>2. Pending("mark")' = Pending("mark") \cup (IF w.does = "mark" THEN {w} ELSE {})
    BY DEF Sends, Pending
  <2> QED BY <2>1, <2>2 DEF Counted, Sends, PagesInv
<1>9. Typed'
  BY DEF Sends, PagesInv, Typed
<1> QED BY <1>1, <1>2, <1>3, <1>5, <1>6, <1>7, <1>8, <1>9 DEF PagesInv

\* A call as the handlers make it.
LEMMA PageCallIs ==
  ASSUME NEW does, NEW i, NEW list \in Lists, NEW k \in Nat, NEW w, w = Call(does, i, list, k),
         filter \in Filters, sent' \in Nat, k <= sent', handled' \in Nat
  PROVE  /\ w.n = k /\ w.does = does /\ w.item = i /\ w.list = list /\ w.filter = filter
         /\ w.stage = "sent" /\ w.got = Nobody /\ w.at = 0
         /\ IsPageCall(w)'
<1>1. Nobody \in Lists /\ Lists' = Lists
  BY DEF Nobody, Lists, Unlisted
<1>2. w = [n |-> k, does |-> does, item |-> i, list |-> list, filter |-> filter,
           stage |-> "sent", got |-> Nobody, at |-> 0]
  BY DEF Call
<1> HIDE DEF Lists
<1> QED BY <1>1, <1>2 DEF IsPageCall

LEMMA SendIs ==
  ASSUME PagesInv, NEW does, NEW i, NEW list \in Lists, Send(does, i, list),
         page # "none", filter' = filter, error' \in Flags,
         UNCHANGED <<edited, typed>>, \A x \in excuses : x \in excuses',
         does \in Kinds(page),
         does \in {"save", "reset", "mark"} => i \in Items,
         does = "mark" => list[i] = Read,
         does \in {"save", "reset"} => list[i] # Unlisted,
         page = "health" /\ does = "saveAll" => \A k \in Items : list[k] # Unlisted,
         page \in Listing => Loaded,
         page \in Edited \cup {"overview"} => calls = {},
         page = "events" /\ excuses' = {} /\ does = "mark" =>
            shown[i] \notin {Unlisted, Read} /\ \A c \in Pending("mark") : c.item # i
  PROVE  PagesInv'
<1>0. PICK w : w = Call(does, i, list, sent + 1)
  OBVIOUS
<1>1. /\ w.n = sent + 1 /\ w.does = does /\ w.item = i /\ w.list = list /\ w.filter = filter
      /\ w.stage = "sent" /\ IsPageCall(w)'
  BY <1>0, PageCallIs DEF Send, PagesInv, PagesTypes
<1>2. calls' = calls \cup {w}
  BY <1>0 DEF Send
<1>3. "load" \notin Kinds(page)
  BY KindsAre DEF PagesInv, PagesTypes
<1>4. Carried(w)'
  BY <1>1 DEF Send, listVars, Carried, Kinds
<1>5. Sends(w)
  BY <1>1, <1>2, <1>3 DEF Send, listVars, Sends, PagesInv, PagesTypes
<1> QED BY <1>1, <1>4, <1>5, SendsKeeps

\* A call that loads the list, for filter f.
LEMMA LoadSent ==
  ASSUME PagesInv, NEW f \in Filters, NEW w,
         w = [Call("load", Every, Nobody, sent + 1) EXCEPT !.filter = f],
         page \in {"alerts", "timeline", "usage"}, filter' = f, loading' \in Flags, error' \in Flags,
         sent' = sent + 1, calls' = calls \cup {w}, \A x \in excuses : x \in excuses',
         filter' = filter \/ Pending("change") = {} \/ "switched" \in excuses',
         UNCHANGED <<page, listVars, handled, latest, applied, edited, typed>>
  PROVE  PagesInv'
<1>0. Nobody \in Lists /\ Lists' = Lists
  BY DEF Nobody, Lists, Unlisted
<1>1. /\ w.n = sent + 1 /\ w.does = "load" /\ w.item = Every /\ w.list = Nobody /\ w.filter = f
      /\ w.stage = "sent" /\ IsPageCall(w)'
  BY <1>0 DEF Call, IsPageCall, PagesInv, PagesTypes
<1>2. Carried(w)'
  BY <1>1 DEF Carried, Kinds
<1>3. Sends(w)
  BY <1>1 DEF Sends, listVars, Listing, Edited
<1> QED BY <1>1, <1>2, <1>3, SendsKeeps

LEMMA HandlersKeep ==
  ASSUME PagesInv,
         \/ \E v \in Values : CreateKey(v)
         \/ \E i \in Items, v \in Values : ChangeKey(i, v)
         \/ \E i \in Items, v \in Values, dialog \in {"scopes", "limit"} : SaveKey(i, v, dialog)
         \/ \E i \in Items : ResolveAlert(i)
         \/ \E v \in Values : RunCleanup(v)
         \/ \E i \in Items : ResolveIncident(i)
         \/ \E i \in Items, v \in Values : SaveLimit(i, v)
         \/ \E i \in Items, v \in Values : ResetLimit(i, v)
         \/ \E i \in Items, v \in Values : RefreshProvider(i, v)
         \/ \E found \in [Items -> Values] : RefreshAll(found)
         \/ SaveAll
         \/ \E i \in Items : MarkRead(i)
         \/ MarkAllRead
  PROVE  PagesInv'
<1>1. /\ Nobody \in Lists /\ \A i \in Items : Nobody[i] = Unlisted
      /\ \A v \in Values : v \in Nat /\ v # Unlisted /\ [i \in Items |-> v] \in Lists
      /\ \A v \in Nat, i \in Items :
            [Nobody EXCEPT ![i] = v] \in Lists /\ [Nobody EXCEPT ![i] = v][i] = v
      /\ \A list \in [Items -> Values] : list \in Lists /\ \A i \in Items : list[i] # Unlisted
      /\ Read \in Nat
  BY PagesAssumption DEF Nobody, Lists, Unlisted, Read
<1> USE DEF Kinds, Listing, Edited, editVars
<1> HIDE DEF Lists, Unlisted, Read
<1>2. FALSE \in Flags /\ loading \in Flags /\ error \in Flags
  BY DEF PagesInv, PagesTypes, Flags
<1>3. ASSUME NEW v \in Values, CreateKey(v) PROVE PagesInv'
  BY <1>1, <1>2, <1>3, SendIs DEF CreateKey
<1>4. ASSUME NEW i \in Items, NEW v \in Values, ChangeKey(i, v) PROVE PagesInv'
  BY <1>1, <1>2, <1>4, SendIs DEF ChangeKey
<1>5. ASSUME NEW i \in Items, NEW v \in Values, NEW dialog \in {"scopes", "limit"}, SaveKey(i, v, dialog)
      PROVE  PagesInv'
  BY <1>1, <1>2, <1>5, SendIs DEF SaveKey
<1>6. ASSUME NEW i \in Items, ResolveAlert(i) PROVE PagesInv'
  <2>1. PICK does \in {"change", "setBaseline"} : Send(does, i, Nobody)
    BY <1>6 DEF ResolveAlert
  <2> QED BY <1>1, <1>2, <1>6, <2>1, SendIs DEF ResolveAlert
<1>7. ASSUME NEW v \in Values, RunCleanup(v) PROVE PagesInv'
  BY <1>1, <1>2, <1>7, SendIs DEF RunCleanup
<1>8. ASSUME NEW i \in Items, ResolveIncident(i) PROVE PagesInv'
  BY <1>1, <1>2, <1>8, SendIs DEF ResolveIncident
<1>9. ASSUME NEW i \in Items, shown[i] # Unlisted, page \in Listing PROVE Loaded
  BY <1>1, <1>9 DEF PagesInv, ListedAlike
<1>10. ASSUME NEW i \in Items, NEW v \in Values, SaveLimit(i, v) PROVE PagesInv'
  <2>1. Loaded
    BY <1>9, <1>10 DEF SaveLimit
  <2> DEFINE list == [Nobody EXCEPT ![i] = v]
  <2>2. list \in Lists /\ list[i] # Unlisted
    BY <1>1
  <2>3. Send("save", i, list)
    BY <1>10 DEF SaveLimit
  <2> HIDE DEF list
  <2> QED BY <1>1, <1>2, <1>10, <2>1, <2>2, <2>3, SendIs DEF SaveLimit
<1>11. ASSUME NEW i \in Items, NEW v \in Values, RefreshProvider(i, v) PROVE PagesInv'
  <2>1. Loaded
    BY <1>9, <1>11 DEF RefreshProvider
  <2> DEFINE list == [Nobody EXCEPT ![i] = v]
  <2>2. list \in Lists /\ list[i] # Unlisted
    BY <1>1
  <2>3. Send("save", i, list)
    BY <1>11 DEF RefreshProvider
  <2> HIDE DEF list
  <2> QED BY <1>1, <1>2, <1>11, <2>1, <2>2, <2>3, SendIs DEF RefreshProvider
<1>12. ASSUME NEW found \in [Items -> Values], RefreshAll(found) PROVE PagesInv'
  BY <1>1, <1>2, <1>12, SendIs DEF RefreshAll
<1>13. ASSUME SaveAll PROVE PagesInv'
  <2>1. calls = {}
    <3>1. \A c \in calls : c.does # "load" /\ c.does # "saveAll"
      BY <1>13 DEF SaveAll, Pending, PagesInv, OneCall
    <3>2. \A c \in calls : c.does \in {"load", "saveAll"}
      BY <1>13, KindsAre DEF SaveAll, PagesInv, PagesTypes, Carried
    <3> QED BY <3>1, <3>2
  <2>2. shown \in Lists
    BY DEF PagesInv, PagesTypes
  <2> QED BY <1>2, <1>13, <2>1, <2>2, SendIs DEF SaveAll
<1>14. ASSUME NEW i \in Items, MarkRead(i) PROVE PagesInv'
  <2>1. excuses' = {} => \A c \in Pending("mark") : c.item # i
    BY <1>14 DEF MarkRead
  <2>2. \A x \in excuses : x \in excuses'
    BY <1>14 DEF MarkRead
  <2> QED BY <1>1, <1>2, <1>9, <1>14, <2>1, <2>2, SendIs DEF MarkRead
<1>15. ASSUME MarkAllRead PROVE PagesInv'
  <2>1. Loaded
    BY <1>15 DEF MarkAllRead, PagesInv, ListedAlike
  <2> QED BY <1>1, <1>2, <1>15, <2>1, SendIs DEF MarkAllRead
<1>16. ASSUME NEW i \in Items, NEW v \in Values, ResetLimit(i, v) PROVE PagesInv'
  <2>1. Loaded
    BY <1>9, <1>16 DEF ResetLimit
  <2> DEFINE list == [Nobody EXCEPT ![i] = v]
  <2>2. list \in Lists /\ list[i] # Unlisted
    BY <1>1
  <2>3. Send("reset", i, list)
    BY <1>16 DEF ResetLimit
  <2> HIDE DEF list
  <2> QED BY <1>1, <1>2, <1>16, <2>1, <2>2, <2>3, SendIs DEF ResetLimit
<1> QED
  BY <1>3, <1>4, <1>5, <1>6, <1>7, <1>8, <1>10, <1>11, <1>12, <1>13, <1>14, <1>15,
     <1>16

LEMMA LoadsKeep ==
  ASSUME PagesInv, Refresh \/ \E f \in Filters : Choose(f)
  PROVE  PagesInv'
<1>1. TRUE \in Flags /\ FALSE \in Flags
  BY DEF Flags
<1>2. CASE Refresh
  <2>1. Call("load", Every, Nobody, sent + 1)
          = [Call("load", Every, Nobody, sent + 1) EXCEPT !.filter = filter]
    BY DEF Call
  <2>2. filter \in Filters
    BY DEF PagesInv, PagesTypes
  <2> QED BY <1>1, <1>2, <2>1, <2>2, LoadSent DEF Refresh, editVars
<1>3. ASSUME NEW f \in Filters, Choose(f) PROVE PagesInv'
  <2>1. page \in {"timeline", "usage"}
    BY <1>3 DEF Choose, Filtered
  <2>2. (\A x \in excuses : x \in excuses') /\ (Pending("change") = {} \/ "switched" \in excuses')
    BY <1>3 DEF Choose
  <2> QED BY <1>1, <1>3, <2>1, <2>2, LoadSent DEF Choose, editVars
<1> QED BY <1>2, <1>3

-----------------------------------------------------------------------------
(* The API.                                                                 *)

LEMMA AfterIs ==
  ASSUME PagesTypes, NEW c \in calls, NEW list \in After(c)
  PROVE  /\ list \in Lists
         /\ c.does = "load" => list = server
         /\ c.does = "setBaseline" => list = server
         /\ \A i \in Items : /\ c.does \in {"save", "reset", "mark"} /\ c.item # i => list[i] = server[i]
         /\ page \in Listing => \A i \in Items : list[i] = Unlisted <=> server[i] = Unlisted
         /\ c.does = "mark" => list[c.item] \in {Unlisted, Read}
         /\ c.does = "markAll" => \A i \in Items : list[i] \in {Unlisted, Read}
<1>1. /\ c.list \in Lists /\ server \in Lists /\ Carried(c) /\ page \in Pages \cup {"none"}
  BY DEF PagesTypes, IsPageCall
<1>2. page # "none"
  BY DEF PagesTypes
<1>3. \A i \in Items : Defaults[i] = Read /\ Read # Unlisted /\ Read \in Nat /\ Unlisted \in Nat
  BY DEF Defaults, Read, Unlisted
<1>4. /\ Changed(c) \in Lists
      /\ \A i \in Items : c.item # i => Changed(c)[i] = server[i]
      /\ c.item \in Items => Changed(c)[c.item] = IF server[c.item] = Unlisted THEN Unlisted ELSE c.list[c.item]
  BY <1>1, <1>3 DEF Changed, Lists
<1>5. ASSUME NEW l \in Lists
      PROVE  /\ Overwritten(l) \in Lists
             /\ \A i \in Items : Overwritten(l)[i] = IF server[i] = Unlisted THEN Unlisted ELSE l[i]
  BY <1>1, <1>3, <1>5 DEF Overwritten, Lists
<1>6. [i \in Items |-> Read] \in Lists /\ \A i \in Items : [k \in Items |-> Read][i] = Read
  BY <1>3 DEF Lists
<1> HIDE DEF Lists, Unlisted, Read
<1>7. CASE c.does = "load"
  <2>1. list = server
    BY <1>7 DEF After
  <2> QED BY <1>1, <1>7, <2>1
<1>8. CASE c.does # "load" /\ page = "keys"
  <2>1. c.does \in {"create", "change", "scopes", "limit"}
    BY <1>1, <1>8 DEF Carried, Kinds
  <2>2. list \in AfterKeys(c)
    BY <1>8 DEF After
  <2>3. list \in Lists
    <3>1. ASSUME NEW i \in Items PROVE [server EXCEPT ![i] = c.list[i]] \in Lists
      BY <1>1 DEF Lists
    <3> QED BY <1>4, <2>2, <3>1 DEF AfterKeys
  <2> QED BY <1>8, <2>1, <2>3 DEF Listing
<1>9. CASE c.does # "load" /\ page = "overview"
  <2>1. c.does = "change" /\ list = Overwritten(c.list)
    BY <1>1, <1>9 DEF Carried, Kinds, After, AfterCleanup
  <2> QED BY <1>1, <1>5, <1>9, <2>1 DEF Listing
<1>10. CASE c.does # "load" /\ page = "alerts"
  <2>1. c.does \in {"change", "setBaseline"} /\ list = IF c.does = "change" THEN Changed(c) ELSE server
    BY <1>1, <1>10 DEF Carried, Kinds, After, AfterAlerts
  <2> QED BY <1>1, <1>4, <1>10, <2>1 DEF Listing
<1>11. CASE c.does # "load" /\ page = "timeline"
  <2>1. c.does = "change" /\ list = Changed(c)
    BY <1>1, <1>11 DEF Carried, Kinds, After, AfterIncidents
  <2> QED BY <1>1, <1>4, <1>11, <2>1 DEF Listing
<1>12. CASE c.does # "load" /\ page = "limits"
  <2>1. c.does \in {"save", "reset"} /\ list = Changed(c) /\ c.item \in Items /\ c.list[c.item] # Unlisted
    BY <1>1, <1>12 DEF Carried, Kinds, After, AfterLimits
  <2> QED BY <1>1, <1>4, <1>12, <2>1 DEF Listing
<1>13. CASE c.does # "load" /\ page = "health"
  <2>1. /\ c.does \in {"save", "saveAll"}
        /\ list = IF c.does = "save" THEN Changed(c) ELSE Overwritten(c.list)
        /\ c.does = "save" => c.item \in Items /\ c.list[c.item] # Unlisted
        /\ c.does = "saveAll" => \A i \in Items : c.list[i] # Unlisted
    BY <1>1, <1>13 DEF Carried, Kinds, After, AfterHealth
  <2>2. CASE c.does = "save"
    BY <1>1, <1>4, <1>13, <2>1, <2>2
  <2>3. CASE c.does = "saveAll"
    BY <1>1, <1>5, <1>13, <2>1, <2>3
  <2> QED BY <2>1, <2>2, <2>3
<1>14. CASE c.does # "load" /\ page \in {"models", "preferences"}
  <2>1. c.does = "saveAll" /\ list = Overwritten(c.list)
    BY <1>1, <1>14 DEF Carried, Kinds, After, AfterModels, AfterPreferences
  <2> QED BY <1>1, <1>5, <1>14, <2>1 DEF Listing
<1>15. CASE c.does # "load" /\ page = "events"
  <2>1. /\ c.does \in {"mark", "markAll"}
        /\ list = IF c.does = "mark" THEN Changed(c) ELSE Overwritten([i \in Items |-> Read])
        /\ c.does = "mark" => c.item \in Items /\ c.list[c.item] = Read
    BY <1>1, <1>15 DEF Carried, Kinds, After, AfterEvents
  <2>2. CASE c.does = "mark"
    BY <1>1, <1>3, <1>4, <1>15, <2>1, <2>2
  <2>3. CASE c.does = "markAll"
    BY <1>1, <1>3, <1>5, <1>6, <1>15, <2>1, <2>3
  <2> QED BY <2>1, <2>2, <2>3
<1>16. page \in {"keys", "overview", "alerts", "timeline", "limits", "health", "models", "preferences",
                 "events"} \/ c.does = "load"
  BY <1>1, <1>2 DEF Carried, Kinds, Pages, Reloading, Filtered, Edited
<1> QED
  BY <1>7, <1>8, <1>9, <1>10, <1>11, <1>12, <1>13, <1>14, <1>15, <1>16

LEMMA HandleKeeps ==
  ASSUME PagesInv, NEW c \in calls, Handle(c)
  PROVE  PagesInv'
<1>1. PICK b : b = [c EXCEPT !.stage = "done", !.got = server', !.at = handled']
  OBVIOUS
<1>2. /\ c.stage = "sent" /\ calls' = (calls \ {c}) \cup {b} /\ handled' = handled + 1
      /\ latest' = (IF c.n < latest THEN latest ELSE c.n)
      /\ excuses' = (IF c.n < latest THEN excuses \cup {"swapped"} ELSE excuses)
      /\ server' \in After(c)
      /\ UNCHANGED <<page, shown, shownFor, filter, unread, sent, loading, error, edited, typed, applied>>
  BY <1>1 DEF Handle, editVars
<1>3. /\ IsPageCall(c) /\ Carried(c) /\ c.n \in Nat /\ c.n <= sent
      /\ sent \in Nat /\ handled \in Nat /\ latest \in Nat /\ applied \in Nat /\ applied <= handled
      /\ page \in Pages \cup {"none"}
  BY DEF PagesInv, PagesTypes, IsPageCall
<1>4. /\ b.n = c.n /\ b.does = c.does /\ b.item = c.item /\ b.list = c.list /\ b.filter = c.filter
      /\ b.stage = "done" /\ b.got = server' /\ b.at = handled + 1
      /\ b = [n |-> b.n, does |-> b.does, item |-> b.item, list |-> b.list, filter |-> b.filter,
              stage |-> b.stage, got |-> b.got, at |-> b.at]
  BY <1>1, <1>2, <1>3 DEF IsPageCall
<1>5. /\ server' \in Lists
      /\ c.does \in {"load", "setBaseline"} => server' = server
      /\ \A i \in Items : /\ c.does \in {"save", "reset", "mark"} /\ c.item # i => server'[i] = server[i]
      /\ page \in Listing => \A i \in Items : server'[i] = Unlisted <=> server[i] = Unlisted
      /\ c.does = "mark" => server'[c.item] \in {Unlisted, Read}
      /\ c.does = "markAll" => \A i \in Items : server'[i] \in {Unlisted, Read}
  BY <1>2, AfterIs DEF PagesInv
<1>6. /\ latest' \in Nat /\ latest' >= latest /\ latest' >= c.n /\ handled' \in Nat /\ handled' >= handled
  BY <1>2, <1>3
<1>7. \A x \in excuses : x \in excuses'
  BY <1>2
<1>8. /\ b \in calls'
      /\ \A d \in calls' : d = b \/ (d \in calls /\ d # c)
      /\ \A d \in calls : d = c \/ d \in calls'
  BY <1>2
<1>9. PagesTypes'
  <2>1. (IsPageCall(b) /\ Carried(b))'
    <3>1. IsPageCall(b)'
      BY <1>2, <1>3, <1>4, <1>5, <1>6 DEF IsPageCall, Lists, Filters
    <3>2. Carried(b)'
      BY <1>2, <1>3, <1>4 DEF Carried, Kinds
    <3> QED BY <3>1, <3>2
  <2>2. ASSUME NEW d \in calls PROVE (IsPageCall(d) /\ Carried(d))'
    <3>1. IsPageCall(d) /\ Carried(d)
      BY DEF PagesInv, PagesTypes
    <3> QED BY <1>2, <1>3, <1>6, <3>1, CallStays
  <2>3. \A d \in calls' : (IsPageCall(d) /\ Carried(d))'
    BY <1>8, <2>1, <2>2
  <2>4. page # "none"
    BY DEF PagesInv, PagesTypes
  <2> QED BY <1>2, <1>3, <1>5, <1>6, <2>3, <2>4 DEF PagesInv, PagesTypes, Lists, Loaded
<1>10. ListedAlike'
  <2> SUFFICES ASSUME page \in Listing PROVE ListedAlike'
    BY <1>2 DEF ListedAlike
  <2>1. /\ ~Loaded' => /\ shown' = Nobody' /\ unread' = 0
                       /\ \A d, x \in calls' : d.does = "load" /\ d = x
        /\ Loaded' => \A d \in calls' : d.does # "load"
    BY <1>2, <1>4, <1>8 DEF PagesInv, ListedAlike, Loaded, Nobody
  <2>2. Loaded' => \A i \in Items : shown'[i] = Unlisted <=> server'[i] = Unlisted
    BY <1>2, <1>5 DEF PagesInv, ListedAlike, Loaded
  <2>3. ASSUME NEW d \in calls', d.stage = "done"
        PROVE  /\ \A i \in Items : d.got[i] = Unlisted <=> server'[i] = Unlisted
               /\ d.does = "mark" => d.got[d.item] \in {Unlisted, Read}
               /\ d.does = "markAll" => \A i \in Items : d.got[i] \in {Unlisted, Read}
    <3>1. CASE d = b
      BY <1>4, <1>5, <3>1
    <3>2. CASE d \in calls
      BY <1>5, <2>3, <3>2 DEF PagesInv, ListedAlike
    <3> QED BY <1>8, <3>1, <3>2
  <2> QED BY <2>1, <2>2, <2>3 DEF ListedAlike
<1>11. OneCall'
  <2>1. page \in Edited \cup {"overview"} => \A d \in calls' : d = b
    BY <1>8 DEF PagesInv, OneCall
  <2>2. page \in Edited /\ c.does = "load" => loading /\ edited = {}
    BY DEF PagesInv, OneCall
  <2> QED BY <1>2, <1>4, <2>1, <2>2 DEF PagesInv, OneCall
<1>12. \A d \in calls : d.at < b.at
  BY <1>3, <1>4 DEF PagesInv, PagesTypes, IsPageCall
<1>13. ASSUME NEW i \in Items, Brings(b, i) \/ (page \in Reloading /\ c.does \notin {"load", "setBaseline"})
       PROVE  Renews(b, i)'
  <2>1. CASE page \in Reloading /\ c.does \notin {"load", "setBaseline"}
    BY <1>2, <1>4, <2>1 DEF Renews
  <2>2. CASE Brings(b, i)
    <3>1. \A d \in calls' : d.got[i] = server'[i] \/ d.at < b.at
      BY <1>4, <1>8, <1>12
    <3>2. Brings(b, i)'
      BY <2>2 DEF Brings
    <3> QED BY <1>4, <3>1, <3>2 DEF Renews
  <2> QED BY <1>13, <2>1, <2>2
<1>14. ASSUME NEW i \in Items, ~Brings(b, i), ~(page \in Reloading /\ c.does \notin {"load", "setBaseline"})
       PROVE  server'[i] = server[i] /\ c.does # "load"
  <2>1. c.does \notin {"load", "saveAll", "markAll"} /\ ~(c.does \in {"save", "reset", "mark"} /\ c.item = i)
    BY <1>4, <1>14 DEF Brings
  <2>2. c.does \in {"save", "reset", "mark", "setBaseline"}
    BY <1>3, <1>14, <2>1, KindsAre DEF Carried, PagesInv, PagesTypes, Kinds, Pages, Reloading, Filtered, Edited
  <2> QED BY <1>5, <2>1, <2>2
<1>15. ASSUME NEW i \in Items, ItemKept(i) PROVE ItemKept(i)'
  <2>1. CASE Brings(b, i) \/ (page \in Reloading /\ c.does \notin {"load", "setBaseline"})
    BY <1>8, <1>13, <2>1 DEF ItemKept
  <2>2. CASE ~(Brings(b, i) \/ (page \in Reloading /\ c.does \notin {"load", "setBaseline"}))
    <3>1. server'[i] = server[i] /\ c.does # "load"
      BY <1>14, <2>2
    <3>2. \A d \in calls' : Brings(d, i)' => d \in calls /\ Brings(d, i)
      BY <1>8, <2>2 DEF Brings
    <3>3. CASE ItemCurrent(i)
      BY <1>2, <3>1, <3>2, <3>3 DEF ItemCurrent, ItemKept
    <3>4. ASSUME NEW w \in calls, Renews(w, i) PROVE w \in calls' /\ Renews(w, i)'
      <4>1. w # c
        BY <1>2, <3>1, <3>4 DEF Renews, Brings
      <4> QED BY <1>2, <1>8, <3>1, <3>2, <3>4, <4>1 DEF Renews, Brings
    <3> QED BY <1>15, <3>3, <3>4 DEF ItemKept
  <2> QED BY <2>1, <2>2
<1>16. KeptUnlessLost'
  <2> SUFFICES ASSUME "lost" \notin excuses', "overtaken" \notin excuses', page' # "none", NEW i \in Items
      PROVE  ItemKept(i)'
    BY DEF KeptUnlessLost
  <2>1. ItemKept(i) \/ i \in edited
    BY <1>2, <1>7 DEF PagesInv, KeptUnlessLost
  <2>2. CASE i \in edited
    <3>1. page \in Edited
      BY <2>2 DEF PagesInv, OneCall
    <3>2. c.does \in {"load", "saveAll"}
      BY <1>3, <3>1, KindsAre DEF Carried
    <3>3. Brings(b, i)
      BY <1>4, <3>2 DEF Brings
    <3> QED BY <1>8, <1>13, <3>3 DEF ItemKept
  <2> QED BY <1>15, <2>1, <2>2
<1>17. KeptOrError'
  <2> SUFFICES ASSUME page \in Reloading, ~error, "overtaken" \notin excuses', c.does = "load"
      PROVE  \A i \in Items : ItemKept(i)'
    BY <1>2, <1>4, <1>8 DEF KeptOrError
  <2>1. \A i \in Items : Brings(b, i)
    BY <1>4 DEF Brings
  <2> QED BY <1>8, <1>13, <2>1 DEF ItemKept
<1>18. FilterTells'
  <2> SUFFICES ASSUME page \in Filtered, "switched" \notin excuses', "swapped" \notin excuses',
                      "overtaken" \notin excuses', ~error
      PROVE  /\ \A d \in calls' : d.does # "load" => d.filter = filter
             /\ FilterShown' \/ \E d \in calls' : BringsFilter(d)'
    BY <1>2, <1>4, <1>8 DEF PagesInv, FilterTells
  <2>1. /\ \A d \in calls : d.does # "load" => d.filter = filter
        /\ FilterShown \/ \E d \in calls : BringsFilter(d)
    BY <1>7 DEF PagesInv, FilterTells
  <2>2. ~(c.n < latest)
    BY <1>2
  <2>3. \A d \in calls : d.n \in Nat /\ d.at \in Nat /\ (d.stage \in {"sent", "done"})
    BY DEF PagesInv, PagesTypes, IsPageCall
  <2>4. CASE FilterShown
    <3>1. \A d \in calls : d.does = "load" => d.filter = filter \/ Doomed(d)
      BY <2>4 DEF FilterShown, Pending
    <3>2. b.does = "load" => b.filter = filter
      BY <1>2, <1>4, <2>2, <3>1 DEF Doomed
    <3>3. ASSUME NEW d \in calls, Doomed(d) PROVE Doomed(d)'
      BY <1>2, <1>3, <1>6, <2>3, <3>3 DEF Doomed
    <3>4. \A d \in Pending("load")' : d.filter = filter' \/ Doomed(d)'
      BY <1>2, <1>8, <3>1, <3>2, <3>3 DEF Pending
    <3> QED BY <1>2, <2>1, <1>4, <1>8, <2>4, <3>4 DEF FilterShown
  <2>5. ASSUME NEW w \in calls, BringsFilter(w) PROVE \E d \in calls' : BringsFilter(d)'
    <3>1. w.filter = filter /\ (w.does = "load" => \A d \in calls : d.does = "load" => d.filter = filter \/ Before(d, w))
      BY <2>5 DEF BringsFilter, Pending
    <3>2. CASE w = c
      <4>1. b.does = "load" => \A d \in calls : d.does = "load" => d.filter = filter \/ Before(d, b)
        BY <1>4, <1>12, <3>1, <3>2 DEF Before
      <4> QED BY <1>2, <1>4, <1>8, <3>1, <3>2, <4>1 DEF BringsFilter, Pending
    <3>3. CASE w # c
      <4>1. w.does = "load" => b.does # "load" \/ b.filter = filter \/ Before(b, w)
        <5> SUFFICES ASSUME w.does = "load", c.does = "load", c.filter # filter PROVE Before(b, w)
          BY <1>4
        <5>1. Before(c, w)
          BY <3>1
        <5>2. w.stage # "done"
          BY <1>3, <2>2, <2>3, <5>1 DEF Before, PagesInv, PagesTypes, IsPageCall
        <5> QED BY <1>4, <5>1, <5>2 DEF Before
      <4>2. ASSUME NEW d \in calls, Before(d, w) PROVE Before(d, w)'
        BY <4>2 DEF Before
      <4> QED BY <1>2, <1>8, <3>1, <3>3, <4>1, <4>2 DEF BringsFilter, Pending, Before
    <3> QED BY <3>2, <3>3
  <2> QED BY <1>2, <1>4, <1>8, <2>1, <2>4, <2>5
<1>19. Counted'
  <2> SUFFICES ASSUME page = "events", excuses' = {} PROVE Counted'
    BY <1>2 DEF Counted
  <2>1. excuses = {} /\ Unread(shown)' = Unread(shown)
    BY <1>2, <1>7 DEF Unread
  <2>2. \A d \in calls' : d = b \/ (d \in calls /\ d # c)
    BY <1>8
  <2> QED BY <1>2, <1>4, <2>1, <2>2 DEF PagesInv, Counted, Pending
<1>20. Typed'
  BY <1>2, <1>7 DEF PagesInv, Typed
<1> QED BY <1>9, <1>10, <1>11, <1>16, <1>17, <1>18, <1>19, <1>20 DEF PagesInv

-----------------------------------------------------------------------------
(* Answers.                                                                 *)

LEMMA FollowingIs ==
  ASSUME PagesInv, NEW c \in calls, sent' = sent + Cardinality(Following(c)), UNCHANGED <<page, handled, latest>>
  PROVE  \/ /\ Following(c) = {} /\ sent' = sent
            /\ c.does = "load" \/ page \notin Reloading
            /\ c.does # "setBaseline"
         \/ \E w : /\ Following(c) = {w} /\ sent' = sent + 1
                   /\ w.n = sent + 1 /\ w.stage = "sent" /\ w.filter = c.filter
                   /\ w.does = IF c.does = "setBaseline" THEN "change" ELSE "load"
                   /\ page \in Reloading /\ c.does # "load"
                   /\ (IsPageCall(w) /\ Carried(w))'
<1>1. /\ page \in Pages \cup {"none"} /\ sent \in Nat /\ handled \in Nat /\ c.filter \in Filters
      /\ Nobody \in Lists /\ Carried(c)
  BY DEF PagesInv, PagesTypes, IsPageCall, Nobody, Lists, Unlisted
<1>2. c.does = "setBaseline" => page = "alerts"
  BY <1>1 DEF Carried, Kinds, Pages, Reloading, Filtered, Edited
<1>3. page = "alerts" => page \in Reloading
  BY DEF Reloading
<1>4. Cardinality({}) = 0 /\ \A w : Cardinality({w}) = 1
  BY FS_EmptySet, FS_Singleton
<1>5. CASE c.does = "setBaseline" \/ (page \in Reloading /\ c.does # "load")
  <2> DEFINE does == IF c.does = "setBaseline" THEN "change" ELSE "load"
             item == IF c.does = "setBaseline" THEN c.item ELSE Every
  <2>1. PICK w : w = [Call(does, item, Nobody, sent + 1) EXCEPT !.filter = c.filter]
    OBVIOUS
  <2>2. Following(c) = {w}
    BY <1>5, <2>1 DEF Following
  <2> HIDE DEF item
  <2>3. sent' = sent + 1
    BY <1>4, <2>2
  <2>4. w = [n |-> sent + 1, does |-> does, item |-> item, list |-> Nobody, filter |-> c.filter,
             stage |-> "sent", got |-> Nobody, at |-> 0]
    BY <2>1 DEF Call
  <2>5. IsPageCall(w)'
    BY <1>1, <2>3, <2>4 DEF IsPageCall, Lists, Filters
  <2>6. Carried(w)'
    BY <1>2, <2>4 DEF Carried, Kinds
  <2>7. c.does # "load" /\ page \in Reloading
    BY <1>2, <1>3, <1>5
  <2> QED BY <2>2, <2>3, <2>4, <2>5, <2>6, <2>7
<1>6. CASE ~(c.does = "setBaseline" \/ (page \in Reloading /\ c.does # "load"))
  <2>1. Following(c) = {}
    BY <1>6 DEF Following
  <2> QED BY <1>1, <1>4, <1>6, <2>1
<1> QED BY <1>5, <1>6

\* An answer sets the items it brings, to what the API made of them, and no others.
LEMMA TakenIs ==
  ASSUME PagesInv, NEW c \in calls, c.stage = "done"
  PROVE  /\ Taken(c) \in Lists
         /\ \A i \in Items : Taken(c)[i] = IF Brings(c, i) THEN c.got[i] ELSE shown[i]
<1>1. /\ page \in Pages \cup {"none"} /\ c.got \in Lists /\ shown \in Lists /\ Carried(c) /\ c.list \in Lists
      /\ Read \in Nat /\ Unlisted \in Nat /\ Read # Unlisted
  BY DEF PagesInv, PagesTypes, IsPageCall, Read, Unlisted
<1>2. /\ c.does \in {"save", "reset"} => page \in {"limits", "health"} /\ c.item \in Items
      /\ c.does = "mark" => page = "events" /\ c.item \in Items /\ c.list[c.item] = Read
      /\ c.does = "markAll" => page = "events"
  BY <1>1 DEF Carried, Kinds, Pages, Reloading, Filtered, Edited
<1>3. ASSUME page \in Listing, c.does # "load"
      PROVE  /\ \A i \in Items : shown[i] = Unlisted <=> c.got[i] = Unlisted
             /\ c.does = "mark" => c.got[c.item] \in {Unlisted, Read}
             /\ c.does = "markAll" => \A i \in Items : c.got[i] \in {Unlisted, Read}
  BY <1>3 DEF PagesInv, ListedAlike
<1> HIDE DEF Unlisted, Read
<1>4. CASE c.does \in {"load", "saveAll"}
  BY <1>1, <1>4 DEF Taken, Brings
<1>5. CASE c.does \in {"save", "reset"}
  <2>1. Taken(c) = [shown EXCEPT ![c.item] = IF shown[c.item] = Unlisted THEN Unlisted ELSE c.got[c.item]]
    BY <1>5 DEF Taken, Put
  <2>2. shown[c.item] = Unlisted <=> c.got[c.item] = Unlisted
    BY <1>2, <1>3, <1>5 DEF Listing
  <2>3. Taken(c) = [shown EXCEPT ![c.item] = c.got[c.item]]
    BY <2>1, <2>2
  <2>4. \A i \in Items : Brings(c, i) <=> c.item = i
    BY <1>5 DEF Brings
  <2> QED BY <1>1, <1>2, <1>5, <2>3, <2>4 DEF Lists
<1>6. CASE c.does = "mark"
  <2>1. Taken(c) = [shown EXCEPT ![c.item] = IF shown[c.item] = Unlisted THEN Unlisted ELSE c.list[c.item]]
    BY <1>6 DEF Taken, Put
  <2>2. (shown[c.item] = Unlisted <=> c.got[c.item] = Unlisted) /\ c.got[c.item] \in {Unlisted, Read}
    BY <1>2, <1>3, <1>6 DEF Listing
  <2>3. Taken(c) = [shown EXCEPT ![c.item] = c.got[c.item]]
    BY <1>2, <1>6, <2>1, <2>2
  <2>4. \A i \in Items : Brings(c, i) <=> c.item = i
    BY <1>6 DEF Brings
  <2> QED BY <1>1, <1>2, <1>6, <2>3, <2>4 DEF Lists
<1>7. CASE c.does = "markAll"
  <2>1. Taken(c) = [i \in Items |-> IF shown[i] = Unlisted THEN Unlisted ELSE Read]
    BY <1>7 DEF Taken
  <2>2. \A i \in Items : (shown[i] = Unlisted <=> c.got[i] = Unlisted) /\ c.got[i] \in {Unlisted, Read}
    BY <1>2, <1>3, <1>7 DEF Listing
  <2>3. \A i \in Items : Brings(c, i)
    BY <1>7 DEF Brings
  <2> QED BY <1>1, <2>1, <2>2, <2>3 DEF Lists
<1>8. CASE c.does \notin {"load", "saveAll", "save", "reset", "mark", "markAll"}
  BY <1>1, <1>8 DEF Taken, Brings
<1> QED BY <1>4, <1>5, <1>6, <1>7, <1>8

LEMMA UnreadIs ==
  /\ \A list : Unread(list) \in Nat
  /\ \A list : (\A i \in Items : list[i] \in {Unlisted, Read}) => Unread(list) = 0
  /\ \A list, i : i \in Items /\ list[i] \notin {Unlisted, Read} => Unread(list) > 0
<1> DEFINE U(list) == {i \in Items : list[i] \notin {Unlisted, Read}}
<1>1. \A list : IsFiniteSet(U(list))
  BY PagesAssumption, FS_Subset
<1>2. \A list : Cardinality(U(list)) \in Nat /\ (Cardinality(U(list)) = 0 <=> U(list) = {})
  BY <1>1, FS_CardinalityType, FS_EmptySet
<1> QED BY <1>2 DEF Unread

LEMMA UnreadLess ==
  ASSUME NEW list, NEW other, NEW i \in Items, list[i] \notin {Unlisted, Read}, other[i] = Read,
         \A k \in Items : k # i => other[k] = list[k]
  PROVE  Unread(other) = Unread(list) - 1
<1> DEFINE U == {k \in Items : list[k] \notin {Unlisted, Read}}
<1>1. IsFiniteSet(U) /\ i \in U
  BY PagesAssumption, FS_Subset
<1>2. {k \in Items : other[k] \notin {Unlisted, Read}} = U \ {i}
  OBVIOUS
<1> HIDE DEF U
<1>3. Cardinality(U \ {i}) = Cardinality(U) - 1
  BY <1>1, FS_RemoveElement
<1> QED BY <1>2, <1>3 DEF Unread, U

LEMMA AnswerKeeps ==
  ASSUME PagesInv, NEW c \in calls, Answered(c)
  PROVE  PagesInv'
<1>1. /\ c.stage = "done"
      /\ calls' = (calls \ {c}) \cup Following(c) /\ sent' = sent + Cardinality(Following(c))
      /\ shown' = Taken(c) /\ unread' = UnreadAfter(c)
      /\ shownFor' = (IF c.does = "load" THEN c.filter ELSE shownFor)
      /\ edited' = (IF c.does = "saveAll" THEN {} ELSE edited)
      /\ applied' = c.at
      /\ excuses' = (IF c.at < applied THEN excuses \cup {"overtaken"} ELSE excuses)
      /\ UNCHANGED <<page, server, filter, handled, latest, typed>>
  BY DEF Answered
<1>2. /\ loading' \in Flags /\ error' \in Flags
      /\ Following(c) = {} => error' = error
  BY DEF Answered, Settle, PagesInv, PagesTypes, Flags
<1>3. /\ IsPageCall(c) /\ Carried(c) /\ c.at \in Nat /\ c.at <= handled /\ c.n \in Nat /\ c.n <= latest
      /\ c.got \in Lists /\ c.filter \in Filters
      /\ sent \in Nat /\ handled \in Nat /\ latest \in Nat /\ applied \in Nat
      /\ page \in Pages /\ page # "none"
  BY <1>1 DEF PagesInv, PagesTypes, IsPageCall
<1>4. \/ /\ Following(c) = {} /\ sent' = sent
         /\ c.does = "load" \/ page \notin Reloading
         /\ c.does # "setBaseline"
      \/ \E w : /\ Following(c) = {w} /\ sent' = sent + 1
                /\ w.n = sent + 1 /\ w.stage = "sent" /\ w.filter = c.filter
                /\ w.does = (IF c.does = "setBaseline" THEN "change" ELSE "load")
                /\ page \in Reloading /\ c.does # "load"
                /\ (IsPageCall(w) /\ Carried(w))'
  BY <1>1, FollowingIs
<1>5. /\ shown' \in Lists
      /\ \A i \in Items : shown'[i] = IF Brings(c, i) THEN c.got[i] ELSE shown[i]
  BY <1>1, TakenIs
<1>6. edited' = {}
  BY <1>1, <1>3, KindsAre DEF PagesInv, OneCall, Carried
<1>7. unread' \in Nat
  BY <1>1, UnreadIs DEF UnreadAfter, PagesInv, PagesTypes
<1>8. sent' \in Nat /\ sent' >= sent
  BY <1>3, <1>4
<1>9. \A x \in excuses : x \in excuses'
  BY <1>1
<1>10. \A d \in calls' : (d \in calls /\ d # c) \/ (d \in Following(c) /\ d.stage = "sent")
  BY <1>1, <1>4
<1>11. \A d \in calls : d # c => d \in calls'
  BY <1>1
<1>12. \A d \in calls : d.n \in Nat /\ d.at \in Nat /\ d.n <= sent /\ d.stage \in {"sent", "done"}
  BY DEF PagesInv, PagesTypes, IsPageCall
<1>13. page \in Listing \cup Edited => Following(c) = {} /\ calls' = calls \ {c}
  BY <1>1, <1>4 DEF Reloading, Listing, Edited
<1>14. PagesTypes'
  <2>1. ASSUME NEW d \in calls PROVE (IsPageCall(d) /\ Carried(d))'
    <3>1. IsPageCall(d) /\ Carried(d)
      BY DEF PagesInv, PagesTypes
    <3> QED BY <1>1, <1>3, <1>8, <3>1, CallStays
  <2>2. \A d \in Following(c) : (IsPageCall(d) /\ Carried(d))'
    BY <1>4
  <2>3. \A d \in calls' : (IsPageCall(d) /\ Carried(d))'
    BY <1>1, <2>1, <2>2
  <2> QED BY <1>1, <1>2, <1>3, <1>5, <1>6, <1>7, <1>8, <2>3 DEF PagesInv, PagesTypes, Lists
<1>15. ListedAlike'
  <2> SUFFICES ASSUME page \in Listing PROVE ListedAlike'
    BY <1>1 DEF ListedAlike
  <2>1. Loaded' /\ \A d \in calls' : d.does # "load" /\ d \in calls
    <3>1. CASE c.does = "load"
      BY <1>1, <1>3, <1>13, <3>1 DEF PagesInv, ListedAlike, Loaded
    <3>2. CASE c.does # "load"
      BY <1>1, <1>13, <3>2 DEF PagesInv, ListedAlike, Loaded
    <3> QED BY <3>1, <3>2
  <2>2. \A i \in Items : shown'[i] = Unlisted <=> server[i] = Unlisted
    <3>1. \A i \in Items : c.got[i] = Unlisted <=> server[i] = Unlisted
      BY <1>1 DEF PagesInv, ListedAlike
    <3>2. CASE c.does = "load"
      BY <1>1, <1>5, <3>1, <3>2 DEF Brings
    <3>3. CASE c.does # "load"
      BY <1>5, <3>1, <3>3 DEF PagesInv, ListedAlike
    <3> QED BY <3>2, <3>3
  <2> QED BY <1>1, <2>1, <2>2 DEF PagesInv, ListedAlike
<1>16. OneCall'
  <2>1. page = "overview" => calls' = Following(c)
    BY <1>1 DEF PagesInv, OneCall
  <2>2. page \in Edited => calls' = {}
    BY <1>13 DEF PagesInv, OneCall
  <2>3. \A d, x \in Following(c) : d = x
    BY <1>4
  <2> QED BY <1>1, <1>6, <2>1, <2>2, <2>3 DEF OneCall
<1>17. ASSUME "overtaken" \notin excuses', NEW i \in Items, ItemKept(i)
       PROVE  ItemKept(i)'
  <2>1. c.at >= applied
    BY <1>1, <1>3, <1>17
  <2>2. \A d \in calls' : Brings(d, i)' => d \in calls /\ Brings(d, i)
    BY <1>10 DEF Brings
  <2>3. shown'[i] = IF Brings(c, i) THEN c.got[i] ELSE shown[i]
    BY <1>5
  <2>4. CASE ItemCurrent(i)
    <3>1. shown'[i] = server[i]
      BY <1>3, <2>1, <2>3, <2>4 DEF ItemCurrent
    <3>2. \A d \in calls' : Brings(d, i)' => d.got[i] = server[i] \/ d.at < c.at
      BY <1>3, <1>12, <2>1, <2>2, <2>4 DEF ItemCurrent
    <3> QED BY <1>1, <3>1, <3>2 DEF ItemCurrent, ItemKept
  <2>5. ASSUME NEW w \in calls, Renews(w, i) PROVE ItemKept(i)'
    <3>1. CASE w # c
      <4>1. w \in calls' /\ Renews(w, i)'
        BY <1>1, <1>11, <2>2, <2>5, <3>1 DEF Renews, Brings
      <4> QED BY <4>1 DEF ItemKept
    <3>2. CASE w = c /\ page \in Reloading /\ c.does \notin {"load", "setBaseline"}
      <4>1. \E d \in calls' : d.does = "load" /\ d.stage = "sent"
        BY <1>1, <1>4, <3>2
      <4> QED BY <4>1 DEF Renews, ItemKept
    <3>3. CASE w = c /\ ~(page \in Reloading /\ c.does \notin {"load", "setBaseline"})
      <4>1. Brings(c, i) /\ c.got[i] = server[i] /\ \A d \in calls : Brings(d, i) => d.got[i] = server[i] \/ d.at < c.at
        BY <1>1, <2>5, <3>3 DEF Renews
      <4> QED BY <1>1, <2>2, <2>3, <4>1 DEF ItemCurrent, ItemKept
    <3> QED BY <3>1, <3>2, <3>3
  <2> QED BY <1>17, <2>4, <2>5 DEF ItemKept
<1>18. KeptUnlessLost'
  <2> SUFFICES ASSUME "lost" \notin excuses', "overtaken" \notin excuses', NEW i \in Items
      PROVE  ItemKept(i)'
    BY DEF KeptUnlessLost
  <2>1. ItemKept(i)
    BY <1>1, <1>3, <1>9 DEF PagesInv, KeptUnlessLost
  <2> QED BY <1>17, <2>1
<1>19. KeptOrError'
  <2> SUFFICES ASSUME page \in Reloading, ~error', "overtaken" \notin excuses'
      PROVE  (\A i \in Items : ItemKept(i)') \/ \E d \in calls' : d.does # "load"
    BY <1>1 DEF KeptOrError
  <2>1. CASE Following(c) = {}
    <3>1. c.does = "load" /\ ~error
      BY <1>2, <1>4, <2>1
    <3>2. (\A i \in Items : ItemKept(i)) \/ \E d \in calls : d.does # "load"
      BY <1>9, <3>1 DEF PagesInv, KeptOrError
    <3> QED BY <1>11, <1>17, <3>1, <3>2
  <2>2. CASE Following(c) # {}
    <3>1. PICK d \in calls' : d.stage = "sent"
      BY <1>1, <1>4, <2>2
    <3>2. d.does = "load" => \A i \in Items : ItemKept(i)'
      BY <3>1 DEF ItemKept, Renews
    <3> QED BY <3>1, <3>2
  <2> QED BY <2>1, <2>2
<1>20. FilterTells'
  <2> SUFFICES ASSUME page \in Filtered, "switched" \notin excuses', "swapped" \notin excuses',
                      "overtaken" \notin excuses'
      PROVE  /\ \A d \in calls' : d.does # "load" => d.filter = filter
             /\ error' \/ FilterShown' \/ \E d \in calls' : BringsFilter(d)'
    BY <1>1 DEF FilterTells
  <2>1. /\ \A d \in calls : d.does # "load" => d.filter = filter
        /\ error \/ FilterShown \/ \E d \in calls : BringsFilter(d)
    BY <1>9 DEF PagesInv, FilterTells
  <2>2. c.at >= applied
    BY <1>1, <1>3
  <2>3. CASE Following(c) = {}
    <3>1. c.does = "load"
      <4>1. page = "usage" => Kinds(page) = {}
        BY DEF Kinds
      <4>2. page = "timeline" => page \in Reloading
        BY DEF Reloading
      <4> QED BY <1>3, <1>4, <2>3, <4>1, <4>2 DEF Carried, Filtered
    <3>2. calls' = calls \ {c} /\ error' = error /\ shownFor' = c.filter /\ filter' = filter /\ latest' = latest
      BY <1>1, <1>2, <2>3, <3>1
    <3>3. CASE FilterShown
      <4>1. c.filter = filter
        BY <1>1, <1>3, <2>2, <3>1, <3>3 DEF FilterShown, Doomed, Pending
      <4>2. \A d \in calls' : d.does = "load" => d.filter = filter \/ Doomed(d)'
        BY <1>1, <1>3, <1>12, <2>2, <3>2, <3>3 DEF FilterShown, Doomed, Pending
      <4> QED BY <2>1, <3>2, <4>1, <4>2 DEF FilterShown, Pending
    <3>4. CASE BringsFilter(c)
      <4>1. c.filter = filter /\ \A d \in calls : d.does = "load" => d.filter = filter \/ Before(d, c)
        BY <3>1, <3>4 DEF BringsFilter, Pending
      <4>2. ASSUME NEW d \in calls, Before(d, c) PROVE Doomed(d)'
        BY <1>1, <1>3, <1>12, <4>2 DEF Before, Doomed
      <4>3. \A d \in calls' : d.does = "load" => d.filter = filter \/ Doomed(d)'
        BY <3>2, <4>1, <4>2
      <4> QED BY <2>1, <3>2, <4>1, <4>3 DEF FilterShown, Pending
    <3>5. ASSUME NEW x \in calls, x # c, BringsFilter(x) PROVE x \in calls' /\ BringsFilter(x)'
      BY <3>2, <3>5 DEF BringsFilter, Pending, Before
    <3> QED BY <2>1, <3>2, <3>3, <3>4, <3>5
  <2>4. CASE Following(c) # {}
    <3>1. PICK w : /\ Following(c) = {w} /\ w.n = sent + 1 /\ w.stage = "sent" /\ w.filter = c.filter
                   /\ c.does # "load"
      BY <1>4, <2>4
    <3>2. w.filter = filter /\ calls' = (calls \ {c}) \cup {w}
      BY <1>1, <2>1, <3>1
    <3>3. \A d \in calls : d.n < w.n
      BY <1>3, <1>12, <3>1
    <3>4. BringsFilter(w)'
      BY <1>1, <3>1, <3>2, <3>3 DEF BringsFilter, Before, Pending
    <3> QED BY <2>1, <3>2, <3>4
  <2> QED BY <2>3, <2>4
<1>21. Counted'
  <2> SUFFICES ASSUME page = "events", excuses' = {} PROVE Counted'
    BY <1>1 DEF Counted
  <2>1. /\ excuses = {} /\ calls' = calls \ {c} /\ unread = Unread(shown)
        /\ \A d \in Pending("mark") : /\ shown[d.item] # Unlisted
                                      /\ shown[d.item] = Read => Unread(shown) = 0
        /\ \A d, x \in Pending("mark") : d.item = x.item => d = x
    BY <1>1, <1>9, <1>13 DEF Listing, PagesInv, Counted
  <2>2. Pending("mark")' = Pending("mark") \ {c}
    BY <2>1 DEF Pending
  <2>3. c.does \in {"load", "mark", "markAll"}
    BY <1>3 DEF Carried, Kinds, Reloading, Filtered, Edited, Pages
  <2>4. \A d \in Pending("mark") : d.item \in Items
    BY DEF Pending, PagesInv, PagesTypes, Carried
  <2>5. Unread(shown)' = Unread(shown') /\ unread' = UnreadAfter(c) /\ shown' = Taken(c)
    BY <1>1 DEF Unread
  <2>6. Read # Unlisted
    BY DEF Read, Unlisted
  <2> HIDE DEF Read, Unlisted
  <2>7. CASE c.does = "load"
    <3>1. unread' = Unread(shown')
      BY <2>5, <2>7 DEF Taken, UnreadAfter
    <3>2. Pending("mark")' = {}
      BY <2>1, <2>7 DEF Pending, PagesInv, ListedAlike, Listing
    <3> QED BY <2>5, <3>1, <3>2 DEF Counted
  <2>8. CASE c.does = "markAll"
    <3>1. \A i \in Items : shown'[i] = IF shown[i] = Unlisted THEN Unlisted ELSE Read
      BY <2>5, <2>8 DEF Taken
    <3>2. unread' = 0 /\ Unread(shown') = 0
      BY <2>5, <2>8, <3>1, UnreadIs DEF UnreadAfter
    <3> QED BY <2>1, <2>2, <2>4, <2>5, <2>6, <3>1, <3>2 DEF Counted
  <2>9. CASE c.does = "mark"
    <3>1. c \in Pending("mark") /\ c.item \in Items /\ c.list[c.item] = Read
      BY <1>3, <2>9 DEF Pending, Carried
    <3>2. shown'[c.item] = Read /\ \A i \in Items : i # c.item => shown'[i] = shown[i]
      BY <2>1, <2>5, <2>9, <3>1 DEF Taken, Put, PagesInv, PagesTypes, Lists
    <3>3. unread' = Unread(shown') /\ (Unread(shown) = 0 => Unread(shown') = 0)
      <4>1. CASE shown[c.item] = Read
        <5>1. \A i \in Items : shown'[i] = shown[i]
          BY <3>2, <4>1
        <5>2. Unread(shown') = Unread(shown)
          BY <5>1 DEF Unread
        <5> QED BY <2>1, <2>5, <2>9, <3>1, <4>1, <5>2 DEF UnreadAfter
      <4>2. CASE shown[c.item] # Read
        <5>1. Unread(shown') = Unread(shown) - 1
          BY <2>1, <3>1, <3>2, <4>2, UnreadLess
        <5>2. Unread(shown) > 0 /\ Unread(shown) \in Nat
          BY <2>1, <3>1, <4>2, UnreadIs
        <5> QED BY <2>1, <2>5, <2>9, <5>1, <5>2 DEF UnreadAfter
      <4> QED BY <4>1, <4>2
    <3>4. \A d \in Pending("mark")' : d \in Pending("mark") /\ d.item # c.item /\ shown'[d.item] = shown[d.item]
      BY <2>1, <2>2, <2>4, <3>1, <3>2
    <3> QED BY <2>1, <2>5, <3>3, <3>4 DEF Counted
  <2> QED BY <2>3, <2>7, <2>8, <2>9
<1>22. Typed'
  BY <1>6 DEF Typed
<1> QED BY <1>14, <1>15, <1>16, <1>18, <1>19, <1>20, <1>21, <1>22 DEF PagesInv

LEMMA RejectKeeps ==
  ASSUME PagesInv, NEW c \in calls, Rejected(c)
  PROVE  PagesInv'
<1>1. /\ calls' = calls \ {c}
      /\ shown' = (IF Optional(c) THEN Nobody ELSE shown)
      /\ error' = (error \/ (page # "events" /\ ~Optional(c)))
      /\ excuses' = (IF c.stage = "done" \/ c.does = "load" THEN excuses \cup {"lost"} ELSE excuses)
      /\ UNCHANGED <<page, server, shownFor, unread, filter, sent, handled, latest, edited, typed, applied>>
  BY DEF Rejected, editVars
<1>2. loading' \in Flags /\ error' \in Flags
  BY <1>1 DEF Rejected, Settle, PagesInv, PagesTypes, Flags
<1>3. Optional(c) => page = "overview" /\ calls' = {}
  BY <1>1 DEF Optional, PagesInv, OneCall
<1>4. \A d \in calls' : d \in calls /\ d # c
  BY <1>1
<1>5. \A x \in excuses : x \in excuses'
  BY <1>1
<1>6. Nobody \in Lists /\ IsPageCall(c) /\ page # "none"
  BY DEF Nobody, Lists, Unlisted, PagesInv, PagesTypes
<1>7. PagesTypes'
  <2>1. ASSUME NEW d \in calls PROVE (IsPageCall(d) /\ Carried(d))'
    <3>1. IsPageCall(d) /\ Carried(d) /\ sent \in Nat /\ latest \in Nat /\ handled \in Nat
      BY DEF PagesInv, PagesTypes
    <3> QED BY <1>1, <3>1, CallStays
  <2>2. \A d \in calls' : (IsPageCall(d) /\ Carried(d))'
    BY <1>4, <2>1
  <2> QED BY <1>1, <1>2, <1>6, <2>2 DEF PagesInv, PagesTypes, Lists
<1>8. ListedAlike'
  <2>1. page \in Listing => shown' = shown
    BY <1>1, <1>3 DEF Listing
  <2> QED BY <1>1, <1>4, <2>1 DEF PagesInv, ListedAlike, Loaded, Nobody
<1>9. OneCall'
  <2>1. page \in Edited => calls' = {}
    BY <1>1 DEF PagesInv, OneCall
  <2> QED BY <1>1, <2>1 DEF PagesInv, OneCall
<1>10. ASSUME NEW i \in Items, ItemKept(i), c.stage # "done" /\ c.does # "load"
       PROVE  ItemKept(i)'
  <2>1. shown' = shown /\ ~Brings(c, i) /\ \A d \in calls' : Brings(d, i)' => d \in calls /\ Brings(d, i)
    BY <1>1, <1>4, <1>10 DEF Optional, Brings
  <2>2. CASE ItemCurrent(i)
    BY <1>1, <2>1, <2>2 DEF ItemCurrent, ItemKept
  <2>3. ASSUME NEW w \in calls, Renews(w, i) PROVE w \in calls' /\ Renews(w, i)'
    BY <1>1, <1>10, <2>1, <2>3 DEF Renews, Brings
  <2> QED BY <1>10, <2>2, <2>3 DEF ItemKept
<1>11. KeptUnlessLost'
  <2> SUFFICES ASSUME "lost" \notin excuses', "overtaken" \notin excuses', NEW i \in Items
      PROVE  ItemKept(i)' \/ (i \in edited' /\ \A d \in calls' : d.stage = "sent")
    BY DEF KeptUnlessLost
  <2>1. c.stage # "done" /\ c.does # "load"
    BY <1>1
  <2>2. ItemKept(i) \/ (i \in edited /\ \A d \in calls : d.stage = "sent")
    BY <1>5, <1>6 DEF PagesInv, KeptUnlessLost
  <2> QED BY <1>1, <1>10, <2>1, <2>2
<1>12. KeptOrError'
  <2> SUFFICES ASSUME page \in Reloading, ~error', "overtaken" \notin excuses' PROVE KeptOrError'
    BY <1>1 DEF KeptOrError
  <2>1. Optional(c)
    BY <1>1 DEF Reloading
  <2> QED BY <1>1, <1>3, <2>1 DEF KeptOrError, Nobody
<1>13. FilterTells'
  <2> SUFFICES ASSUME page \in Filtered, "switched" \notin excuses', "swapped" \notin excuses',
                      "overtaken" \notin excuses'
      PROVE  error' /\ \A d \in calls' : d.does # "load" => d.filter = filter
    BY <1>1 DEF FilterTells
  <2> QED BY <1>1, <1>4, <1>5 DEF PagesInv, FilterTells, Filtered, Optional
<1>14. Counted'
  <2> SUFFICES ASSUME page = "events", excuses' = {} PROVE Counted'
    BY <1>1 DEF Counted
  <2>1. excuses = {} /\ shown' = shown /\ Unread(shown)' = Unread(shown)
    BY <1>1, <1>5 DEF Optional, Unread
  <2> QED BY <1>1, <2>1 DEF PagesInv, Counted, Pending
<1>15. Typed'
  <2>1. ~Optional(c) \/ edited = {}
    BY DEF Optional, PagesInv, OneCall, Edited
  <2> QED BY <1>1, <1>5, <2>1 DEF PagesInv, Typed
<1> QED BY <1>7, <1>8, <1>9, <1>11, <1>12, <1>13, <1>14, <1>15 DEF PagesInv

LEMMA MountKeeps ==
  ASSUME PagesInv, NEW p \in Pages, NEW list \in [Items -> Values \cup {Unlisted}], Mount(p, list)
  PROVE  PagesInv'
<1>1. PICK w : w = Call("load", Every, Nobody, 1)
  OBVIOUS
<1>2. /\ page = "none" /\ page' = p /\ server' = list
      /\ shown' = (IF p = "preferences" THEN Defaults ELSE Nobody)
      /\ calls' = {w} /\ sent' = 1 /\ loading' = TRUE
      /\ UNCHANGED <<shownFor, filter, unread, handled, latest, error, edited, typed, applied, excuses>>
  BY <1>1 DEF Mount, editVars
<1>3. /\ Nobody \in Lists /\ Defaults \in Lists /\ list \in Lists
  <2>1. Values \cup {Unlisted} \subseteq Nat /\ Read \in Nat /\ Unlisted \in Nat
    BY PagesAssumption DEF Unlisted, Read
  <2>2. list \in Lists
    BY <2>1 DEF Lists
  <2> QED BY <2>1, <2>2 DEF Nobody, Defaults, Lists
<1>4. /\ calls = {} /\ ~Loaded /\ unread = 0 /\ edited = {} /\ filter \in Filters /\ handled \in Nat
  BY <1>2 DEF PagesInv, PagesTypes, OneCall, Edited
<1>5. /\ w.n = 1 /\ w.does = "load" /\ w.filter = filter /\ w.stage = "sent" /\ IsPageCall(w)'
  BY <1>1, <1>2, <1>3, <1>4, PageCallIs
<1>6. Carried(w)'
  BY <1>5 DEF Carried
<1>7. page' # "none"
  BY <1>2 DEF Pages, Reloading, Filtered, Edited
<1>8. PagesTypes'
  BY <1>2, <1>3, <1>5, <1>6, <1>7 DEF PagesInv, PagesTypes, Flags, Lists
<1>9. ListedAlike'
  <2>1. page' \in Listing => shown' = Nobody'
    BY <1>2 DEF Listing, Nobody
  <2> QED BY <1>2, <1>4, <1>5, <2>1 DEF ListedAlike, Loaded
<1>10. OneCall'
  BY <1>2, <1>4, <1>5 DEF OneCall
<1>11. \A i \in Items : ItemKept(i)'
  BY <1>2, <1>5 DEF ItemKept, Renews
<1>12. BringsFilter(w)'
  BY <1>2, <1>5 DEF BringsFilter, Pending
<1>13. KeptUnlessLost' /\ KeptOrError'
  BY <1>11 DEF KeptUnlessLost, KeptOrError
<1>14. FilterTells'
  BY <1>2, <1>5, <1>12 DEF FilterTells
<1>15. Counted'
  <2> SUFFICES ASSUME page' = "events" PROVE Counted'
    BY DEF Counted
  <2>1. Unread(Nobody) = 0 /\ Unread(shown)' = Unread(Nobody)
    <3>1. \A i \in Items : Nobody[i] = Unlisted
      BY DEF Nobody
    <3>2. shown' = Nobody
      BY <1>2
    <3> QED BY <3>1, <3>2, UnreadIs DEF Unread
  <2>2. Pending("mark")' = {}
    BY <1>2, <1>5 DEF Pending
  <2> QED BY <1>2, <1>4, <2>1, <2>2 DEF Counted
<1>16. Typed'
  BY <1>2, <1>4 DEF Typed
<1> QED BY <1>8, <1>9, <1>10, <1>13, <1>14, <1>15, <1>16 DEF PagesInv

LEMMA EditKeeps ==
  ASSUME PagesInv, NEW i \in Items, NEW v \in Values, EditItem(i, v)
  PROVE  PagesInv'
<1>1. /\ page \in Edited /\ ~loading
      /\ shown' = [shown EXCEPT ![i] = v]
      /\ edited' = edited \cup {i} /\ typed' = [typed EXCEPT ![i] = v]
      /\ excuses' = (IF calls # {} THEN excuses \cup {"edited"} ELSE excuses)
      /\ UNCHANGED <<page, server, shownFor, unread, filter, calls, sent, handled, latest, loading, error, applied>>
  BY DEF EditItem, callVars
<1>2. /\ page \notin Reloading /\ page \notin Filtered /\ page \notin Listing /\ page # "events" /\ page # "none"
  BY <1>1 DEF Edited, Reloading, Filtered, Listing
<1>3. v \in Nat /\ shown \in Lists /\ typed \in Lists /\ edited \subseteq Items
  BY PagesAssumption DEF PagesInv, PagesTypes
<1>4. shown' \in Lists /\ typed' \in Lists
  BY <1>1, <1>3 DEF Lists
<1>5. PagesTypes'
  <2>1. ASSUME NEW d \in calls' PROVE (IsPageCall(d) /\ Carried(d))'
    <3>1. IsPageCall(d) /\ Carried(d) /\ sent \in Nat /\ latest \in Nat /\ handled \in Nat
      BY <1>1 DEF PagesInv, PagesTypes
    <3> QED BY <1>1, <3>1, CallStays
  <2> QED BY <1>1, <1>2, <1>3, <1>4, <2>1 DEF PagesInv, PagesTypes, Lists
<1>6. OneCall'
  <2>1. \A d \in calls : d.does # "load"
    BY <1>1 DEF PagesInv, OneCall
  <2> QED BY <1>1, <2>1 DEF PagesInv, OneCall
<1>7. KeptUnlessLost'
  <2> SUFFICES ASSUME "lost" \notin excuses', "overtaken" \notin excuses', NEW k \in Items
      PROVE  ItemKept(k)' \/ (k \in edited' /\ \A d \in calls' : d.stage = "sent")
    BY DEF KeptUnlessLost
  <2>1. \A d \in calls : d.stage = "sent" \/ d.stage = "done"
    BY DEF PagesInv, PagesTypes, IsPageCall
  <2>2. CASE \A d \in calls : d.stage = "sent"
    <3>1. CASE k = i
      BY <1>1, <2>2, <3>1
    <3>2. CASE k # i
      <4>1. ItemKept(k) \/ k \in edited
        BY <1>1, <1>2 DEF PagesInv, KeptUnlessLost
      <4>2. shown'[k] = shown[k]
        BY <1>1, <1>3, <3>2 DEF Lists
      <4>3. \A d \in calls : ~Brings(d, k)
        BY <2>2 DEF Brings
      <4>4. ItemKept(k) => ItemKept(k)'
        BY <1>1, <4>2, <4>3 DEF ItemKept, ItemCurrent, Renews, Brings
      <4> QED BY <1>1, <2>2, <4>1, <4>4
    <3> QED BY <3>1, <3>2
  <2>3. ASSUME NEW d \in calls, d.stage = "done" PROVE ItemKept(k)'
    <3>1. d.got = server /\ calls = {d} /\ d.does = "saveAll"
      BY <1>1, <2>3, KindsAre DEF PagesInv, PagesTypes, OneCall, Carried
    <3>2. Renews(d, k)'
      BY <1>1, <2>3, <3>1 DEF Renews, Brings
    <3> QED BY <1>1, <3>2 DEF ItemKept
  <2> QED BY <2>1, <2>2, <2>3
<1>8. Typed'
  <2>1. CASE calls # {}
    BY <1>1, <2>1 DEF Typed
  <2>2. CASE calls = {}
    BY <1>1, <1>3, <2>2 DEF Typed, PagesInv, Lists
  <2> QED BY <2>1, <2>2
<1> QED
  BY <1>1, <1>2, <1>5, <1>6, <1>7, <1>8 DEF PagesInv, ListedAlike, KeptOrError, FilterTells, Counted

LEMMA ResetKeeps ==
  ASSUME PagesInv, ResetDefaults
  PROVE  PagesInv'
<1>1. PICK w : w = Call("saveAll", Every, Defaults, sent + 1)
  OBVIOUS
<1>2. /\ page = "preferences" /\ calls = {}
      /\ shown' = Defaults /\ edited' = Items /\ typed' = Defaults
      /\ sent' = sent + 1 /\ calls' = {w} /\ error' = FALSE
      /\ UNCHANGED <<page, server, shownFor, unread, filter, handled, latest, loading, applied, excuses>>
  BY <1>1 DEF ResetDefaults
<1>3. Defaults \in Lists
  BY DEF Defaults, Lists, Read
<1>4. /\ sent \in Nat /\ handled \in Nat /\ filter \in Filters
  BY DEF PagesInv, PagesTypes
<1>5. w.does = "saveAll" /\ w.stage = "sent" /\ IsPageCall(w)'
  BY <1>1, <1>2, <1>3, <1>4, PageCallIs
<1>6. Carried(w)'
  BY <1>2, <1>5 DEF Carried, Kinds
<1>7. page \in Edited /\ page \notin Reloading /\ page \notin Filtered /\ page \notin Listing
  BY <1>2 DEF Edited, Reloading, Filtered, Listing
<1>8. PagesTypes'
  <2>1. \A c \in calls' : (IsPageCall(c) /\ Carried(c))'
    BY <1>2, <1>5, <1>6
  <2>2. error' \in Flags
    BY <1>2, Zenon DEF Flags
  <2>3. sent' \in Nat /\ page \in Pages /\ page # "none"
    BY <1>2, <1>4 DEF Pages, Edited
  <2> QED BY <1>2, <1>3, <2>1, <2>2, <2>3 DEF PagesInv, PagesTypes, Lists
<1>9. OneCall'
  BY <1>2, <1>5, <1>7 DEF OneCall
<1>10. KeptUnlessLost'
  BY <1>2, <1>5 DEF KeptUnlessLost
<1>11. Typed'
  BY <1>2 DEF Typed
<1> QED
  BY <1>2, <1>7, <1>8, <1>9, <1>10, <1>11 DEF PagesInv, ListedAlike, KeptOrError, FilterTells, Counted

LEMMA PagesStutter ==
  ASSUME PagesInv, UNCHANGED <<page, listVars, filter, callVars, loading, error, editVars, applied, excuses>>
  PROVE  PagesInv'
<1>1. /\ UNCHANGED <<page, server, shown, shownFor, unread, filter, calls, sent, handled, latest>>
      /\ UNCHANGED <<loading, error, edited, typed, applied, excuses>>
  BY DEF listVars, callVars, editVars
<1>2. ASSUME NEW d \in calls' PROVE (IsPageCall(d) /\ Carried(d))'
  <2>1. IsPageCall(d) /\ Carried(d) /\ sent \in Nat /\ latest \in Nat /\ handled \in Nat
    BY <1>1 DEF PagesInv, PagesTypes
  <2> QED BY <1>1, <2>1, CallStays
<1>3. PagesTypes'
  BY <1>1, <1>2 DEF PagesInv, PagesTypes, Lists, Loaded
<1>4. ListedAlike' /\ OneCall'
  BY <1>1 DEF PagesInv, ListedAlike, OneCall, Loaded, Nobody
<1>5. \A i : ItemKept(i)' <=> ItemKept(i)
  BY <1>1 DEF ItemKept, ItemCurrent, Renews, Brings
<1>6. KeptUnlessLost' /\ KeptOrError'
  BY <1>1, <1>5 DEF PagesInv, KeptUnlessLost, KeptOrError, Nobody
<1>7. FilterTells'
  BY <1>1 DEF PagesInv, FilterTells, FilterShown, BringsFilter, Before, Doomed, Pending
<1>8. Counted' /\ Typed'
  BY <1>1 DEF PagesInv, Counted, Typed, Unread, Pending
<1> QED BY <1>3, <1>4, <1>6, <1>7, <1>8 DEF PagesInv

LEMMA PagesStep ==
  ASSUME PagesInv, [PagesNext]_pagesVars
  PROVE  PagesInv'
<1>1. CASE Disarm \/ \E i \in Items : ArmResolve(i)
  BY <1>1, PagesStutter DEF Disarm, ArmResolve
<1>2. CASE UNCHANGED pagesVars
  BY <1>2, PagesStutter DEF pagesVars
<1> QED
  BY <1>1, <1>2, HandlersKeep, LoadsKeep, HandleKeeps, AnswerKeeps, RejectKeeps, MountKeeps, EditKeeps,
     ResetKeeps DEF PagesNext

\* The settings pages (apps/web/src/app/settings): what a page's copy, its calls under way
\* and the API's list have to do with one another stays as PagesInv says, for any items,
\* values and calls and any order of their answers.
THEOREM PagesInvariant == PagesSpec => []PagesInv
<1>1. PagesInit => PagesInv
  BY PagesStart
<1>2. PagesInv /\ [PagesNext]_pagesVars => PagesInv'
  BY PagesStep
<1> QED BY <1>1, <1>2, PTL DEF PagesSpec

\* A settings page whose calls are over shows what the API has, or an error, and the list of
\* its own filter, counts what is unread and keeps an edit until it is saved, but for the
\* named reasons, for any items, values and calls and any order of their answers.
THEOREM PagesSafety == PagesSpec => []PageTells
<1>1. PagesInv => PageTells
  BY PagesInvTells
<1> QED BY <1>1, PagesInvariant, PTL
=============================================================================
