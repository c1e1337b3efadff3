------------------------- MODULE ProviderConnection -------------------------
(***************************************************************************)
(* The connection of one user to one provider: the row ProviderConnection, *)
(* which five parties write, and the login windows of browserManager.ts.   *)
(*                                                                         *)
(*   connect/start    opens a login window and registers it               *)
(*   connect/status   validates the window, stores its session            *)
(*   disconnect       forgets the session           (all: providers.ts)   *)
(*   refresh          validates the session  (providerHealthService.ts)   *)
(*   a chat job       validates it too       (chatJobProcessor.ts)        *)
(*                                                                         *)
(* A step is what lies between two awaits.  A login window is named after  *)
(* the call of connect/start that opened it.                               *)
(***************************************************************************)
EXTENDS Naturals, FiniteSets

CONSTANTS Connects,   \* calls of connect/start
          Polls,      \* calls of connect/status; each may be repeated
          Closers,    \* calls of disconnect; each may be repeated
          Checkers,   \* refreshes and chat jobs; each may be repeated
          NoWindow

ASSUME ConnectionAssumption == NoWindow \notin Connects

VARIABLES
    status, blob,  \* the row; blob is the window whose session it holds
    windows,       \* browser contexts opened for a login and not closed
    registered,    \* connectSessions
    current,       \* connectByUserProvider
    expired,       \* windows older than connectTtlMs
    connect,       \* the awaited call of each connect/start
    poll, polled,  \* the awaited call of each connect/status, and its window
    closer,        \* the awaited call of each disconnect
    checker,       \* the verdict each validation is about to write
    cut,           \* history: disconnected, and nobody pressed Connect since
    overlapped,    \* history: two calls of connect/start ran at once
    overtaken      \* history: validations under way when the row was disconnected

rowVars == <<status, blob>>
browserVars == <<windows, registered, current, expired>>
pollVars == <<poll, polled>>
history == <<cut, overlapped, overtaken>>
vars == <<rowVars, browserVars, connect, pollVars, closer, checker, history>>

Refused == {"requires_login", "manual_action_required"}
Rows == {"absent", "connecting", "connected", "error", "disconnected"} \cup Refused

-----------------------------------------------------------------------------

Init ==
    /\ status = "absent" /\ blob = NoWindow
    /\ windows = {} /\ registered = {} /\ current = NoWindow /\ expired = {}
    /\ connect = [c \in Connects |-> "none"]
    /\ poll = [p \in Polls |-> "none"] /\ polled = [p \in Polls |-> NoWindow]
    /\ closer = [d \in Closers |-> "none"]
    /\ checker = [v \in Checkers |-> "none"]
    /\ cut = FALSE /\ overlapped = FALSE /\ overtaken = {}

(* closeConnectSession, for a set of windows.  It clears the entry of the   *)
(* user and provider, whichever window that names.                          *)
CloseWindowsOnly(ws) ==
    /\ registered' = registered \ ws
    /\ windows' = windows \ (ws \cap registered)
    /\ UNCHANGED <<current, expired>>
CloseWindows(ws) ==
    /\ registered' = registered \ ws
    /\ windows' = windows \ (ws \cap registered)
    /\ current' = IF ws \cap registered = {} THEN current ELSE NoWindow
    /\ UNCHANGED expired

-----------------------------------------------------------------------------
(* POST /providers/:provider/connect/start                                  *)

ConnectGoto(c, there) == connect' = [connect EXCEPT ![c] = there]

Busy(c) == connect[c] \notin {"none", "done"}

StartConnect(c) ==
    /\ connect[c] = "none"
    /\ status' = "connecting"
    /\ ConnectGoto(c, "sweep")
    /\ cut' = FALSE
    /\ overlapped' = (overlapped \/ \E x \in Connects : Busy(x))
    /\ UNCHANGED <<blob, browserVars, pollVars, closer, checker, overtaken>>

\* cleanupExpiredConnectSessions
Sweep(c) ==
    /\ connect[c] = "sweep"
    /\ CloseWindows(registered \cap expired)
    /\ ConnectGoto(c, "replace")
    /\ UNCHANGED <<rowVars, pollVars, closer, checker, history>>

\* closeExistingUserProviderSession
ReplaceNothing(c) ==
    /\ connect[c] = "replace"
    /\ ConnectGoto(c, "open")
    /\ UNCHANGED <<rowVars, browserVars, pollVars, closer, checker, history>>
Replace(c) ==
    /\ connect[c] = "replace"
    /\ CloseWindows({current} \cap registered)
    /\ ConnectGoto(c, "open")
    /\ UNCHANGED <<rowVars, pollVars, closer, checker, history>>

\* launchBrowser .. newContext
OpenWindow(c) ==
    /\ connect[c] = "open"
    /\ \/ windows' = windows \cup {c} /\ ConnectGoto(c, "goto")
       \/ UNCHANGED windows /\ ConnectGoto(c, "failed")
    /\ UNCHANGED <<rowVars, registered, current, expired, pollVars, closer, checker, history>>

\* page.goto, and the registration
Register(c) ==
    /\ connect[c] = "goto"
    /\ \/ registered' = registered \cup {c} /\ current' = c /\ ConnectGoto(c, "audit")
       \/ UNCHANGED <<registered, current>> /\ ConnectGoto(c, "failed")
    /\ UNCHANGED <<rowVars, windows, expired, pollVars, closer, checker, history>>

\* The audit row, inside the try block too.
AuditConnect(c) ==
    /\ connect[c] = "audit"
    /\ ConnectGoto(c, "done") \/ ConnectGoto(c, "failed")
    /\ UNCHANGED <<rowVars, browserVars, pollVars, closer, checker, history>>

ConnectFails(c) ==
    /\ connect[c] = "failed"
    /\ status' \in {"error", status}
    /\ ConnectGoto(c, "done")
    /\ UNCHANGED <<blob, browserVars, pollVars, closer, checker, history>>

-----------------------------------------------------------------------------
(* GET /providers/:provider/connect/status?connectSessionId=...             *)

PollGoto(p, there) == poll' = [poll EXCEPT ![p] = there]

\* getConnectSession; an expired window is closed and not found.  The page
\* knows the id of a window from the answer of connect/start.
FindWindow(p, c) ==
    /\ poll[p] = "none"
    /\ c \in registered /\ connect[c] = "done"
    /\ IF c \in expired
       THEN CloseWindows({c}) /\ UNCHANGED pollVars
       ELSE /\ PollGoto(p, "validate")
            /\ polled' = [polled EXCEPT ![p] = c]
            /\ UNCHANGED browserVars
    /\ UNCHANGED <<rowVars, connect, closer, checker, history>>

\* validateSession; in a closed window nobody is logged in.
ValidateWindow(p) ==
    /\ poll[p] = "validate"
    /\ \/ polled[p] \in windows /\ PollGoto(p, "export")
       \/ \E verdict \in Refused : PollGoto(p, verdict)
       \/ PollGoto(p, "failed")
    /\ UNCHANGED <<rowVars, browserVars, connect, polled, closer, checker, history>>

\* The row says what is missing, and the page will ask again.  Here as in
\* StoreSession the update may be rejected, which is an error of the poll.
NoteRefusal(p) ==
    /\ poll[p] \in Refused
    /\ \/ status' = poll[p] /\ PollGoto(p, "none")
       \/ UNCHANGED status /\ PollGoto(p, "failed")
    /\ UNCHANGED <<blob, browserVars, connect, polled, closer, checker, history>>

\* exportSession and encryptSession
ExportWindow(p) ==
    /\ poll[p] = "export"
    /\ \/ polled[p] \in windows /\ PollGoto(p, "store")
       \/ PollGoto(p, "failed")
    /\ UNCHANGED <<rowVars, browserVars, connect, polled, closer, checker, history>>

StoreStatusOnly(p) ==
    /\ poll[p] = "store"
    /\ status' = "connected"
    /\ PollGoto(p, "audit")
    /\ UNCHANGED <<blob, browserVars, connect, polled, closer, checker, history>>
StoreSession(p) ==
    /\ poll[p] = "store"
    /\ \/ status' = "connected" /\ blob' = polled[p] /\ PollGoto(p, "audit")
       \/ UNCHANGED rowVars /\ PollGoto(p, "failed")
    /\ UNCHANGED <<browserVars, connect, polled, closer, checker, history>>

AuditPoll(p) ==
    /\ poll[p] = "audit"
    /\ PollGoto(p, "close") \/ PollGoto(p, "failed")
    /\ UNCHANGED <<rowVars, browserVars, connect, polled, closer, checker, history>>

\* The window is closed at the end, and before an error is noted.
ClosePolled(p) ==
    /\ poll[p] \in {"close", "failed"}
    /\ CloseWindows({polled[p]})
    /\ PollGoto(p, IF poll[p] = "close" THEN "none" ELSE "mark")
    /\ UNCHANGED <<rowVars, connect, polled, closer, checker, history>>

PollFails(p) ==
    /\ poll[p] = "mark"
    /\ status' \in {"error", status}
    /\ PollGoto(p, "none")
    /\ UNCHANGED <<blob, browserVars, connect, polled, closer, checker, history>>

-----------------------------------------------------------------------------
(* POST /providers/:provider/disconnect                                     *)

Disconnect(d) ==
    /\ closer[d] = "none"
    /\ status' = "disconnected" /\ blob' = NoWindow
    /\ closer' = [closer EXCEPT ![d] = "close"]
    /\ cut' = TRUE
    /\ overtaken' = {v \in Checkers : checker[v] # "none"}
    /\ UNCHANGED <<browserVars, connect, pollVars, checker, overlapped>>

\* closeUserProviderSessions; the audit row changes nothing here.
CloseCurrent(d) ==
    /\ closer[d] = "close"
    /\ CloseWindows({current} \cap registered)
    /\ closer' = [closer EXCEPT ![d] = "none"]
    /\ UNCHANGED <<rowVars, connect, pollVars, checker, history>>

-----------------------------------------------------------------------------
(* Validations of the stored session.                                       *)

CheckGoto(v, there) == checker' = [checker EXCEPT ![v] = there]

\* refreshProviderHealth reads the row.  Without a session the verdict is
\* there at once, else it comes from the cookies' dates or from a browser.
BeginRefresh(v) ==
    /\ checker[v] = "none"
    /\ status \notin {"absent", "disconnected"}
    /\ IF blob = NoWindow
       THEN CheckGoto(v, "requires_login")
       ELSE \E verdict \in {"connected", "error"} \cup Refused : CheckGoto(v, verdict)
    /\ UNCHANGED <<rowVars, browserVars, connect, pollVars, closer, history>>

\* updateConnectionStatus: the status, whatever happened to the row since; a
\* rejected update is swallowed.
NoteVerdict(v) ==
    /\ checker[v] # "none"
    /\ status' \in {checker[v], status}
    /\ CheckGoto(v, "none")
    /\ overtaken' = overtaken \ {v}
    /\ UNCHANGED <<blob, browserVars, connect, pollVars, closer, cut, overlapped>>

\* A chat job only starts with a session, and only notes a refusal.
BeginJob(v) ==
    /\ checker[v] = "none"
    /\ status = "connected" /\ blob # NoWindow
    /\ \E verdict \in Refused : CheckGoto(v, verdict)
    /\ UNCHANGED <<rowVars, browserVars, connect, pollVars, closer, history>>

-----------------------------------------------------------------------------
Expire(c) ==
    /\ c \in registered \ expired
    /\ expired' = expired \cup {c}
    /\ UNCHANGED <<rowVars, windows, registered, current, connect, pollVars,
                   closer, checker, history>>

ConnectStep(c) == Sweep(c) \/ Replace(c) \/ OpenWindow(c) \/ Register(c)
                    \/ AuditConnect(c) \/ ConnectFails(c)
PollStep(p) == ValidateWindow(p) \/ NoteRefusal(p) \/ ExportWindow(p) \/ StoreSession(p)
                    \/ AuditPoll(p) \/ ClosePolled(p) \/ PollFails(p)

Next ==
    \/ \E c \in Connects : StartConnect(c) \/ ConnectStep(c) \/ Expire(c)
    \/ \E p \in Polls : PollStep(p) \/ \E c \in Connects : FindWindow(p, c)
    \/ \E d \in Closers : Disconnect(d) \/ CloseCurrent(d)
    \/ \E v \in Checkers : BeginRefresh(v) \/ BeginJob(v) \/ NoteVerdict(v)

Spec == Init /\ [][Next]_vars

-----------------------------------------------------------------------------
(* Properties.                                                              *)

ConnectionTypeOK ==
    /\ status \in Rows /\ blob \in Connects \cup {NoWindow}
    /\ windows \subseteq Connects /\ registered \subseteq Connects
    /\ expired \subseteq Connects /\ current \in Connects \cup {NoWindow}
    /\ connect \in [Connects -> {"none", "sweep", "replace", "open", "goto", "audit",
                                 "failed", "done"}]
    /\ poll \in [Polls -> {"none", "validate", "export", "store", "audit", "close",
                           "failed", "mark"} \cup Refused]
    /\ polled \in [Polls -> Connects \cup {NoWindow}]
    /\ closer \in [Closers -> {"none", "close"}]
    /\ checker \in [Checkers -> {"none", "connected", "error"} \cup Refused]
    /\ cut \in BOOLEAN /\ overlapped \in BOOLEAN /\ overtaken \subseteq Checkers

(* The two maps of the browser manager: the entry of the user and provider   *)
(* names a registered window, and registered windows are open.  The maps are *)
(* changed by several calls that each await between their parts.              *)
MapsConsistent ==
    /\ current # NoWindow => current \in registered
    /\ registered \subseteq windows

(* README.md:36, "One session per user_id + provider": a registered login    *)
(* window is the only one and can be found by disconnect and by the next     *)
(* connect/start, whatever polls, expiry and disconnects did in between,     *)
(* unless two calls of connect/start ran at once.                             *)
WindowReachable == ~overlapped => registered \subseteq {current}

(* The row shows "connected" without holding a session only through a        *)
(* validation that was under way when the user disconnected.                   *)
ConnectedHasSession ==
    [][status' = "connected" /\ blob' = NoWindow =>
          \/ status = "connected" /\ blob = NoWindow
          \/ \E v \in overtaken : checker[v] = "connected" /\ checker'[v] = "none"]_vars

(* README.md:40: "Disconnect deletes the encrypted session".                 *)
DisconnectDeletes == cut => blob = NoWindow

=============================================================================
