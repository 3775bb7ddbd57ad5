------------------------------ MODULE WSServer ------------------------------
(***************************************************************************)
(* ManageWSServer, runWSServer and shutdownWSServer                       *)
(* (src/servers/clienthandler.go): the websocket RPC listener follows the  *)
(* node's sync status.  Under active management the manager goroutine      *)
(* takes each status from ReceiveNodeSyncStatusUpdate(): Unsynced closes    *)
(* every client connection, shuts down the server ch.websocketServer       *)
(* points to and broadcasts a subscription reset; any other status starts  *)
(* "go ch.runWSServer()".  Without active management one runWSServer is    *)
(* started and the updates are only consumed.                              *)
(*                                                                         *)
(* runWSServer builds a new server, stores it in ch.websocketServer, and   *)
(* then calls ListenAndServe on ch.websocketServer -- the field, read      *)
(* again, not the server it built.  Servers are numbered: 0 is nil, 1 the  *)
(* server handed to NewClientHandler, i + 1 the one runWSServer goroutine  *)
(* i builds.  net/http's rules are kept: ListenAndServe on a server that   *)
(* was shut down returns ErrServerClosed at once, binding a port another   *)
(* server holds fails, and Shutdown of a nil *http.Server panics.          *)
(***************************************************************************)
EXTENDS Naturals, Sequences, FiniteSets

CONSTANTS
    MaxUpdates,     \* sync status updates the manager takes
    MaxSessions     \* client connections open at once

Statuses == {"Synced", "Unsynced"}

VARIABLES
    mode,           \* "start", then "active" or "passive" (activeManagement)
    current,        \* ch.websocketServer
    runs,           \* runs[i]: pc of the i-th runWSServer goroutine
    listening,      \* servers bound to the websocket port and serving
    shut,           \* servers Shutdown was called on
    sessions,       \* client connections open (CloseAllClientConnections)
    resets,         \* subscription reset notifications broadcast
    status,         \* the last sync status the manager took
    handled,        \* updates taken so far
    panicked        \* the manager goroutine panicked (the process is gone)

vars == <<mode, current, runs, listening, shut, sessions, resets, status,
          handled, panicked>>

Servers == 0 .. MaxUpdates + 2

TypeOK ==
    /\ mode \in {"start", "active", "passive"}
    /\ current \in Servers
    /\ runs \in Seq({"build", "listen", "done"})
    /\ listening \subseteq Servers \ {0} /\ shut \subseteq Servers \ {0}
    /\ sessions \in 0 .. MaxSessions
    /\ status \in Statuses \cup {"none"}
    /\ panicked \in BOOLEAN

(* The server NewClientHandler was given: nil or a server not yet started. *)
Init ==
    /\ mode = "start"
    /\ current \in {0, 1}
    /\ runs = <<>>
    /\ listening = {} /\ shut = {}
    /\ sessions = 0 /\ resets = 0
    /\ status = "none" /\ handled = 0
    /\ panicked = FALSE

Live == ~panicked

(* "go ch.runWSServer()": a new goroutine at its first statement.         *)
Spawn == runs' = Append(runs, "build")

(* ManageWSServer's entry.                                                 *)
ManageWSServer ==
    /\ Live /\ mode = "start"
    /\ \E activeManagement \in BOOLEAN :
          IF activeManagement THEN /\ mode' = "active" /\ UNCHANGED runs
                              ELSE /\ mode' = "passive" /\ Spawn
    /\ UNCHANGED <<current, listening, shut, sessions, resets, status, handled,
                   panicked>>

(* shutdownWSServer: CloseAllClientConnections, then Shutdown of the      *)
(* server the field holds, which stops its listener.                       *)
shutdownWSServer ==
    /\ sessions' = 0
    /\ IF current = 0
       THEN /\ panicked' = TRUE
            /\ listening' = {}
            /\ UNCHANGED shut
       ELSE /\ shut' = shut \cup {current}
            /\ listening' = listening \ {current}
            /\ UNCHANGED panicked

(* One iteration of the active-management loop.                           *)
HandleSyncStatus(st) ==
    /\ Live /\ mode = "active" /\ handled < MaxUpdates
    /\ handled' = handled + 1
    /\ status' = st
    /\ IF st = "Unsynced"
       THEN /\ shutdownWSServer
            /\ resets' = resets + 1
            /\ UNCHANGED runs
       ELSE /\ Spawn
            /\ UNCHANGED <<listening, shut, sessions, resets, panicked>>
    /\ UNCHANGED <<mode, current>>

(* Without active management an update is consumed and nothing else.      *)
ConsumeSyncStatus(st) ==
    /\ Live /\ mode = "passive" /\ handled < MaxUpdates
    /\ handled' = handled + 1
    /\ status' = st
    /\ UNCHANGED <<mode, current, runs, listening, shut, sessions, resets,
                   panicked>>

(* runWSServer, first half: ch.websocketServer = NewWSServer(...).        *)
BuildServer(i) ==
    /\ Live /\ runs[i] = "build"
    /\ current' = i + 1
    /\ runs' = [runs EXCEPT ![i] = "listen"]
    /\ UNCHANGED <<mode, listening, shut, sessions, resets, status, handled,
                   panicked>>

(* runWSServer, second half: ListenAndServe(TLS) on ch.websocketServer.   *)
(* It serves until Shutdown; ErrServerClosed or a failed bind is only     *)
(* logged.                                                                 *)
ListenAndServe(i) ==
    /\ Live /\ runs[i] = "listen"
    /\ runs' = [runs EXCEPT ![i] = "done"]
    /\ listening' = IF current \notin shut /\ listening = {}
                    THEN {current} ELSE listening
    /\ UNCHANGED <<mode, current, shut, sessions, resets, status, handled,
                   panicked>>

(* wsHandler of a serving listener admits a client (WSAuth decides whom): *)
(* handleWSClientConnection upgrades it and starts its JSON-RPC session.  *)
ClientConnects ==
    /\ Live /\ listening # {} /\ sessions < MaxSessions
    /\ sessions' = sessions + 1
    /\ UNCHANGED <<mode, current, runs, listening, shut, resets, status,
                   handled, panicked>>

Next ==
    \/ ManageWSServer
    \/ \E st \in Statuses : HandleSyncStatus(st) \/ ConsumeSyncStatus(st)
    \/ \E i \in DOMAIN runs : BuildServer(i) \/ ListenAndServe(i)
    \/ ClientConnects

Spec == Init /\ [][Next]_vars

-----------------------------------------------------------------------------
(* Spec 5 "Cancellation": when the node becomes unsynced under active     *)
(* management, the websocket listener is shut down and every client       *)
(* connection closed -- and nothing serves clients until a later status   *)
(* update restarts the server.  Two Synced updates (two runWSServer        *)
(* goroutines racing on ch.websocketServer), or an Unsynced update taken   *)
(* before a started runWSServer goroutine has run, could each leave a      *)
(* listener the shutdown never reaches.                                     *)
ListenerDownWhenUnsynced ==
    (mode = "active" /\ status = "Unsynced") => (listening = {} /\ sessions = 0)

=============================================================================
