---------------------------- MODULE VoiceSession ----------------------------
(***************************************************************************)
(* pkg/dialog/session/manager.go and transport/websocket/serve.go: one     *)
(* session and the connections that serve it.  A connection looks the      *)
(* session up, binds its own port, starts the engine and reads until its   *)
(* client leaves; then, or when the API ends the session, End takes the    *)
(* session out of the manager and brings it down.  Nothing keeps a second  *)
(* connection from serving the same session, and the lock is given up      *)
(* between StartEngine's look and its store.                               *)
(***************************************************************************)
EXTENDS Naturals

CONSTANTS Conns,  \* the connections, each with its port and its engine
          API,    \* the ending request
          None

ASSUME SessionAssumption == API \notin Conns /\ None \notin Conns

Closer == Conns \cup {API}

VARIABLES
  listed,    \* the manager knows the session
  ended, attached,
  port,      \* whose port is bound
  detach,    \* whose engine cancel and detach are for
  conn,      \* where each connection is, and the port StartEngine took
  closer,    \* where each End is, and what it took
  engine,    \* none, on (running) or off
  enginePort,
  cancelled, \* engines whose context has ended
  portOpen   \* ports whose input is open

sessionVars == <<listed, ended, attached, port, detach, conn, closer, engine, enginePort,
                 cancelled, portOpen>>

SessionTypeOK ==
  /\ listed \in BOOLEAN /\ ended \in BOOLEAN /\ attached \in BOOLEAN
  /\ port \in Conns \cup {None} /\ detach \in Conns \cup {None}
  /\ conn \in [Conns -> [pc : {"out", "found", "bound", "starting", "storing", "serving",
                               "leaving", "gone"}, took : Conns \cup {None}]]
  /\ closer \in [Closer -> [pc : {"idle", "removed", "cancelling", "detaching", "closingPort",
                                  "done"},
                            engine : Conns \cup {None}, port : Conns \cup {None}]]
  /\ engine \in [Conns -> {"none", "on", "off"}]
  /\ enginePort \in [Conns -> Conns \cup {None}]
  /\ cancelled \subseteq Conns /\ portOpen \subseteq Conns

SessionInit ==
  /\ listed = TRUE /\ ended = FALSE /\ attached = FALSE
  /\ port = None /\ detach = None
  /\ conn = [c \in Conns |-> [pc |-> "out", took |-> None]]
  /\ closer = [x \in Closer |-> [pc |-> "idle", engine |-> None, port |-> None]]
  /\ engine = [c \in Conns |-> "none"] /\ enginePort = [c \in Conns |-> None]
  /\ cancelled = {} /\ portOpen = Conns

-----------------------------------------------------------------------------
(* Serve.                                                                  *)

ConnGoes(c, pc) == conn' = [conn EXCEPT ![c].pc = pc]
engines == <<engine, enginePort, portOpen>>

Find(c) ==
  /\ conn[c].pc = "out" /\ listed
  /\ ConnGoes(c, "found")
  /\ UNCHANGED <<listed, ended, attached, port, detach, closer, engines, cancelled>>

BindPort(c) ==
  /\ conn[c].pc = "found"
  /\ IF ended THEN ConnGoes(c, "leaving") /\ UNCHANGED port
              ELSE ConnGoes(c, "bound") /\ port' = c
  /\ UNCHANGED <<listed, ended, attached, detach, closer, engines, cancelled>>

\* StartEngine's look at the session.
StartEngine(c) ==
  /\ conn[c].pc = "bound"
  /\ conn' = [conn EXCEPT ![c] = CASE ended    -> [pc |-> "leaving", took |-> None]
                                   [] attached -> [pc |-> "serving", took |-> None]
                                   [] OTHER    -> [pc |-> "starting", took |-> port]]
  /\ UNCHANGED <<listed, ended, attached, port, detach, closer, engines, cancelled>>

\* The configuration may not allow an engine; AttachEngine may fail.
Attach(c) ==
  /\ conn[c].pc = "starting"
  /\ \/ /\ ConnGoes(c, "storing")
        /\ engine' = [engine EXCEPT ![c] = "on"]
        /\ enginePort' = [enginePort EXCEPT ![c] = conn[c].took]
     \/ ConnGoes(c, "leaving") /\ UNCHANGED <<engine, enginePort>>
  /\ UNCHANGED <<listed, ended, attached, port, detach, closer, portOpen, cancelled>>

\* StartEngine's store, whatever happened since its look.
Store(c) ==
  /\ conn[c].pc = "storing"
  /\ ConnGoes(c, "serving")
  /\ detach' = c /\ attached' = TRUE
  /\ UNCHANGED <<listed, ended, port, closer, engines, cancelled>>

\* The client is gone or hangs up; the deferred runCancel comes first.
ClientLeaves(c) ==
  /\ conn[c].pc = "serving"
  /\ ConnGoes(c, "leaving")
  /\ UNCHANGED <<listed, ended, attached, port, detach, closer, engines, cancelled>>

RunCancel(c) ==
  /\ conn[c].pc = "leaving"
  /\ ConnGoes(c, "gone")
  /\ cancelled' = cancelled \cup {c}
  /\ UNCHANGED <<listed, ended, attached, port, detach, closer, engines>>

-----------------------------------------------------------------------------
(* End, by a connection that has left or by the API.                       *)

CloserGoes(x, pc) == closer' = [closer EXCEPT ![x].pc = pc]

Remove(x) ==
  /\ closer[x].pc = "idle"
  /\ x \in Conns => conn[x].pc = "gone"
  /\ CloserGoes(x, IF listed THEN "removed" ELSE "done")
  /\ listed' = FALSE
  /\ UNCHANGED <<ended, attached, port, detach, conn, engines, cancelled>>

\* close: mark the session, take what is to be brought down.
MarkEnded(x) ==
  /\ closer[x].pc = "removed"
  /\ closer' = [closer EXCEPT ![x] = [pc |-> "cancelling", engine |-> detach, port |-> port]]
  /\ ended' = TRUE
  /\ UNCHANGED <<listed, attached, port, detach, conn, engines, cancelled>>

CancelEngine(x) ==
  /\ closer[x].pc = "cancelling"
  /\ CloserGoes(x, "detaching")
  /\ cancelled' = cancelled \cup ({closer[x].engine} \ {None})
  /\ UNCHANGED <<listed, ended, attached, port, detach, conn, engines>>

\* detach waits for the engine.
Detached(x) ==
  /\ closer[x].pc = "detaching"
  /\ closer[x].engine # None => engine[closer[x].engine] = "off"
  /\ CloserGoes(x, "closingPort")
  /\ UNCHANGED <<listed, ended, attached, port, detach, conn, engines, cancelled>>

\* A slip: the port stays open.
LeavePort(x) ==
  /\ closer[x].pc = "closingPort"
  /\ CloserGoes(x, "done")
  /\ UNCHANGED <<listed, ended, attached, port, detach, conn, engines, cancelled>>

ClosePort(x) ==
  /\ closer[x].pc = "closingPort"
  /\ CloserGoes(x, "done")
  /\ portOpen' = portOpen \ {closer[x].port}
  /\ UNCHANGED <<listed, ended, attached, port, detach, conn, engine, enginePort, cancelled>>

-----------------------------------------------------------------------------
(* The engines.                                                            *)

Stopping(c) == c \in cancelled \/ enginePort[c] \notin portOpen

\* Its context ends, its input closes, or the provider fails.
EngineStops(c) ==
  /\ engine[c] = "on"
  /\ engine' = [engine EXCEPT ![c] = "off"]
  /\ UNCHANGED <<listed, ended, attached, port, detach, conn, closer, enginePort, cancelled,
                 portOpen>>

ServeSteps(c) == Find(c) \/ BindPort(c) \/ StartEngine(c) \/ Attach(c) \/ Store(c)
                 \/ ClientLeaves(c) \/ RunCancel(c)
EndSteps(x) == Remove(x) \/ MarkEnded(x) \/ CancelEngine(x) \/ Detached(x) \/ ClosePort(x)

SessionNext == \/ \E c \in Conns : ServeSteps(c) \/ EngineStops(c)
               \/ \E x \in Closer : EndSteps(x)

SessionSpec == SessionInit /\ [][SessionNext]_sessionVars

-----------------------------------------------------------------------------
(* Properties.                                                             *)

Settled == \A x \in Closer : closer[x].pc \in {"idle", "done"}

\* Once a session has ended, no engine runs on: each is told to stop or its
\* input is closed, also one that was attached while the session ended.  The
\* exception is an engine on a port that another connection's has replaced.
EndBringsDown ==
  ended /\ Settled =>
    \A c \in Conns : engine[c] = "on" => Stopping(c) \/ enginePort[c] # port
=============================================================================
