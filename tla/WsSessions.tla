----------------------------- MODULE WsSessions -----------------------------
(***************************************************************************)
(* The websocket sessions of api/ws.go, the relays of                      *)
(* service/broadcaster_service.go they are fed from, and the mDNS          *)
(* registration that service/mdns_service.go announces over them.          *)
(*                                                                         *)
(* Every session has three goroutines on the server: "serve" is            *)
(* HandleWebSocket (pings, and the clean-up at the end), "reader" is       *)
(* readInboundMessages (the HELO of the Home Assistant component), "pump"  *)
(* is ProcessWebSocketChannel (from the two relay listeners to the         *)
(* connection).  serve and pump write under WsMessageSender.Mutex.  One    *)
(* more goroutine, "clean", is the CLEAN listener of the mDNS service.     *)
(* A session is one connection and is used once; a component that          *)
(* reconnects is another element of Components.                            *)
(***************************************************************************)
EXTENDS Integers, Sequences, FiniteSets

CONSTANTS
    Components,    \* sessions of the Home Assistant component (they send a HELO)
    Browsers,      \* sessions of the web interface (they do not)
    BufferSize,    \* capacity of a listener of the ordinary relay (5);
                   \* 0: no ordinary messages are sent
    GuaranteedSize,\* capacity of a listener of the guaranteed relay (100)
    MaxSetting,    \* bound: how often the mDNS settings change
    Reconnects,    \* BOOLEAN: the component reconnects before the server has
                   \* noticed that its previous connection has gone
    WriteMayFail,  \* BOOLEAN: a ping to a peer that has gone may fail before
                   \* the reader notices
    MayStick,      \* BOOLEAN: a peer may stop reading and its socket fill up
    None

Sessions == Components \cup Browsers

ASSUME SessionsAssumption ==
    /\ Components \cap Browsers = {}
    /\ IsFiniteSet(Sessions)
    /\ None \notin Sessions
    /\ BufferSize \in Nat /\ GuaranteedSize \in Nat \ {0}
    /\ MaxSetting \in Nat
    /\ {Reconnects, WriteMayFail, MayStick} \subseteq BOOLEAN

VARIABLES
    peer,       \* the other end: "out" before it connects, "here", "gone", "stuck"
    conn,       \* the server's end is open
    serve, reader, pump,  \* where the goroutines of a session are
    mutex,      \* WsMessageSender.Mutex: "none", "serve" or "pump"
    backlog,    \* number of ordinary messages in a session's listener
    queue,      \* mDNS notifications in a session's guaranteed listener
    sending,    \* the notification the pump is writing: <<v>>, or <<>> when it
                \* writes the welcome or an ordinary message
    told,       \* the last mDNS notification the peer has received, or None
    clients,    \* BroadcasterService.ConnectedClients
    component,  \* state.HAWsComponent: the session whose HELO set it, or None
    connected,  \* MDNSService.connected
    setting,    \* version of the stored mDNS settings
    cleanDue,   \* a CLEAN event is to come for a settings change
    clean,      \* where the CLEAN listener is
    loaded      \* the settings a broadcast has read, per reader and for "clean"

peerVars == <<peer, told>>
sessionVars == <<conn, serve, reader, pump, mutex, sending>>
relayVars == <<backlog, queue, clients>>
componentVars == <<component, connected>>
mdnsVars == <<setting, cleanDue, clean, loaded>>
vars == <<peerVars, sessionVars, relayVars, componentVars, mdnsVars>>

Settings == 0 .. MaxSetting

Init ==
    /\ peer = [s \in Sessions |-> "out"]
    /\ told = [s \in Sessions |-> None]
    /\ conn = [s \in Sessions |-> FALSE]
    /\ serve = [s \in Sessions |-> "idle"]
    /\ reader = [s \in Sessions |-> "idle"]
    /\ pump = [s \in Sessions |-> "idle"]
    /\ mutex = [s \in Sessions |-> "none"]
    /\ sending = [s \in Sessions |-> <<>>]
    /\ backlog = [s \in Sessions |-> 0]
    /\ queue = [s \in Sessions |-> <<>>]
    /\ clients = 0
    /\ component = None
    /\ connected = FALSE
    /\ setting = 0
    /\ cleanDue = FALSE
    /\ clean = "idle"
    /\ loaded = [r \in Components \cup {"clean"} |-> 0]

-----------------------------------------------------------------------------
(* The relays *)

\* The sessions whose listeners are registered.
Listening == {s \in Sessions : pump[s] \notin {"idle", "start"}}

\* A notification is appended to every listener that has room; a full one
\* does not get it and nobody waits.
Queued(v) ==
    [s \in Sessions |-> IF s \in Listening /\ Len(queue[s]) < GuaranteedSize
                        THEN Append(queue[s], v) ELSE queue[s]]

\* Mutant of Announce: an unbuffered relay that waits for every listener.
AnnounceWaiting(r) ==
    /\ \A s \in Listening : queue[s] = <<>> /\ pump[s] = "wait"
    /\ queue' = Queued(loaded[r])

\* BroadcastGuaranteedMessage of the settings that r has read.
Announce(r) == queue' = Queued(loaded[r])

\* BroadcastMessage: a status, an event or a health ping for every session.
Chatter ==
    /\ \E s \in Listening : backlog[s] < BufferSize
    /\ backlog' = [s \in Sessions |->
           IF s \in Listening /\ backlog[s] < BufferSize
           THEN backlog[s] + 1 ELSE backlog[s]]
    /\ UNCHANGED <<peerVars, sessionVars, queue, clients, componentVars, mdnsVars>>

-----------------------------------------------------------------------------
(* The peer and HandleWebSocket *)

\* The component waits for its previous session to end before it connects
\* again unless Reconnects, where it only knows that its own end has gone.
MayConnect(s) ==
    \/ s \in Browsers
    \/ \A t \in Components : \/ serve[t] \in {"idle", "done"}
                             \/ Reconnects /\ peer[t] = "gone"

Connect(s) ==
    /\ peer[s] = "out" /\ MayConnect(s)
    /\ peer' = [peer EXCEPT ![s] = "here"]
    /\ conn' = [conn EXCEPT ![s] = TRUE]
    /\ serve' = [serve EXCEPT ![s] = "loop"]
    /\ reader' = [reader EXCEPT ![s] = IF s \in Components THEN "helo" ELSE "read"]
    /\ pump' = [pump EXCEPT ![s] = "start"]
    /\ UNCHANGED <<told, mutex, sending, relayVars, componentVars, mdnsVars>>

Leave(s) ==
    /\ peer[s] \in {"here", "stuck"}
    /\ peer' = [peer EXCEPT ![s] = "gone"]
    /\ UNCHANGED <<told, sessionVars, relayVars, componentVars, mdnsVars>>

Stick(s) ==
    /\ MayStick /\ peer[s] = "here"
    /\ peer' = [peer EXCEPT ![s] = "stuck"]
    /\ UNCHANGED <<told, sessionVars, relayVars, componentVars, mdnsVars>>

\* HandleWebSocket goes from one place to the next.
ServeGoes(s, from, to) ==
    /\ serve[s] = from
    /\ serve' = [serve EXCEPT ![s] = to]
    /\ UNCHANGED <<peerVars, reader, pump, sending, relayVars, mdnsVars>>

\* The ticker: SendPing first takes the mutex, then writes.
PingTick(s) ==
    /\ ServeGoes(s, "loop", "lock")
    /\ UNCHANGED <<conn, mutex, componentVars>>

PingLock(s) ==
    /\ mutex[s] = "none"
    /\ mutex' = [mutex EXCEPT ![s] = "serve"]
    /\ ServeGoes(s, "lock", "ping")
    /\ UNCHANGED <<conn, componentVars>>

\* A write to a stuck peer does not return: no write deadline is set.
PingWrite(s) ==
    /\ peer[s] # "stuck"
    /\ mutex' = [mutex EXCEPT ![s] = "none"]
    /\ \/ ServeGoes(s, "ping", "loop")
       \/ WriteMayFail /\ peer[s] = "gone" /\ ServeGoes(s, "ping", "close")
    /\ UNCHANGED <<conn, componentVars>>

\* case err, ok := <-readErr.
SeeReadError(s) ==
    /\ reader[s] = "failed"
    /\ ServeGoes(s, "loop", "close")
    /\ UNCHANGED <<conn, mutex, componentVars>>

\* The deferred calls: conn.Close, then clearHomeAssistantComponentConnection.
CloseConn(s) ==
    /\ ServeGoes(s, "close", "clear")
    /\ conn' = [conn EXCEPT ![s] = FALSE]
    /\ UNCHANGED <<mutex, componentVars>>

ClearComponent(s) ==
    /\ ServeGoes(s, "clear", "forget")
    /\ component' = None
    /\ UNCHANGED <<conn, mutex, connected>>

\* Mutant of Disconnected: connected is left set.
DisconnectedLogged(s) ==
    /\ ServeGoes(s, "forget", "done")
    /\ UNCHANGED <<conn, mutex, componentVars>>

\* OnComponentDisconnected.
Disconnected(s) ==
    /\ ServeGoes(s, "forget", "done")
    /\ connected' = FALSE
    /\ UNCHANGED <<conn, mutex, component>>

-----------------------------------------------------------------------------
(* readInboundMessages and the HELO *)

ReaderGoes(s, from, to) ==
    /\ reader[s] = from
    /\ reader' = [reader EXCEPT ![s] = to]
    /\ UNCHANGED <<peerVars, conn, serve, pump, mutex, sending, backlog, clients,
                   setting, cleanDue, clean>>

\* The peer has closed, or nothing, not even a pong, came for 60 seconds.
ReadFails(s) ==
    /\ peer[s] \in {"gone", "stuck"} \/ ~conn[s]
    /\ ReaderGoes(s, "helo", "failed") \/ ReaderGoes(s, "read", "failed")
    /\ UNCHANGED <<queue, componentVars, loaded>>

\* setHomeAssistantComponentConnection; no command is ever in the repair
\* queue it flushes.  The pump is a goroutine of its own and may not listen yet.
HandleHelo(s) ==
    /\ ReaderGoes(s, "helo", "mark")
    /\ component' = s
    /\ UNCHANGED <<queue, connected, loaded>>

\* Mutant of Mark: the notification is sent, connected is not set.
MarkForgotten(s) ==
    /\ ReaderGoes(s, "mark", "load")
    /\ UNCHANGED <<queue, componentVars, loaded>>

\* OnComponentConnected: the flag, then the settings, then the notification.
Mark(s) ==
    /\ ReaderGoes(s, "mark", "load")
    /\ connected' = TRUE
    /\ UNCHANGED <<queue, component, loaded>>

LoadForHelo(s) ==
    /\ ReaderGoes(s, "load", "tell")
    /\ loaded' = [loaded EXCEPT ![s] = setting]
    /\ UNCHANGED <<queue, componentVars>>

TellForHelo(s) ==
    /\ ReaderGoes(s, "tell", "read")
    /\ Announce(s)
    /\ UNCHANGED <<componentVars, loaded>>

-----------------------------------------------------------------------------
(* ProcessWebSocketChannel *)

PumpGoes(s, from, to) ==
    /\ pump[s] = from
    /\ pump' = [pump EXCEPT ![s] = to]
    /\ UNCHANGED <<peer, conn, serve, reader, componentVars, mdnsVars>>

\* The count and the two listeners; then the welcome message is to be sent.
Register(s) ==
    /\ PumpGoes(s, "start", "lock")
    /\ clients' = clients + 1
    /\ UNCHANGED <<told, mutex, sending, backlog, queue>>

TakeMessage(s) ==
    /\ backlog[s] > 0
    /\ PumpGoes(s, "wait", "lock")
    /\ backlog' = [backlog EXCEPT ![s] = @ - 1]
    /\ UNCHANGED <<told, mutex, sending, queue, clients>>

TakeNotification(s) ==
    /\ queue[s] # <<>>
    /\ PumpGoes(s, "wait", "lock")
    /\ queue' = [queue EXCEPT ![s] = Tail(@)]
    /\ sending' = [sending EXCEPT ![s] = <<Head(queue[s])>>]
    /\ UNCHANGED <<told, mutex, backlog, clients>>

PumpLock(s) ==
    /\ mutex[s] = "none"
    /\ PumpGoes(s, "lock", "write")
    /\ mutex' = [mutex EXCEPT ![s] = "pump"]
    /\ UNCHANGED <<told, sending, relayVars>>

\* dispatchEvent: an error is logged and the loop goes on.  A write to a stuck
\* peer returns only when the connection is closed.
PumpWrite(s) ==
    /\ peer[s] # "stuck" \/ ~conn[s]
    /\ PumpGoes(s, "write", "wait")
    /\ told' = IF conn[s] /\ peer[s] = "here" /\ sending[s] # <<>>
               THEN [told EXCEPT ![s] = Head(sending[s])] ELSE told
    /\ mutex' = [mutex EXCEPT ![s] = "none"]
    /\ sending' = [sending EXCEPT ![s] = <<>>]
    /\ UNCHANGED relayVars

-----------------------------------------------------------------------------
(* The settings and the CLEAN listener of the mDNS service *)

\* UpdateSettings, at any moment of a broadcast; the restart it leads to ends with
\* CLEAN (module DirtyRestart).
ChangeSetting ==
    /\ setting < MaxSetting
    /\ setting' = setting + 1
    /\ cleanDue' = TRUE
    /\ UNCHANGED <<peerVars, sessionVars, relayVars, componentVars, clean, loaded>>

Clean ==
    /\ clean = "idle" /\ cleanDue
    /\ cleanDue' = FALSE
    /\ clean' = IF connected THEN "load" ELSE "idle"
    /\ UNCHANGED <<peerVars, sessionVars, relayVars, componentVars, setting, loaded>>

LoadForClean ==
    /\ clean = "load"
    /\ loaded' = [loaded EXCEPT !["clean"] = setting]
    /\ clean' = "tell"
    /\ UNCHANGED <<peerVars, sessionVars, relayVars, componentVars, setting, cleanDue>>

TellForClean ==
    /\ clean = "tell"
    /\ Announce("clean")
    /\ clean' = "idle"
    /\ UNCHANGED <<peerVars, sessionVars, backlog, clients, componentVars,
                   setting, cleanDue, loaded>>

-----------------------------------------------------------------------------
Serve(s) ==
    \/ PingTick(s) \/ PingLock(s) \/ PingWrite(s) \/ SeeReadError(s)
    \/ CloseConn(s) \/ ClearComponent(s) \/ Disconnected(s)

Reader(s) ==
    \/ ReadFails(s)
    \/ HandleHelo(s) \/ Mark(s) \/ LoadForHelo(s) \/ TellForHelo(s)

Pump(s) ==
    \/ Register(s) \/ TakeMessage(s) \/ TakeNotification(s)
    \/ PumpLock(s) \/ PumpWrite(s)

Next ==
    \/ \E s \in Sessions : \/ Connect(s) \/ Leave(s) \/ Stick(s)
                           \/ Serve(s) \/ Reader(s) \/ Pump(s)
    \/ Chatter
    \/ ChangeSetting \/ Clean \/ LoadForClean \/ TellForClean

Spec == Init /\ [][Next]_vars

\* Every goroutine goes on.  A mutex that is free again and again is taken, and
\* a select whose case is ready again and again takes it: Go's mutex hands over
\* to a waiter that starves and its select chooses at random.  Peers, settings
\* and other messages are under no obligation, and a ping needs none.
Fairness(s) ==
    /\ WF_vars(PingWrite(s) \/ CloseConn(s) \/ ClearComponent(s) \/ Disconnected(s))
    /\ SF_vars(PingLock(s)) /\ SF_vars(SeeReadError(s))
    /\ WF_vars(Reader(s))
    /\ WF_vars(Register(s) \/ TakeMessage(s) \/ PumpWrite(s))
    /\ SF_vars(PumpLock(s)) /\ SF_vars(TakeNotification(s))

FairSpec ==
    /\ Spec
    /\ \A s \in Sessions : Fairness(s)
    /\ WF_vars(Clean \/ LoadForClean \/ TellForClean)

-----------------------------------------------------------------------------
(* Properties *)

\* Every variable has its type; in particular no listener holds more than its
\* capacity and ConnectedClients counts at most the connections there were
\* (broadcaster_service.go ProcessWebSocketChannel).
TypeOK ==
    /\ peer \in [Sessions -> {"out", "here", "gone", "stuck"}]
    /\ told \in [Sessions -> Settings \cup {None}]
    /\ conn \in [Sessions -> BOOLEAN]
    /\ serve \in [Sessions -> {"idle", "loop", "lock", "ping", "close", "clear", "forget", "done"}]
    /\ reader \in [Sessions -> {"idle", "helo", "mark", "load", "tell", "read", "failed"}]
    /\ pump \in [Sessions -> {"idle", "start", "lock", "write", "wait"}]
    /\ mutex \in [Sessions -> {"none", "serve", "pump"}]
    /\ sending \in [Sessions -> {<<>>} \cup {<<v>> : v \in Settings}]
    /\ backlog \in [Sessions -> 0 .. BufferSize]
    /\ \A s \in Sessions : queue[s] \in Seq(Settings) /\ Len(queue[s]) <= GuaranteedSize
    /\ clients \in 0 .. Cardinality(Sessions)
    /\ component \in Components \cup {None}
    /\ connected \in BOOLEAN
    /\ setting \in Settings /\ cleanDue \in BOOLEAN
    /\ clean \in {"idle", "load", "tell"}
    /\ loaded \in [Components \cup {"clean"} -> Settings]

\* HandleWebSocket has not returned yet.
Serving(s) == serve[s] \notin {"idle", "done"}

\* Once every websocket handler has returned, no component is registered and
\* the mDNS service does not think that one is connected: the deferred
\* clearHomeAssistantComponentConnection of the last session wins over every
\* HELO (api/ws.go HandleWebSocket, readInboundMessages).
NobodyIsRemembered ==
    (\A s \in Sessions : ~Serving(s)) => component = None /\ ~connected

\* While the component's session is open and its HELO has been accepted, the
\* state knows that a component is connected (dto/context.go HAWsComponent,
\* which the problem bridge and the mDNS service decide by).
ComponentIsKnown ==
    \A s \in Components :
        reader[s] = "read" /\ peer[s] = "here" /\ serve[s] = "loop"
            => component # None /\ connected

\* A component whose HELO is accepted once its pump listens is sent the mDNS state,
\* or leaves, or stops reading, whatever other sessions do (mdns_service.go
\* OnComponentConnected).
HeloIsAnswered ==
    \A s \in Components :
        reader[s] = "mark" /\ s \in Listening ~> told[s] # None \/ peer[s] # "here"

\* The same of every HELO: the handler starts pump and reader as two goroutines
\* (api/ws.go:327-333).
EveryHeloIsAnswered ==
    \A s \in Components : reader[s] = "mark" ~> told[s] # None \/ peer[s] # "here"

\* A component that has had its HELO handled and listens gets the stored settings
\* after every change whose CLEAN is still to come, or leaves, or stops reading: a
\* broadcast that is between its two steps when the settings change is followed by
\* one that is not (mdns_service.go setupEventListeners, broadcast).
SettingsAreAnnounced ==
    \A s \in Components :
        reader[s] = "read" /\ s \in Listening /\ cleanDue
            ~> told[s] = setting \/ peer[s] # "here"

\* A component that was told other settings than the stored ones is told again,
\* also when the change fell into the HELO's own broadcast (mdns_service.go:78,
\* "settings changes are re-broadcast to the connected component").
ViewBecomesCurrent ==
    \A s \in Components :
        told[s] \notin {None, setting} ~> told[s] = setting \/ peer[s] # "here"

\* When every handler has returned, no client is counted any more
\* (broadcaster_service.go ConnectedClients, ProcessWebSocketChannel).
ClientsAreCounted ==
    \A s \in Sessions :
        serve[s] = "done" ~> clients < Cardinality({t \in Sessions : peer[t] # "out"})

\* The handler of a peer that has stopped reading ends, or the peer leaves by
\* itself (api/ws.go HandleWebSocket: pings and the 60 second read deadline).
StuckIsDropped ==
    \A s \in Sessions :
        peer[s] = "stuck" ~> peer[s] # "stuck" \/ ~Serving(s)
=============================================================================
