------------------------------ MODULE HaSocket ------------------------------
(***************************************************************************)
(* The web socket to Home Assistant: websocket.Client and its users,       *)
(* HaWsService and the first path of AddonConfigWatcherService.            *)
(*                                                                         *)
(* The connect loop dials, shakes hands, tells its listeners and waits for *)
(* the reader, whose messages are answers, for the request with their id,  *)
(* or events.  The reader closes the client for good when it has read      *)
(* nothing for 30 seconds.  HaWsService keeps HACoreReady from the         *)
(* connection's events, each handled in a goroutine of its own, and        *)
(* subscribes two events of Home Assistant; the watcher of the             *)
(* configuration subscribes one, again and again until it succeeds.        *)
(***************************************************************************)
EXTENDS Naturals, FiniteSets, Sequences

CONSTANTS
    Started, Stopped, \* the two subscriptions of HaWsService
    Watchers,     \* subscriptions that are tried again when they fail
    EarlyRequest, \* whether a request may be written into the handshake
    MaxDials,     \* bound on the connections
    MaxEvents     \* bound on the events that Home Assistant sends

Lifecycle == {Started, Stopped}
Requests  == Lifecycle \cup Watchers

VARIABLES
    loop,       \* where connectLoop is
    conn,       \* c.conn: "none", "open" or "broken"
    dials,      \* connections there have been
    closed,     \* the closed channel and the cancelled context of the loop
    reader,     \* where readLoop is
    stage,      \* where the goroutine of each request is
    pending,    \* the pending map: "none" without an entry, else its channel
    subs,       \* the subscriptions with a handler
    called,     \* the subscriptions whose handler has been called
    listens,    \* HaWsService is among the listeners of connection events
    handlers,   \* goroutines that handle a connection event
    ready,      \* state.HACoreReady
    wire,       \* what Home Assistant has sent on this connection
    subscribed, \* the subscriptions it knows of this connection
    events      \* how many events it has sent

vars == <<loop, conn, dials, closed, reader, stage, pending, subs, called, listens, handlers,
          ready, wire, subscribed, events>>

Message == [id : Requests, type : {"ok", "refused", "event"}]

TypeOK ==
    /\ loop \in {"dial", "hello", "up", "ended"}
    /\ conn \in {"none", "open", "broken"} /\ dials \in 0 .. MaxDials
    /\ closed \in BOOLEAN /\ reader \in {"off", "read", "ended"}
    /\ stage \in [Requests -> {"idle", "due", "write", "wait", "done", "failed"}]
    /\ pending \in [Requests -> {"none", "empty", "ok", "refused", "event"}]
    /\ subs \subseteq Requests /\ called \subseteq Requests
    /\ listens \in BOOLEAN /\ handlers \subseteq {"connected", "disconnected"}
    /\ ready \in BOOLEAN
    /\ wire \in Seq(Message) /\ subscribed \subseteq Requests /\ events \in 0 .. MaxEvents

Init ==
    /\ loop = "dial" /\ conn = "none" /\ dials = 0
    /\ closed = FALSE /\ reader = "off"
    /\ stage = [r \in Requests |-> "idle"] /\ pending = [r \in Requests |-> "none"]
    /\ subs = {} /\ called = {}
    /\ listens = TRUE /\ handlers = {} /\ ready = FALSE
    /\ wire = <<>> /\ subscribed = {} /\ events = 0

-----------------------------------------------------------------------------
(* connectLoop *)

Dial ==
    /\ loop = "dial" /\ ~closed /\ dials < MaxDials
    /\ dials' = dials + 1
    /\ conn' = "open" /\ wire' = <<>> /\ subscribed' = {}
    /\ loop' = "hello"
    /\ UNCHANGED <<closed, reader, stage, pending, subs, called, listens, handlers, ready, events>>

(* The handshake fails, and the next dial follows at once.                 *)
HelloFails ==
    /\ loop = "hello"
    /\ conn' = "broken" /\ loop' = "dial"
    /\ UNCHANGED <<dials, closed, reader, stage, pending, subs, called, listens, handlers, ready,
                   wire, subscribed, events>>

Tell(event) == handlers' = IF listens THEN handlers \cup {event} ELSE handlers

(* It succeeds unless a request was written into it.                       *)
HelloSucceeds ==
    /\ loop = "hello" /\ wire = <<>>
    /\ loop' = "up" /\ reader' = "read"
    /\ Tell("connected")
    /\ UNCHANGED <<conn, dials, closed, stage, pending, subs, called, listens, ready, wire,
                   subscribed, events>>

(* The reader is done: listeners are told, and who waits is answered ...   *)
Lost ==
    /\ loop = "up" /\ reader = "ended"
    /\ loop' = "dial" /\ reader' = "off" /\ conn' = "none"
    /\ Tell("disconnected")
    /\ pending' = [r \in Requests |-> IF pending[r] = "empty" THEN "refused" ELSE pending[r]]
    /\ UNCHANGED <<dials, closed, stage, subs, called, listens, ready, wire, subscribed, events>>

(* ... unless the select sees the closed channel, which is ready by then.  *)
Ended ==
    /\ loop \in {"dial", "up"} /\ closed
    /\ loop' = "ended"
    /\ UNCHANGED <<conn, dials, closed, reader, stage, pending, subs, called, listens, handlers,
                   ready, wire, subscribed, events>>

-----------------------------------------------------------------------------
(* readLoop *)

(* Mutant of ReadFails: the reader leaves the client open.                 *)
ReadFailsOpen ==
    /\ reader = "read"
    /\ reader' = "ended" /\ conn' = "broken"
    /\ UNCHANGED <<loop, dials, closed, stage, pending, subs, called, listens, handlers, ready,
                   wire, subscribed, events>>

(* A lost connection or 30 quiet seconds: Close.                           *)
ReadFails ==
    /\ reader = "read"
    /\ reader' = "ended" /\ closed' = TRUE /\ conn' = "none"
    /\ UNCHANGED <<loop, dials, stage, pending, subs, called, listens, handlers, ready, wire,
                   subscribed, events>>

(* A message goes to the request with its id; the entry of a subscription  *)
(* stays in the map, so that its events go there too.  Only an event whose *)
(* id is not in the map reaches the handlers, all of them.                 *)
Read ==
    LET m == Head(wire) IN
    /\ reader = "read" /\ wire # <<>>
    /\ wire' = Tail(wire)
    /\ pending' = IF pending[m.id] = "empty" THEN [pending EXCEPT ![m.id] = m.type] ELSE pending
    /\ called' = IF pending[m.id] = "none" /\ m.type = "event" THEN called \cup subs ELSE called
    /\ UNCHANGED <<loop, conn, dials, closed, reader, stage, subs, listens, handlers, ready,
                   subscribed, events>>

-----------------------------------------------------------------------------
(* SubscribeEvents *)

Enter(r, here, next) == stage[r] \in here /\ stage' = [stage EXCEPT ![r] = next]

(* An id of its own and an entry in the map.  HaWsService subscribes one   *)
(* event after the other; a watcher tries again later.                     *)
Register(r) ==
    /\ Enter(r, IF r \in Lifecycle THEN {"due"}
                ELSE {"idle", "failed"}, "write")
    /\ r = Stopped => stage[Started] \in {"done", "failed"}
    /\ pending' = [pending EXCEPT ![r] = "empty"]
    /\ UNCHANGED <<loop, conn, dials, closed, reader, subs, called, listens, handlers, ready, wire,
                   subscribed, events>>

(* writeJSON; Home Assistant answers later, in the order of the requests.  *)
(* A request that falls into the handshake makes it refuse the client.     *)
Write(r) ==
    /\ Enter(r, {"write"}, "wait")
    /\ conn = "open" /\ (loop # "hello" \/ EarlyRequest)
    /\ \E t \in {"ok", "refused"} :
         /\ wire' = Append(wire, [id |-> r, type |-> t])
         /\ subscribed' = IF t = "ok" /\ loop = "up"
                          THEN subscribed \cup {r} ELSE subscribed
    /\ UNCHANGED <<loop, conn, dials, closed, reader, pending, subs, called, listens, handlers,
                   ready, events>>

(* Not connected, or the write fails: the entry is deleted.                *)
WriteFails(r) ==
    /\ Enter(r, {"write"}, "failed")
    /\ pending' = [pending EXCEPT ![r] = "none"]
    /\ UNCHANGED <<loop, conn, dials, closed, reader, subs, called, listens, handlers, ready, wire,
                   subscribed, events>>

(* Mutant of Answered: the handler is registered whatever the answer.      *)
AnsweredAnyhow(r) ==
    /\ pending[r] \in {"ok", "refused"}
    /\ Enter(r, {"wait"}, IF pending[r] = "ok" THEN "done" ELSE "failed")
    /\ subs' = subs \cup {r}
    /\ pending' = [pending EXCEPT ![r] = "empty"]
    /\ UNCHANGED <<loop, conn, dials, closed, reader, called, listens, handlers, ready, wire,
                   subscribed, events>>

(* The answer is taken from the channel, whose entry stays in the map; the *)
(* handler is registered if the subscription was accepted.                 *)
Answered(r) ==
    /\ pending[r] \in {"ok", "refused"}
    /\ Enter(r, {"wait"}, IF pending[r] = "ok" THEN "done" ELSE "failed")
    /\ subs' = IF pending[r] = "ok" THEN subs \cup {r} ELSE subs
    /\ pending' = [pending EXCEPT ![r] = "empty"]
    /\ UNCHANGED <<loop, conn, dials, closed, reader, called, listens, handlers, ready, wire,
                   subscribed, events>>

(* Mutant of Abandoned: only the loop's failure result ends the waiting.   *)
AbandonedNever(r) == FALSE /\ UNCHANGED vars

(* The client is closed.                                                   *)
Abandoned(r) ==
    /\ closed
    /\ Enter(r, {"wait"}, "failed")
    /\ pending' = [pending EXCEPT ![r] = "none"]
    /\ UNCHANGED <<loop, conn, dials, closed, reader, subs, called, listens, handlers, ready, wire,
                   subscribed, events>>

-----------------------------------------------------------------------------
(* HaWsService *)

(* onHaConnected; its two subscriptions follow in the same goroutine.      *)
OnHaConnected ==
    /\ "connected" \in handlers
    /\ handlers' = handlers \ {"connected"}
    /\ ready' = TRUE
    /\ stage' = [r \in Requests |-> IF r \in Lifecycle THEN "due" ELSE stage[r]]
    /\ UNCHANGED <<loop, conn, dials, closed, reader, pending, subs, called, listens, wire, subscribed, events>>

(* onHaDisconnected also ends the listening to the connection's events.    *)
OnHaDisconnected ==
    /\ "disconnected" \in handlers
    /\ handlers' = handlers \ {"disconnected"}
    /\ ready' = FALSE /\ listens' = FALSE
    /\ subs' = subs \ Lifecycle
    /\ subscribed' = IF conn = "open" THEN subscribed \ (subs \cap Lifecycle) ELSE subscribed
    /\ UNCHANGED <<loop, conn, dials, closed, reader, stage, pending, called, wire, events>>

-----------------------------------------------------------------------------
(* Home Assistant tells a subscriber.                                      *)
Happens(r) ==
    /\ r \in subscribed /\ conn = "open" /\ loop = "up" /\ events < MaxEvents
    /\ events' = events + 1
    /\ wire' = Append(wire, [id |-> r, type |-> "event"])
    /\ UNCHANGED <<loop, conn, dials, closed, reader, stage, pending, subs, called, listens,
                   handlers, ready, subscribed>>

Step(r) == Write(r) \/ WriteFails(r) \/ Answered(r) \/ Abandoned(r)

Next ==
    \/ Dial \/ HelloFails \/ HelloSucceeds \/ Lost \/ Ended
    \/ ReadFails \/ Read
    \/ \E r \in Requests : Register(r) \/ Step(r) \/ Happens(r)
    \/ OnHaConnected \/ OnHaDisconnected

Spec == Init /\ [][Next]_vars

(* Goroutines go on; that a handshake succeeds is not promised.            *)
Fairness ==
    /\ WF_vars(Dial \/ HelloFails \/ HelloSucceeds \/ Lost \/ Ended)
    /\ WF_vars(Read) /\ WF_vars(OnHaConnected) /\ WF_vars(OnHaDisconnected)
    /\ \A r \in Requests : WF_vars(Step(r))
FairSpec == Spec /\ Fairness

-----------------------------------------------------------------------------
(* As long as the client is not closed, a handler that is registered waits *)
(* for events of a subscription that Home Assistant has on the connection  *)
(* of now: the client keeps its handlers when a connection is replaced,    *)
(* and subscribes nothing again (SubscribeEvents, connectLoop).            *)
HandlersAreSubscribed == ~closed => subs \subseteq subscribed

(* Nobody waits for an answer once the client is closed (SubscribeEvents). *)
NobodyWaits == closed ~> \A r \in Requests : stage[r] # "wait"

(* While the client is open and no request falls into a handshake, every   *)
(* request is answered.                                                    *)
AnswersArrive == \A r \in Requests : stage[r] = "wait" ~> stage[r] # "wait"

(* An event of a subscription is given to its handler (client.go:472: "The *)
(* handler will be invoked for each event").                               *)
EventsAreHandled ==
    [][\A r \in subs :
         wire # <<>> /\ wire' = Tail(wire) /\ Head(wire) = [id |-> r, type |-> "event"]
             => r \in called']_vars

(* A lost connection is dialled again (client.go:126: "connectLoop runs in *)
(* background and attempts to maintain a connection").                     *)
DialsAgain == loop = "up" /\ reader = "ended" /\ dials < MaxDials ~> loop = "hello"

(* HACoreReady does not stay set without a connection (onHaDisconnected).  *)
ReadyIsConnected == conn = "none" /\ ready ~> ~ready \/ conn # "none"
=============================================================================
