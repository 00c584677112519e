------------------------------ MODULE Problems ------------------------------
(***************************************************************************)
(* The problem registry and its bridge to Home Assistant:                  *)
(* service/problem_service.go (the table, the cache and the events),       *)
(* service/problem_ha_bridge.go (the listener that routes a problem to a   *)
(* persistent notification, a repair, or a queue while Home Assistant is   *)
(* away) and the notification calls of service/homeassistant_service.go.   *)
(*                                                                         *)
(* An actor is a goroutine inside one call of the service: an HTTP         *)
(* handler, the websocket reader, the add-on configuration watcher.  The   *)
(* event bus is synchronous, so the bridge runs in the same goroutine,     *)
(* after the cache has been updated and with no lock held.                 *)
(***************************************************************************)
EXTENDS Integers, Sequences, FiniteSets

CONSTANTS
    Actors, Keys,
    Severities,   \* of "warning" (info is routed the same), "error" (and critical)
    Overlap,      \* BOOLEAN: two calls work on the same key at the same time, and
                  \* Home Assistant stops during a call
    Ops,          \* operations that happen, of "upsert", "dismiss", "fix", "get"
    MaxRows,      \* bound: rows ever created
    MaxQueue,     \* bound: actions queued or about to be
    MayFail,      \* BOOLEAN: calls to Home Assistant fail
    MayRestart,   \* BOOLEAN: the service restarts
    None

VARIABLES
    rows,       \* rows[k]: the rows of the problems table with key k
    nextId,     \* the next row id
    cache,      \* cache[k]: the cached problem, or None
    ready,      \* state.HACoreReady
    component,  \* state.HAWsComponent is set
    queue,      \* the bridge's queue of actions
    shown,      \* keys with a persistent notification in Home Assistant
    tracked,    \* keys in notificationTracker with today's date
    pc, job, item, todo  \* per actor: where it is, its call, the problem it
                         \* holds, and the notification actions it has to send

storeVars == <<rows, nextId, cache>>
haVars == <<ready, component>>
bridgeVars == <<queue, shown, tracked>>
vars == <<storeVars, haVars, bridgeVars, pc, job, item, todo>>

Problem == [id : 1 .. MaxRows, open : BOOLEAN, severity : Severities]
Action == [dismiss : BOOLEAN, key : Keys]
Job == [op : {"upsert", "dismiss", "fix", "get"}, key : Keys, severity : Severities]

Init ==
    /\ rows = [k \in Keys |-> {}]
    /\ nextId = 1
    /\ cache = [k \in Keys |-> None]
    /\ ready \in BOOLEAN
    /\ component = FALSE
    /\ queue = <<>>
    /\ shown = {}
    /\ tracked = {}
    /\ pc = [a \in Actors |-> "idle"]
    /\ job = [a \in Actors |-> None]
    /\ item = [a \in Actors |-> None]
    /\ todo = [a \in Actors |-> <<>>]

Goto(a, from, to) == pc[a] = from /\ pc' = [pc EXCEPT ![a] = to]

\* The same, and a call that ends forgets what it was about.
MoveTo(a, from, to) ==
    /\ Goto(a, from, to)
    /\ IF to = "idle"
       THEN job' = [job EXCEPT ![a] = None] /\ item' = [item EXCEPT ![a] = None]
       ELSE UNCHANGED <<job, item>>

\* gorm's First orders by primary key.
First(k) == CHOOSE r \in rows[k] : \A s \in rows[k] : r.id <= s.id
Last(k) == CHOOSE r \in rows[k] : \A s \in rows[k] : s.id <= r.id

-----------------------------------------------------------------------------
(* ProblemService *)

Busy == {a \in Actors : pc[a] # "idle"}
Quiet(k) == \A a \in Busy : job[a].key # k

\* A call begins; the guard keeps the instance within its bounds.
Call(a) ==
    /\ Goto(a, "idle", "find")
    /\ Len(queue) + Cardinality(Busy) < MaxQueue
    /\ \E j \in [op : Ops, key : Keys, severity : Severities] :
         /\ Overlap \/ Quiet(j.key)
         /\ j.op = "upsert" => nextId + Cardinality(Busy) <= MaxRows
         /\ j.op # "upsert" => j.severity = CHOOSE s \in Severities : TRUE
         /\ job' = [job EXCEPT ![a] = j]
    /\ UNCHANGED <<storeVars, haVars, bridgeVars, item, todo>>

\* Get answers from the cache; a call on a missing problem ends with an error.
FindNothing(a) ==
    /\ MoveTo(a, "find", "idle")
    /\ \/ job[a].op = "get" /\ cache[job[a].key] # None
       \/ job[a].op # "upsert" /\ rows[job[a].key] = {}
    /\ UNCHANGED <<storeVars, haVars, bridgeVars, todo>>

FindRow(a) ==
    LET j == job[a]
    IN  /\ Goto(a, "find", IF j.op = "get" THEN "cache" ELSE "write")
        /\ j.op = "get" => cache[j.key] = None
        /\ IF rows[j.key] = {}
           THEN j.op = "upsert" /\ item' = [item EXCEPT ![a] = None]
           ELSE item' = [item EXCEPT ![a] = First(j.key)]
        /\ UNCHANGED <<storeVars, haVars, bridgeVars, job, todo>>

\* gorm's Save updates the row, or inserts it again if it is gone.
Save(k, row) ==
    rows' = [rows EXCEPT ![k] = {r \in @ : r.id # row.id} \cup {row}]

WriteUpsert(a) ==
    /\ job[a].op = "upsert"
    /\ LET row == [id |-> IF item[a] = None THEN nextId ELSE item[a].id,
                   open |-> TRUE, severity |-> job[a].severity]
       IN  /\ Save(job[a].key, row)
           /\ item' = [item EXCEPT ![a] = row]
           /\ nextId' = IF item[a] = None THEN nextId + 1 ELSE nextId

WriteFix(a) ==
    /\ job[a].op = "fix"
    /\ LET row == [item[a] EXCEPT !.open = FALSE]
       IN  /\ Save(job[a].key, row)
           /\ item' = [item EXCEPT ![a] = row]
           /\ UNCHANGED nextId

WriteDismiss(a) ==
    /\ job[a].op = "dismiss"
    /\ rows' = [rows EXCEPT ![job[a].key] = {r \in @ : r.id # item[a].id}]
    /\ UNCHANGED <<item, nextId>>

Write(a) ==
    /\ Goto(a, "write", "cache")
    /\ WriteUpsert(a) \/ WriteFix(a) \/ WriteDismiss(a)
    /\ UNCHANGED <<cache, haVars, bridgeVars, job, todo>>

\* Mutant of Cache: a dismissed problem stays in the cache.
CacheKept(a) ==
    /\ MoveTo(a, "cache", IF job[a].op = "get" THEN "idle" ELSE "route")
    /\ cache' = [cache EXCEPT ![job[a].key] = item[a]]
    /\ UNCHANGED <<rows, nextId, haVars, bridgeVars, todo>>

\* The cache is updated under the mutex, after the table and apart from it.
Cache(a) ==
    /\ MoveTo(a, "cache", IF job[a].op = "get" THEN "idle" ELSE "route")
    /\ cache' = [cache EXCEPT ![job[a].key] =
                   IF job[a].op = "dismiss" THEN None ELSE item[a]]
    /\ UNCHANGED <<rows, nextId, haVars, bridgeVars, todo>>

-----------------------------------------------------------------------------
(* ProblemHABridge: handleProblemEvent, in the goroutine of the call *)

\* The status decides, not the type of the event: the REMOVE event of Dismiss
\* carries the status the row had.
Terminal(problem) == ~problem.open

ActionOf(a) == [dismiss |-> Terminal(item[a]), key |-> job[a].key]

\* With a connected component a repair is raised instead of a notification.
AsRepair(a) == component /\ item[a].severity = "error" /\ ~Terminal(item[a])

RouteToRepair(a) ==
    /\ MoveTo(a, "route", "idle")
    /\ AsRepair(a)
    /\ UNCHANGED <<storeVars, haVars, bridgeVars, todo>>

Enqueue(a) ==
    /\ MoveTo(a, "route", "idle")
    /\ ~AsRepair(a) /\ ~ready
    /\ queue' = Append(queue, ActionOf(a))
    /\ UNCHANGED <<storeVars, haVars, shown, tracked, todo>>

RouteToHA(a) ==
    /\ Goto(a, "route", "flush")
    /\ ~AsRepair(a) /\ ready
    /\ todo' = [todo EXCEPT ![a] = <<ActionOf(a)>>]
    /\ UNCHANGED <<storeVars, haVars, bridgeVars, job, item>>

\* Mutant of Flush: the new action goes out before the queued ones.
FlushLast(a) ==
    /\ Goto(a, "flush", "send")
    /\ IF ready
       THEN todo' = [todo EXCEPT ![a] = @ \o queue] /\ queue' = <<>>
       ELSE UNCHANGED <<todo, queue>>
    /\ UNCHANGED <<storeVars, haVars, shown, tracked, job, item>>

\* flushQueue takes the queue under the mutex, if Home Assistant is still ready,
\* and sends it with the mutex released.
Flush(a) ==
    /\ Goto(a, "flush", "send")
    /\ IF ready
       THEN todo' = [todo EXCEPT ![a] = queue \o @] /\ queue' = <<>>
       ELSE UNCHANGED <<todo, queue>>
    /\ UNCHANGED <<storeVars, haVars, shown, tracked, job, item>>

-----------------------------------------------------------------------------
(* CreatePersistentNotification and DismissPersistentNotification *)

Current(a) == Head(todo[a])

\* An action is over; the last one ends the call.
NextAction(a, from) ==
    /\ MoveTo(a, from, IF Len(todo[a]) = 1 THEN "idle" ELSE "send")
    /\ todo' = [todo EXCEPT ![a] = Tail(@)]

\* A notification already sent today is not sent again.
SkipCreate(a) ==
    /\ pc[a] = "send" /\ ~Current(a).dismiss
    /\ Current(a).key \in tracked
    /\ NextAction(a, "send")
    /\ UNCHANGED <<storeVars, haVars, bridgeVars>>

CallCreate(a) ==
    /\ Goto(a, "send", "track") /\ ~Current(a).dismiss
    /\ Current(a).key \notin tracked
    /\ shown' = shown \cup {Current(a).key}
    /\ UNCHANGED <<storeVars, haVars, queue, tracked, job, item, todo>>

CallDismiss(a) ==
    /\ Goto(a, "send", "track") /\ Current(a).dismiss
    /\ shown' = shown \ {Current(a).key}
    /\ UNCHANGED <<storeVars, haVars, queue, tracked, job, item, todo>>

\* The tracker is updated after the answer, under its own lock.
Track(a) ==
    /\ NextAction(a, "track")
    /\ tracked' = IF Current(a).dismiss THEN tracked \ {Current(a).key}
                  ELSE tracked \cup {Current(a).key}
    /\ UNCHANGED <<storeVars, haVars, queue, shown>>

\* A failed call: the rest of the queue is dropped, the own action still tried.
SendFails(a) ==
    /\ MayFail
    /\ LET own == IF Len(todo[a]) = 1 THEN <<>> ELSE <<todo[a][Len(todo[a])]>>
       IN  /\ MoveTo(a, "send", IF own = <<>> THEN "idle" ELSE "send")
           /\ todo' = [todo EXCEPT ![a] = own]
    /\ UNCHANGED <<storeVars, haVars, bridgeVars>>

-----------------------------------------------------------------------------
(* Home Assistant, the clock and the service's process *)

HAStarts == ~ready /\ ready' = TRUE /\ UNCHANGED component
HAStops == ready /\ ready' = FALSE /\ UNCHANGED component /\ (Overlap \/ Busy = {})
ComponentChanges == component' = ~component /\ UNCHANGED ready

Environment ==
    /\ HAStarts \/ HAStops \/ ComponentChanges
    /\ UNCHANGED <<storeVars, bridgeVars, pc, job, item, todo>>

NewDay ==
    /\ tracked # {}
    /\ tracked' = {}
    /\ UNCHANGED <<storeVars, haVars, queue, shown, pc, job, item, todo>>

\* Queue, tracker and cache are in memory; loadCache reads every row, in order.
Restart ==
    /\ MayRestart
    /\ cache' = [k \in Keys |-> IF rows[k] = {} THEN None ELSE Last(k)]
    /\ queue' = <<>>
    /\ tracked' = {}
    /\ ready' = FALSE
    /\ component' = FALSE
    /\ pc' = [a \in Actors |-> "idle"]
    /\ job' = [a \in Actors |-> None]
    /\ item' = [a \in Actors |-> None]
    /\ todo' = [a \in Actors |-> <<>>]
    /\ UNCHANGED <<rows, nextId, shown>>

Step(a) ==
    \/ FindNothing(a) \/ FindRow(a) \/ Write(a) \/ Cache(a)
    \/ RouteToRepair(a) \/ Enqueue(a) \/ RouteToHA(a) \/ Flush(a)
    \/ SkipCreate(a) \/ CallCreate(a) \/ CallDismiss(a) \/ Track(a) \/ SendFails(a)

Next ==
    \/ \E a \in Actors : Call(a) \/ Step(a)
    \/ Environment
    \/ NewDay
    \/ Restart

Spec == Init /\ [][Next]_vars

\* Calls run to their end; nothing makes Home Assistant start or a call come.
FairSpec == Spec /\ \A a \in Actors : WF_vars(Step(a))

-----------------------------------------------------------------------------
(* Properties *)

\* Every variable keeps its type: rows, cache and items are problems, the queue
\* and what the calls have to send are actions (problem_ha_bridge.go:21).
TypeOK ==
    /\ rows \in [Keys -> SUBSET Problem]
    /\ nextId \in 1 .. MaxRows + 1
    /\ cache \in [Keys -> Problem \cup {None}]
    /\ ready \in BOOLEAN
    /\ component \in BOOLEAN
    /\ queue \in Seq(Action)
    /\ shown \subseteq Keys
    /\ tracked \subseteq Keys
    /\ pc \in [Actors -> {"idle", "find", "write", "cache", "route", "flush",
                          "send", "track"}]
    /\ job \in [Actors -> Job \cup {None}]
    /\ item \in [Actors -> Problem \cup {None}]
    /\ todo \in [Actors -> Seq(Action)]

\* While no call works on a key, its cache entry is its row: whoever lists the
\* problems sees what the table holds, also after a restart
\* (problem_service.go:118-121, 139-142, 161-164, 187-190, 62-67).
CacheIsStore ==
    \A k \in Keys : Quiet(k) =>
        (cache[k] # None => cache[k] \in rows[k])

\* The notification of k as the queue and the calls under way will leave it,
\* when only one actor sends
After(k, actions) ==
    LET ofK == {i \in DOMAIN actions : actions[i].key = k}
    IN  IF ofK = {} THEN k \in shown
        ELSE ~actions[CHOOSE i \in ofK : \A j \in ofK : j <= i].dismiss

\* A fixed problem does not keep a notification: once its call is over, nothing
\* shown or queued for Home Assistant speaks of it, whatever Home Assistant's
\* restarts, the daily limit and the component's sessions did before
\* (problem_ha_bridge.go:84-97, 126-156).
FixedIsSilent ==
    Busy = {} =>
        \A k \in Keys : (rows[k] # {} /\ \A r \in rows[k] : ~r.open) => ~After(k, queue)

\* The notification of k is still to be created by one of the actions.
Creates(k, actions) == \E i \in DOMAIN actions : actions[i] = [dismiss |-> FALSE, key |-> k]

\* problem_ha_bridge.go:101, "Connected + warning/info => HA persistent notification",
\* and 102 for all severities while disconnected: an open warning whose call is over
\* is shown, or its creation is queued or still to be sent by some call.
WarningIsAnnounced ==
    \A k \in Keys :
        (Quiet(k) /\ \E r \in rows[k] : r.open /\ r.severity = "warning") =>
            k \in shown \/ Creates(k, queue) \/ \E a \in Actors : Creates(k, todo[a])

\* problem_service.go:89 updates the row it finds, and dbom/problem.go:16 declares
\* problem_key with uniqueIndex: a key has one row.
OneRowPerKey == \A k \in Keys : Cardinality(rows[k]) <= 1

\* api/problem.go:69 and 114, "Get all open problems" and "Dismiss a problem by
\* key": a dismissed problem is not listed.
ListedIsStored == \A k \in Keys : (Quiet(k) /\ cache[k] # None) => rows[k] # {}

\* The same of Home Assistant: a dismissed problem has no notification there.
DismissedIsSilent ==
    Busy = {} => \A k \in Keys : rows[k] = {} => ~After(k, queue)

\* The bridge's test is named for the queue being flushed when Home Assistant
\* becomes ready (problem_ha_bridge_test.go:138).
ReadyFlushes == []<>(queue = <<>> \/ ~ready)
=============================================================================
