--------------------------- MODULE ProblemsProofs ---------------------------
(***************************************************************************)
(* What the table, the cache and the notifications of Problems say of each *)
(* other, for any number of keys, rows and queued actions.                 *)
(***************************************************************************)
EXTENDS Problems, SequenceTheorems, TLAPS

-----------------------------------------------------------------------------
(* The table and the cache *)

(* One call at a time works on a key; None is no row and no call.          *)
OneAtATime == Overlap = FALSE /\ Ops \subseteq {"upsert", "dismiss", "fix", "get"}

Row == [id : Nat, open : BOOLEAN, severity : Severities]
Places == {"idle", "find", "write", "cache", "route", "flush", "send", "track"}

CallTypes ==
    /\ pc \in [Actors -> Places]
    /\ job \in [Actors -> Job \cup {None}]
    /\ item \in [Actors -> Row \cup {None}]
    /\ \A a \in Busy : job[a] \in Job

(* A key has one row at most.                                              *)
StoreTypes ==
    /\ nextId \in Nat
    /\ rows \in [Keys -> SUBSET Row]
    /\ cache \in [Keys -> Row \cup {None}]
    /\ \A k \in Keys : \A r, s \in rows[k] : r = s

(* Two calls are never about the same key.                                 *)
OneCall == \A a, b \in Busy : job[a].key = job[b].key => a = b

(* What a call has read is what the table holds; what it has written too.  *)
Holds(a) ==
    LET k == job[a].key IN
    /\ pc[a] = "write" =>
          IF item[a] = None THEN job[a].op = "upsert" /\ rows[k] = {}
                            ELSE item[a] \in rows[k]
    /\ pc[a] \in {"cache", "route"} =>
          IF job[a].op = "dismiss" THEN rows[k] = {} ELSE item[a] \in rows[k]
    /\ pc[a] \in {"write", "cache", "route"} /\ job[a].op # "upsert" => item[a] # None
    /\ pc[a] = "route" => job[a].op # "get"

Cached(k) == cache[k] # None => cache[k] \in rows[k]

(* A call that has yet to update the cache.                                *)
Pending(k) == \E a \in Busy : job[a].key = k /\ pc[a] \in {"write", "cache"}

StoreInv ==
    /\ CallTypes /\ StoreTypes /\ OneCall
    /\ \A a \in Busy : Holds(a)
    /\ \A k \in Keys : Pending(k) \/ Cached(k)

NoneIsApart == None \notin Row /\ None \notin Job
Setting == OneAtATime /\ NoneIsApart

LEMMA InitStore == ASSUME Init PROVE StoreInv
<1>1. Busy = {}
  BY DEF Init, Busy
<1>. QED
  BY <1>1 DEF Init, StoreInv, CallTypes, StoreTypes, OneCall, Holds, Cached, Pending, Places

(* A step that changes no row and no cache entry: its call moves on, or     *)
(* ends, away from the table and the cache.                                *)
LEMMA MovesKeepStore ==
    ASSUME StoreInv, UNCHANGED storeVars, NEW a \in Actors,
           pc[a] \notin {"idle", "write", "cache"},
           NEW place \in Places \ {"write", "cache", "route"},
           MoveTo(a, pc[a], place)
    PROVE  StoreInv'
<1>1. CallTypes'
  BY DEF StoreInv, CallTypes, MoveTo, Goto, Busy, Places
<1>2. /\ Busy' \subseteq Busy
      /\ \A b \in Busy' : job'[b] = job[b] /\ item'[b] = item[b]
      /\ \A b \in Actors : pc'[b] \in {"write", "cache"} <=> pc[b] \in {"write", "cache"}
      /\ \A b \in Actors : pc'[b] \in {"write", "cache", "route"} => pc'[b] = pc[b]
  BY DEF StoreInv, CallTypes, MoveTo, Goto, Busy, Places
<1>3. OneCall' /\ StoreTypes'
  BY <1>2 DEF StoreInv, StoreTypes, OneCall, storeVars
<1>4. ASSUME NEW b \in Busy' PROVE Holds(b)'
  <2>1. b \in Actors /\ b \in Busy /\ job'[b] = job[b] /\ item'[b] = item[b]
    BY <1>2 DEF Busy
  <2>2. pc'[b] = pc[b] \/ pc'[b] \notin {"write", "cache", "route"}
    BY <1>2, <2>1
  <2>3. Holds(b) /\ rows' = rows
    BY <2>1 DEF StoreInv, storeVars
  <2>. QED
    BY <2>1, <2>2, <2>3 DEF Holds
<1>5. \A k \in Keys : Pending(k) => Pending(k)'
  <2>. SUFFICES ASSUME NEW k \in Keys, NEW b \in Busy, job[b].key = k, pc[b] \in {"write", "cache"}
                PROVE  b \in Busy' /\ job'[b].key = k /\ pc'[b] \in {"write", "cache"}
    BY DEF Pending
  <2>. b \in Busy' /\ pc'[b] \in {"write", "cache"}
    BY <1>1, <1>2 DEF Busy
  <2>. QED
    BY <1>2
<1>6. \A k \in Keys : Cached(k) => Cached(k)'
  BY DEF Cached, storeVars
<1>. QED
  BY <1>1, <1>3, <1>4, <1>5, <1>6 DEF StoreInv

(* A new call finds no other call on its key.                              *)
LEMMA CallKeepsStore == ASSUME Setting, StoreInv, NEW a \in Actors, Call(a) PROVE StoreInv'
<1>1. PICK j \in Job : Quiet(j.key) /\ job' = [job EXCEPT ![a] = j]
  BY DEF Call, Setting, OneAtATime, Job
<1>2. /\ pc[a] = "idle" /\ pc' = [pc EXCEPT ![a] = "find"]
      /\ UNCHANGED <<rows, nextId, cache, item>>
  BY DEF Call, Goto, storeVars
<1>3. CallTypes' /\ Busy' = Busy \cup {a} /\ a \notin Busy
  BY <1>1, <1>2 DEF StoreInv, CallTypes, Busy, Places
<1>4. job'[a] = j /\ \A b \in Busy : b # a /\ job'[b] = job[b] /\ pc'[b] = pc[b] /\ item'[b] = item[b]
  BY <1>1, <1>2, <1>3 DEF StoreInv, CallTypes, Busy
<1>5. OneCall'
  BY <1>1, <1>3, <1>4 DEF StoreInv, OneCall, Quiet
<1>6. StoreTypes'
  BY <1>2 DEF StoreInv, StoreTypes
<1>7. ASSUME NEW b \in Busy' PROVE Holds(b)'
  <2>1. CASE b = a
    BY <1>2, <2>1 DEF Holds, StoreInv, CallTypes
  <2>2. CASE b \in Busy
    <3>. Holds(b)
      BY <2>2 DEF StoreInv
    <3>. QED
      BY <1>2, <1>4, <2>2 DEF Holds
  <2>. QED
    BY <1>3, <2>1, <2>2
<1>8. \A k \in Keys : Pending(k) => Pending(k)'
  BY <1>3, <1>4 DEF Pending
<1>9. \A k \in Keys : Cached(k) => Cached(k)'
  BY <1>2 DEF Cached
<1>. QED
  BY <1>3, <1>5, <1>6, <1>7, <1>8, <1>9 DEF StoreInv

(* What a step of one call on its own key leaves to the others.            *)
LEMMA OneKeepsStore ==
    ASSUME StoreInv, NEW a \in Busy, NEW k \in Keys, job[a].key = k,
           CallTypes', StoreTypes', Busy' \subseteq Busy, job'[a] = job[a] \/ a \notin Busy',
           \A b \in Actors \ {a} : pc'[b] = pc[b] /\ job'[b] = job[b] /\ item'[b] = item[b],
           \A h \in Keys \ {k} : rows'[h] = rows[h] /\ cache'[h] = cache[h],
           a \in Busy' => Holds(a)',
           (a \in Busy' /\ pc'[a] \in {"write", "cache"}) \/ Cached(k)'
    PROVE  StoreInv'
<1>1. OneCall'
  BY DEF StoreInv, OneCall, Busy
<1>2. ASSUME NEW b \in Busy' PROVE Holds(b)'
  <2>1. CASE b = a
    BY <2>1
  <2>2. CASE b # a
    <3>1. b \in Busy /\ b \in Actors /\ Holds(b) /\ job[b] \in Job
      BY DEF StoreInv, Busy, CallTypes
    <3>2. job[b].key \in Keys \ {k}
      BY <2>2, <3>1 DEF StoreInv, OneCall, Job
    <3>. QED
      BY <2>2, <3>1, <3>2 DEF Holds
  <2>. QED
    BY <2>1, <2>2
<1>3. ASSUME NEW h \in Keys PROVE Pending(h)' \/ Cached(h)'
  <2>1. CASE h = k
    BY <2>1, <1>1 DEF Pending, Busy
  <2>2. CASE h # k /\ Cached(h)
    BY <2>2 DEF Cached
  <2>3. CASE h # k /\ Pending(h)
    <3>. PICK b \in Busy : job[b].key = h /\ pc[b] \in {"write", "cache"}
      BY <2>3 DEF Pending
    <3>. b # a /\ b \in Busy'
      BY <2>3 DEF Busy
    <3>. QED
      BY DEF Pending, Busy
  <2>. QED
    BY <2>1, <2>2, <2>3 DEF StoreInv
<1>. QED
  BY <1>1, <1>2, <1>3 DEF StoreInv

(* First is the row, there being no other.                                 *)
LEMMA FirstIsRow ==
    ASSUME StoreTypes, NEW k \in Keys, rows[k] # {}
    PROVE  First(k) \in rows[k] /\ Last(k) \in rows[k]
<1>. PICK r \in rows[k] : TRUE
  OBVIOUS
<1>1. rows[k] = {r} /\ r.id \in Nat
  BY DEF StoreTypes, Row
<1>. QED
  BY <1>1 DEF First, Last

LEMMA FindKeepsStore == ASSUME Setting, StoreInv, NEW a \in Actors, FindRow(a) PROVE StoreInv'
<1>. DEFINE j == job[a]
            place == IF j.op = "get" THEN "cache" ELSE "write"
<1>1. /\ pc[a] = "find" /\ pc' = [pc EXCEPT ![a] = place] /\ job' = job
      /\ UNCHANGED <<rows, nextId, cache>>
      /\ a \in Busy /\ j \in Job /\ j.key \in Keys
  BY DEF FindRow, Goto, StoreInv, CallTypes, Busy, Job, storeVars
<1>2. \/ rows[j.key] = {} /\ j.op = "upsert" /\ item' = [item EXCEPT ![a] = None]
      \/ rows[j.key] # {} /\ item' = [item EXCEPT ![a] = First(j.key)]
  BY DEF FindRow
<1>3. rows[j.key] # {} => First(j.key) \in rows[j.key] /\ First(j.key) \in Row
  BY <1>1, FirstIsRow DEF StoreInv, StoreTypes
<1>4. item' \in [Actors -> Row \cup {None}] /\ \A b \in Actors \ {a} : item'[b] = item[b]
  BY <1>2, <1>3 DEF StoreInv, CallTypes
<1>5. Busy' = Busy /\ pc' \in [Actors -> Places] /\ pc'[a] \in {"write", "cache"}
  BY <1>1 DEF StoreInv, CallTypes, Busy, Places
<1>6. CallTypes'
  BY <1>1, <1>4, <1>5 DEF StoreInv, CallTypes
<1>7. Holds(a)'
  <2>1. item'[a] = None \/ item'[a] = First(j.key)
    BY <1>2 DEF StoreInv, CallTypes
  <2>2. CASE rows[j.key] = {}
    BY <1>1, <1>2, <2>2 DEF Holds, StoreInv, CallTypes
  <2>3. CASE rows[j.key] # {}
    <3>1. item'[a] = First(j.key) /\ item'[a] # None
      BY <1>2, <1>3, <2>3 DEF StoreInv, CallTypes, Setting, NoneIsApart
    <3>. QED
      BY <1>1, <1>3, <2>3, <3>1 DEF Holds
  <2>. QED
    BY <2>2, <2>3
<1>8. StoreTypes'
  BY <1>1 DEF StoreInv, StoreTypes
<1>9. \A b \in Actors \ {a} : pc'[b] = pc[b]
  BY <1>1 DEF StoreInv, CallTypes
<1>. HIDE DEF place
<1>. QED
  BY <1>1, <1>4, <1>5, <1>6, <1>7, <1>8, <1>9, OneKeepsStore

(* The row that is written is the only one of its key.                     *)
LEMMA WriteKeepsStore == ASSUME Setting, StoreInv, NEW a \in Actors, Write(a) PROVE StoreInv'
<1>. DEFINE k == job[a].key
            i == item[a]
<1>1. /\ pc[a] = "write" /\ pc' = [pc EXCEPT ![a] = "cache"] /\ job' = job /\ cache' = cache
      /\ a \in Busy /\ job[a] \in Job /\ k \in Keys /\ i \in Row \cup {None}
      /\ rows[k] \subseteq Row /\ nextId \in Nat
  BY DEF Write, Goto, StoreInv, CallTypes, StoreTypes, Busy, Job
<1>2. /\ i = None => job[a].op = "upsert" /\ rows[k] = {}
      /\ i # None => i \in rows[k] /\ rows[k] = {i}
  BY <1>1 DEF StoreInv, Holds, StoreTypes
<1>3. /\ \E new \in SUBSET Row :
             /\ rows' = [rows EXCEPT ![k] = new] /\ \A r, s \in new : r = s
             /\ IF job[a].op = "dismiss" THEN new = {} ELSE item'[a] \in new
      /\ nextId' \in Nat
      /\ \E row \in Row \cup {None} : item' = [item EXCEPT ![a] = row]
      /\ job[a].op # "upsert" => item'[a] # None
  <2>1. CASE WriteUpsert(a)
    <3>. DEFINE row == [id |-> IF i = None THEN nextId ELSE i.id, open |-> TRUE, severity |-> job[a].severity]
    <3>1. row \in Row
      BY <1>1 DEF Row, Job
    <3>2. rows' = [rows EXCEPT ![k] = {row}]
      <4>1. {r \in rows[k] : r.id # row.id} = {}
        BY <1>2
      <4>2. rows' = [rows EXCEPT ![k] = {r \in rows[k] : r.id # row.id} \cup {row}]
        BY <2>1 DEF WriteUpsert, Save
      <4>. HIDE DEF row
      <4>. QED
        BY <4>1, <4>2
    <3>3. item' = [item EXCEPT ![a] = row] /\ job[a].op = "upsert"
      BY <2>1 DEF WriteUpsert
    <3>4. item'[a] = row
      BY <3>3 DEF StoreInv, CallTypes
    <3>5. nextId' \in Nat
      BY <1>1, <2>1 DEF WriteUpsert
    <3>. HIDE DEF row
    <3>6. {row} \in SUBSET Row /\ \A r, s \in {row} : r = s
      BY <3>1
    <3>7. IF job[a].op = "dismiss" THEN {row} = {} ELSE item'[a] \in {row}
      BY <3>3, <3>4
    <3>. QED
      BY <3>1, <3>2, <3>3, <3>5, <3>6, <3>7
  <2>2. CASE WriteFix(a)
    <3>. DEFINE row == [i EXCEPT !.open = FALSE]
    <3>1. i # None /\ i \in Row
      BY <1>1, <1>2, <2>2 DEF WriteFix
    <3>2. row \in Row /\ row.id = i.id
      BY <3>1 DEF Row
    <3>3. rows' = [rows EXCEPT ![k] = {row}]
      <4>1. {r \in rows[k] : r.id # row.id} = {}
        BY <1>2, <3>1, <3>2
      <4>. QED
        BY <2>2, <4>1 DEF WriteFix, Save, StoreInv, StoreTypes
    <3>4. item' = [item EXCEPT ![a] = row] /\ nextId' = nextId /\ job[a].op = "fix"
      BY <2>2 DEF WriteFix
    <3>5. item'[a] = row /\ row # None
      BY <3>2, <3>4 DEF StoreInv, CallTypes, Setting, NoneIsApart
    <3>. HIDE DEF row
    <3>6. {row} \in SUBSET Row /\ \A r, s \in {row} : r = s
      BY <3>2
    <3>7. IF job[a].op = "dismiss" THEN {row} = {} ELSE item'[a] \in {row}
      BY <3>4, <3>5
    <3>. QED
      BY <1>1, <3>2, <3>3, <3>4, <3>5, <3>6, <3>7
  <2>3. CASE WriteDismiss(a)
    <3>1. i # None
      BY <1>2, <2>3 DEF WriteDismiss
    <3>2. {r \in rows[k] : r.id # i.id} = {}
      BY <1>2, <3>1
    <3>3. rows' = [rows EXCEPT ![k] = {}] /\ item' = item /\ nextId' = nextId /\ job[a].op = "dismiss"
      BY <2>3, <3>2 DEF WriteDismiss, StoreInv, StoreTypes
    <3>4. item' = [item EXCEPT ![a] = i]
      BY <3>3 DEF StoreInv, CallTypes
    <3>5. {} \in SUBSET Row /\ \A r, s \in {} : r = s
      OBVIOUS
    <3>6. item'[a] # None
      BY <3>1, <3>3
    <3>. HIDE DEF i
    <3>. QED
      BY <1>1, <3>3, <3>4, <3>5, <3>6
  <2>. QED
    BY <2>1, <2>2, <2>3 DEF Write
<1>4. StoreTypes' /\ \A h \in Keys \ {k} : rows'[h] = rows[h] /\ cache'[h] = cache[h]
  BY <1>1, <1>3 DEF StoreInv, StoreTypes
<1>5. Busy' = Busy /\ pc' \in [Actors -> Places] /\ pc'[a] = "cache" /\ \A b \in Actors \ {a} : pc'[b] = pc[b]
  BY <1>1 DEF StoreInv, CallTypes, Busy, Places
<1>6. CallTypes' /\ \A b \in Actors \ {a} : item'[b] = item[b]
  BY <1>1, <1>3, <1>5 DEF StoreInv, CallTypes
<1>7. Holds(a)'
  <2>1. IF job[a].op = "dismiss" THEN rows'[k] = {} ELSE item'[a] \in rows'[k]
    BY <1>1, <1>3 DEF StoreInv, StoreTypes
  <2>. QED
    BY <1>1, <1>3, <1>5, <2>1 DEF Holds
<1>. HIDE DEF k, i
<1>8. job[a].key = k
  BY DEF k
<1>. QED
  BY <1>1, <1>4, <1>5, <1>6, <1>7, <1>8, OneKeepsStore

LEMMA CacheKeepsStore == ASSUME Setting, StoreInv, NEW a \in Actors, Cache(a) PROVE StoreInv'
<1>. PICK k : k = job[a].key
  OBVIOUS
<1>. DEFINE place == IF job[a].op = "get" THEN "idle" ELSE "route"
            new == IF job[a].op = "dismiss" THEN None ELSE item[a]
<1>1. /\ pc[a] = "cache" /\ pc' = [pc EXCEPT ![a] = place] /\ MoveTo(a, "cache", place)
      /\ UNCHANGED <<rows, nextId>> /\ cache' = [cache EXCEPT ![k] = new]
      /\ a \in Busy /\ job[a] \in Job /\ k \in Keys /\ rows[k] \subseteq Row
  BY DEF Cache, MoveTo, Goto, StoreInv, CallTypes, StoreTypes, Busy, Job
<1>2. Holds(a) /\ (new = None \/ new \in rows[k])
  BY <1>1 DEF StoreInv, Holds
<1>3. StoreTypes' /\ \A h \in Keys \ {k} : rows'[h] = rows[h] /\ cache'[h] = cache[h]
  BY <1>1, <1>2 DEF StoreInv, StoreTypes
<1>4. CallTypes' /\ Busy' \subseteq Busy /\ pc'[a] = place
  BY <1>1 DEF MoveTo, StoreInv, CallTypes, Busy, Places
<1>5. /\ \A b \in Actors \ {a} : pc'[b] = pc[b] /\ job'[b] = job[b] /\ item'[b] = item[b]
      /\ job'[a] = job[a] \/ a \notin Busy'
  BY <1>1 DEF MoveTo, StoreInv, CallTypes, Busy
<1>6. Cached(k)'
  <2>1. cache'[k] = new /\ rows' = rows
    BY <1>1 DEF StoreInv, StoreTypes
  <2>. QED
    BY <1>2, <2>1 DEF Cached
<1>7. a \in Busy' => Holds(a)'
  <2>. SUFFICES ASSUME a \in Busy' PROVE Holds(a)'
    OBVIOUS
  <2>1. job'[a] = job[a] /\ item'[a] = item[a] /\ pc'[a] = "route" /\ job[a].op # "get"
    BY <1>1, <1>4 DEF MoveTo, Busy, StoreInv, CallTypes
  <2>. QED
    BY <1>1, <1>2, <2>1 DEF Holds
<1>. HIDE DEF place, new
<1>. QED
  BY <1>1, <1>3, <1>4, <1>5, <1>6, <1>7, OneKeepsStore

(* loadCache fills the cache from the rows; no call survives.              *)
LEMMA RestartKeepsStore == ASSUME StoreInv, Restart PROVE StoreInv'
<1>1. Busy' = {}
  BY DEF Restart, Busy
<1>2. StoreTypes' /\ \A k \in Keys : Cached(k)'
  <2>1. \A k \in Keys : rows[k] # {} => Last(k) \in rows[k] /\ Last(k) \in Row
    BY FirstIsRow DEF StoreInv, StoreTypes
  <2>2. cache' \in [Keys -> Row \cup {None}] /\ \A k \in Keys : cache'[k] # None => cache'[k] \in rows[k]
    BY <2>1 DEF Restart
  <2>3. rows' = rows /\ nextId' = nextId
    BY DEF Restart
  <2>. QED
    BY <2>2, <2>3 DEF StoreInv, StoreTypes, Cached
<1>3. CallTypes'
  BY <1>1 DEF CallTypes, Restart, Places
<1>. QED
  BY <1>1, <1>2, <1>3 DEF StoreInv, OneCall

(* What happens to no call and to no row.                                  *)
LEMMA OthersKeepStore == ASSUME StoreInv, UNCHANGED <<storeVars, pc, job, item>> PROVE StoreInv'
<1>1. Busy' = Busy
  BY DEF Busy
<1>2. /\ rows' = rows /\ cache' = cache /\ nextId' = nextId
      /\ pc' = pc /\ job' = job /\ item' = item
  BY DEF storeVars
<1>3. \A a \in Busy : Holds(a)'
  BY <1>2 DEF StoreInv, Holds
<1>4. \A k \in Keys : Pending(k)' \/ Cached(k)'
  BY <1>1, <1>2 DEF StoreInv, Pending, Cached
<1>. QED
  BY <1>1, <1>2, <1>3, <1>4 DEF StoreInv, CallTypes, StoreTypes, OneCall

LEMMA RouteKeepsStore == ASSUME StoreInv, NEW a \in Actors PROVE
    /\ FindNothing(a) \/ RouteToRepair(a) \/ Enqueue(a) \/ RouteToHA(a) \/ Flush(a) => StoreInv'
    /\ SkipCreate(a) \/ CallCreate(a) \/ CallDismiss(a) \/ Track(a) \/ SendFails(a) => StoreInv'
<1>1. CASE FindNothing(a) \/ RouteToRepair(a) \/ Enqueue(a)
  <2>1. MoveTo(a, pc[a], "idle") /\ pc[a] \in {"find", "route"} /\ UNCHANGED storeVars
    BY <1>1 DEF FindNothing, RouteToRepair, Enqueue, MoveTo, Goto
  <2>. QED
    BY <2>1, MovesKeepStore DEF Places
<1>2. CASE RouteToHA(a)
  <2>1. MoveTo(a, pc[a], "flush") /\ pc[a] = "route" /\ UNCHANGED storeVars
    BY <1>2 DEF RouteToHA, MoveTo, Goto
  <2>. QED
    BY <2>1, MovesKeepStore DEF Places
<1>3. CASE Flush(a)
  <2>1. MoveTo(a, pc[a], "send") /\ pc[a] = "flush" /\ UNCHANGED storeVars
    BY <1>3 DEF Flush, MoveTo, Goto
  <2>. QED
    BY <2>1, MovesKeepStore DEF Places
<1>4. CASE CallCreate(a) \/ CallDismiss(a)
  <2>1. MoveTo(a, pc[a], "track") /\ pc[a] = "send" /\ UNCHANGED storeVars
    BY <1>4 DEF CallCreate, CallDismiss, MoveTo, Goto
  <2>. QED
    BY <2>1, MovesKeepStore DEF Places
<1>5. CASE SkipCreate(a) \/ Track(a) \/ SendFails(a)
  <2>1. PICK place \in {"idle", "send"} : MoveTo(a, pc[a], place)
    BY <1>5 DEF SkipCreate, Track, SendFails, NextAction, MoveTo, Goto
  <2>2. pc[a] \in {"send", "track"} /\ UNCHANGED storeVars
    BY <1>5 DEF SkipCreate, Track, SendFails, NextAction, MoveTo, Goto
  <2>. QED
    BY <2>1, <2>2, MovesKeepStore DEF Places
<1>. QED
  BY <1>1, <1>2, <1>3, <1>4, <1>5

LEMMA NextKeepsStore == ASSUME Setting, StoreInv, [Next]_vars PROVE StoreInv'
<1>1. ASSUME NEW a \in Actors, Call(a) PROVE StoreInv'
  BY <1>1, CallKeepsStore
<1>2. ASSUME NEW a \in Actors, Step(a) PROVE StoreInv'
  BY <1>2, FindKeepsStore, WriteKeepsStore, CacheKeepsStore, RouteKeepsStore DEF Step
<1>3. CASE Environment \/ NewDay \/ UNCHANGED vars
  BY <1>3, OthersKeepStore DEF Environment, NewDay, vars, storeVars
<1>4. CASE Restart
  BY <1>4, RestartKeepsStore
<1>. QED
  BY <1>1, <1>2, <1>3, <1>4 DEF Next

LEMMA StoreInvariant == ASSUME Setting PROVE Spec => []StoreInv
<1>1. Init => StoreInv
  BY InitStore
<1>2. StoreInv /\ [Next]_vars => StoreInv'
  BY NextKeepsStore
<1>. QED
  BY <1>1, <1>2, PTL DEF Spec

(* Whoever lists the problems sees what the table holds: while no call     *)
(* works on a key, its cache entry is its row, also after calls that fail  *)
(* and after a restart, as long as two calls are never about the same key  *)
(* at once (Upsert, ApplyLifecycle, Dismiss, Get, loadCache).              *)
THEOREM ListedIsTrue == ASSUME Setting PROVE Spec => []CacheIsStore
<1>1. StoreInv => CacheIsStore
  <2>. SUFFICES ASSUME StoreInv, NEW k \in Keys, Quiet(k) PROVE Cached(k)
    BY DEF CacheIsStore, Cached
  <2>. QED
    BY DEF StoreInv, Pending, Quiet
<1>. QED
  BY <1>1, StoreInvariant, PTL

-----------------------------------------------------------------------------
(* The notifications.  A list of actions that leaves none of k, when those *)
(* of sh are shown before it.                                              *)

Speaks(s, k) == \E i \in DOMAIN s : s[i].key = k
Dismisses(s, k) ==
    \E i \in DOMAIN s :
        /\ s[i].key = k /\ s[i].dismiss
        /\ \A j \in DOMAIN s : s[j].key = k => j <= i
Silences(sh, s, k) == IF Speaks(s, k) THEN Dismisses(s, k) ELSE k \notin sh

(* One goroutine calls, Home Assistant answers, and the service stays up.  *)
OneCaller == (\A a, b \in Actors : a = b) /\ Actors # {} /\ ~MayFail /\ ~MayRestart

(* The actions to come: the queued ones, then those of the call.           *)
ToCome(a) == queue \o todo[a]

(* A call has actions to send from its routing to its end, and has taken    *)
(* the queue once it sends; Home Assistant does not stop meanwhile.        *)
Sends(a) ==
    /\ todo[a] # <<>> <=> pc[a] \in {"flush", "send", "track"}
    /\ pc[a] \in {"flush", "send", "track"} => ready
    /\ pc[a] \in {"send", "track"} => queue = <<>>
    /\ pc[a] = "track" /\ Current(a).dismiss => Current(a).key \notin shown

(* A call that has changed the row and not yet routed the change.          *)
Unrouted(a, k) == a \in Busy /\ job[a].key = k /\ job[a].op # "get" /\ pc[a] \in {"cache", "route"}

(* Of a fixed problem nothing is left.                                     *)
Follows(a, k) == (\E r \in rows[k] : ~r.open) => Silences(shown, ToCome(a), k)

NoteTypes ==
    /\ queue \in Seq(Action) /\ todo \in [Actors -> Seq(Action)]

NoteInv ==
    /\ NoteTypes
    /\ \A a \in Actors : Sends(a)
    /\ \A a \in Actors, k \in Keys : Unrouted(a, k) \/ Follows(a, k)

(* A new action decides for its key and says nothing of the others.        *)
LEMMA AppendSilences ==
    ASSUME NEW sh, NEW s \in Seq(Action), NEW e \in Action, NEW k,
           IF e.key = k THEN e.dismiss ELSE Silences(sh, s, k)
    PROVE  Silences(sh, Append(s, e), k)
<1>. DEFINE t == Append(s, e)
<1>1. /\ Len(s) \in Nat /\ DOMAIN s = 1 .. Len(s) /\ DOMAIN t = 1 .. Len(s) + 1
      /\ \A i \in 1 .. Len(s) : t[i] = s[i]
      /\ t[Len(s) + 1] = e
  BY AppendProperties, LenProperties
<1>. HIDE DEF t
<1>2. CASE e.key = k
  BY <1>1, <1>2 DEF Silences, Speaks, Dismisses
<1>3. CASE e.key # k
  <2>1. Speaks(t, k) => Speaks(s, k)
    BY <1>1, <1>3 DEF Speaks
  <2>2. Speaks(s, k) => Speaks(t, k)
    BY <1>1 DEF Speaks
  <2>3. Dismisses(s, k) => Dismisses(t, k)
    BY <1>1, <1>3 DEF Dismisses
  <2>. QED
    BY <1>3, <2>1, <2>2, <2>3 DEF Silences, t
<1>. QED
  BY <1>2, <1>3 DEF t

(* The first action has been carried out: what it says is now shown.       *)
LEMMA TailSilences ==
    ASSUME NEW sh, NEW new, NEW s \in Seq(Action), s # <<>>, NEW k,
           Silences(sh, s, k),
           Head(s).dismiss => Head(s).key \notin new,
           Head(s).key # k => (k \in new <=> k \in sh)
    PROVE  Silences(new, Tail(s), k)
<1>. DEFINE t == Tail(s)
<1>1. /\ Len(s) \in Nat \ {0} /\ DOMAIN s = 1 .. Len(s) /\ DOMAIN t = 1 .. Len(s) - 1
      /\ \A i \in 1 .. Len(s) - 1 : t[i] = s[i + 1]
      /\ Head(s) = s[1]
  BY HeadTailProperties, LenProperties, EmptySeq
<1>. HIDE DEF t
<1>2. CASE Speaks(t, k)
  <2>1. PICK j \in 1 .. Len(s) - 1 : t[j].key = k
    BY <1>1, <1>2 DEF Speaks
  <2>2. Speaks(s, k)
    <3>. j + 1 \in DOMAIN s /\ s[j + 1].key = k
      BY <1>1, <2>1
    <3>. QED
      BY DEF Speaks
  <2>3. PICK i \in 1 .. Len(s) : /\ s[i].key = k /\ s[i].dismiss
                                 /\ \A h \in 1 .. Len(s) : s[h].key = k => h <= i
    BY <1>1, <2>2 DEF Silences, Dismisses
  <2>4. i - 1 \in 1 .. Len(s) - 1 /\ t[i - 1] = s[i]
    <3>. j + 1 \in 1 .. Len(s) /\ s[j + 1].key = k
      BY <1>1, <2>1
    <3>. j + 1 <= i
      BY <2>3
    <3>. i - 1 \in 1 .. Len(s) - 1 /\ (i - 1) + 1 = i
      BY <1>1
    <3>. QED
      BY <1>1
  <2>5. ASSUME NEW h \in 1 .. Len(s) - 1, t[h].key = k PROVE h <= i - 1
    <3>. h + 1 \in 1 .. Len(s) /\ s[h + 1].key = k
      BY <1>1, <2>5
    <3>. QED
      BY <1>1, <2>3
  <2>6. Dismisses(t, k)
    BY <1>1, <2>3, <2>4, <2>5 DEF Dismisses
  <2>. QED
    BY <1>2, <2>6 DEF Silences, t
<1>3. CASE ~Speaks(t, k)
  <2>1. \A i \in 2 .. Len(s) : s[i].key # k
    <3>. SUFFICES ASSUME NEW i \in 2 .. Len(s), s[i].key = k PROVE FALSE
      OBVIOUS
    <3>. i - 1 \in 1 .. Len(s) - 1 /\ (i - 1) + 1 = i
      BY <1>1
    <3>. t[i - 1].key = k
      BY <1>1
    <3>. QED
      BY <1>1, <1>3 DEF Speaks
  <2>2. CASE s[1].key = k
    <3>1. Speaks(s, k)
      BY <1>1, <2>2 DEF Speaks
    <3>2. PICK i \in 1 .. Len(s) : s[i].key = k /\ s[i].dismiss
      BY <1>1, <3>1 DEF Silences, Dismisses
    <3>3. i = 1
      BY <1>1, <2>1, <3>2
    <3>. QED
      BY <1>1, <1>3, <2>2, <3>2, <3>3 DEF Silences, t
  <2>3. CASE s[1].key # k
    <3>1. ~Speaks(s, k)
      BY <1>1, <2>1, <2>3 DEF Speaks
    <3>. QED
      BY <1>1, <1>3, <2>3, <3>1 DEF Silences, t
  <2>. QED
    BY <2>2, <2>3
<1>. QED
  BY <1>2, <1>3 DEF t

(* What is shown does not matter for a key that the actions speak of.      *)
LEMMA ShownSilences ==
    ASSUME NEW sh, NEW new, NEW s, NEW k,
           Silences(sh, s, k), Speaks(s, k) \/ (k \in new <=> k \in sh)
    PROVE  Silences(new, s, k)
BY DEF Silences

(* After chooses the last action of the key.                               *)
LEMMA AfterSilences ==
    ASSUME NEW s \in Seq(Action), NEW k, Silences(shown, s, k)
    PROVE  ~After(k, s)
<1>. DEFINE ofK == {i \in DOMAIN s : s[i].key = k}
<1>1. Len(s) \in Nat /\ DOMAIN s = 1 .. Len(s)
  BY LenProperties
<1>2. CASE Speaks(s, k)
  <2>1. PICK i \in ofK : s[i].dismiss /\ \A j \in ofK : j <= i
    BY <1>2 DEF Silences, Dismisses
  <2>2. (CHOOSE h \in ofK : \A j \in ofK : j <= h) = i
    <3>1. \A h \in ofK : h \in Int
      BY <1>1
    <3>2. \A h \in ofK : (\A j \in ofK : j <= h) => h = i
      BY <2>1, <3>1
    <3>. HIDE DEF ofK
    <3>. QED
      BY <2>1, <3>2
  <2>. QED
    BY <2>1, <2>2 DEF After
<1>3. CASE ~Speaks(s, k)
  <2>1. ofK = {}
    BY <1>3 DEF Speaks
  <2>. QED
    BY <1>3, <2>1 DEF After, Silences
<1>. QED
  BY <1>2, <1>3

LEMMA InitNotes == ASSUME Init, NoneIsApart PROVE NoteInv
<1>1. NoteTypes
  BY EmptySeq DEF Init, NoteTypes
<1>2. \A a \in Actors : Sends(a)
  BY DEF Init, Sends
<1>3. \A a \in Actors, k \in Keys : Follows(a, k)
  BY DEF Init, Follows
<1>. QED
  BY <1>1, <1>2, <1>3 DEF NoteInv

LEMMA OneKeepsNotes ==
    ASSUME OneCaller, NEW a \in Actors, NoteTypes', Sends(a)',
           \A k \in Keys : Unrouted(a, k)' \/ Follows(a, k)'
    PROVE  NoteInv'
<1>. Actors = {a}
  BY DEF OneCaller
<1>. QED
  BY DEF NoteInv

(* Nothing is routed or sent.                                              *)
LEMMA StillSends ==
    ASSUME NoteInv, UNCHANGED bridgeVars, NEW a \in Actors, todo' = todo,
           {pc[a], pc'[a]} \cap {"flush", "send", "track"} = {}
    PROVE  NoteTypes' /\ Sends(a)'
<1>. NoteTypes /\ Sends(a)
  BY DEF NoteInv
<1>1. NoteTypes'
  BY DEF NoteTypes, bridgeVars
<1>2. Sends(a)'
  BY DEF Sends
<1>. QED
  BY <1>1, <1>2

LEMMA StillFollows ==
    ASSUME UNCHANGED bridgeVars, NEW a \in Actors, todo' = todo,
           NEW k \in Keys, Follows(a, k), rows'[k] = rows[k]
    PROVE  Follows(a, k)'
BY DEF Follows, ToCome, bridgeVars

(* A call before it routes its change.                                     *)
LEMMA StoreKeepsNotes ==
    ASSUME OneCaller, StoreInv, NoteInv, NEW a \in Actors, UNCHANGED bridgeVars, todo' = todo,
           {pc[a], pc'[a]} \cap {"flush", "send", "track"} = {},
           \A k \in Keys : Unrouted(a, k)' \/ (~Unrouted(a, k) /\ rows'[k] = rows[k])
    PROVE  NoteInv'
<1>1. \A k \in Keys : Unrouted(a, k)' \/ Follows(a, k)'
  BY StillFollows DEF NoteInv
<1>. QED
  BY <1>1, StillSends, OneKeepsNotes

LEMMA CallsKeepNotes ==
    ASSUME OneCaller, Setting, StoreInv, NoteInv, NEW a \in Actors,
           Call(a) \/ FindNothing(a) \/ FindRow(a) \/ Write(a) \/ Cache(a)
    PROVE  NoteInv'
<1>1. UNCHANGED bridgeVars /\ todo' = todo
  BY DEF Call, FindNothing, FindRow, Write, Cache
<1>2. pc \in [Actors -> Places]
  BY DEF StoreInv, CallTypes
<1>3. CASE Call(a) \/ FindNothing(a)
  <2>1. /\ pc[a] \in {"idle", "find"} /\ pc'[a] \in {"idle", "find"} /\ rows' = rows
    BY <1>2, <1>3 DEF Call, FindNothing, MoveTo, Goto, storeVars
  <2>2. \A k \in Keys : ~Unrouted(a, k)
    BY <2>1 DEF Unrouted
  <2>. QED
    BY <1>1, <2>1, <2>2, StoreKeepsNotes
<1>4. CASE FindRow(a)
  <2>1. pc[a] = "find" /\ pc'[a] \in {"cache", "write"} /\ rows' = rows
    BY <1>2, <1>4 DEF FindRow, Goto, storeVars
  <2>2. \A k \in Keys : ~Unrouted(a, k)
    BY <2>1 DEF Unrouted
  <2>. QED
    BY <1>1, <2>1, <2>2, StoreKeepsNotes
<1>5. CASE Write(a)
  <2>1. /\ pc[a] = "write" /\ pc'[a] = "cache" /\ job' = job /\ job[a].op # "get"
        /\ \A k \in Keys : k # job[a].key => rows'[k] = rows[k]
    BY <1>2, <1>5 DEF Write, WriteUpsert, WriteFix, WriteDismiss, Save, Goto, StoreInv, StoreTypes
  <2>2. \A k \in Keys : ~Unrouted(a, k)
    BY <2>1 DEF Unrouted
  <2>3. \A k \in Keys : k = job[a].key => Unrouted(a, k)'
    BY <2>1 DEF Unrouted, Busy
  <2>. QED
    BY <1>1, <2>1, <2>2, <2>3, StoreKeepsNotes
<1>6. CASE Cache(a)
  <2>1. /\ pc[a] = "cache" /\ rows' = rows
        /\ IF job[a].op = "get" THEN pc'[a] = "idle" ELSE pc'[a] = "route" /\ job' = job
    BY <1>2, <1>6 DEF Cache, MoveTo, Goto
  <2>2. \A k \in Keys : Unrouted(a, k) => Unrouted(a, k)'
    BY <2>1 DEF Unrouted, Busy
  <2>. QED
    BY <1>1, <2>1, <2>2, StoreKeepsNotes
<1>. QED
  BY <1>3, <1>4, <1>5, <1>6

(* What is to come before a call routes its change is the queue; the row    *)
(* is what the call has written.                                           *)
LEMMA AtRoute ==
    ASSUME StoreInv, NoteInv, NEW a \in Actors, pc[a] = "route"
    PROVE  /\ ToCome(a) = queue /\ todo[a] = <<>> /\ queue \in Seq(Action)
           /\ a \in Busy /\ job[a].key \in Keys
           /\ ActionOf(a) \in Action /\ (ActionOf(a).dismiss <=> ~item[a].open)
           /\ ActionOf(a).key = job[a].key
           /\ \A r \in rows[job[a].key] : r = item[a]
           /\ \A k \in Keys \ {job[a].key} : Follows(a, k)
<1>1. a \in Busy /\ job[a] \in Job /\ item[a] \in Row
  <2>1. a \in Busy /\ job[a] \in Job
    BY DEF Busy, StoreInv, CallTypes
  <2>2. Holds(a) /\ rows[job[a].key] \subseteq Row
    BY <2>1 DEF StoreInv, StoreTypes, Job
  <2>3. item[a] \in Row \cup {None}
    BY DEF StoreInv, CallTypes
  <2>. QED
    BY <2>1, <2>2, <2>3 DEF Holds, Job
<1>2. Sends(a) /\ NoteTypes
  BY DEF NoteInv
<1>3. todo[a] = <<>> /\ queue \in Seq(Action)
  BY <1>2 DEF Sends, NoteTypes
<1>4. ToCome(a) = queue
  BY <1>3, ConcatEmptySeq DEF ToCome
<1>5. job[a].key \in Keys /\ item[a].open \in BOOLEAN
  BY <1>1 DEF Job, Row
<1>6. ActionOf(a) \in Action /\ (ActionOf(a).dismiss <=> ~item[a].open) /\ ActionOf(a).key = job[a].key
  BY <1>5 DEF ActionOf, Action, Terminal
<1>7. \A r \in rows[job[a].key] : r = item[a]
  <2>. Holds(a)
    BY <1>1 DEF StoreInv
  <2>. QED
    BY <1>5 DEF StoreInv, StoreTypes, Holds
<1>8. \A k \in Keys \ {job[a].key} : Follows(a, k)
  BY DEF NoteInv, Unrouted
<1>. QED
  BY <1>1, <1>3, <1>4, <1>5, <1>6, <1>7, <1>8

(* The change is now the last action to come on its key.                   *)
LEMMA Routed ==
    ASSUME StoreInv, NoteInv, NEW a \in Actors, pc[a] = "route",
           rows' = rows, shown' = shown, ToCome(a)' = Append(queue, ActionOf(a)),
           NEW k \in Keys
    PROVE  Follows(a, k)'
<1>. DEFINE act == ActionOf(a)
<1>1. CASE k = job[a].key
  <2>1. act.dismiss => Silences(shown, Append(queue, act), k)
    BY <1>1, AtRoute, AppendSilences
  <2>2. \A r \in rows[k] : r.open <=> ~act.dismiss
    BY <1>1, AtRoute
  <2>. HIDE DEF act
  <2>. QED
    BY <2>1, <2>2 DEF Follows, act
<1>2. CASE k # job[a].key
  <2>1. Follows(a, k) /\ ToCome(a) = queue /\ act.key # k /\ act \in Action /\ queue \in Seq(Action)
    BY <1>2, AtRoute
  <2>2. Silences(shown, queue, k) => Silences(shown, Append(queue, act), k)
    BY <2>1, AppendSilences
  <2>. HIDE DEF act
  <2>. QED
    BY <2>1, <2>2 DEF Follows, act
<1>. QED
  BY <1>1, <1>2

LEMMA RoutesKeepNotes ==
    ASSUME OneCaller, StoreInv, NoteInv, NEW a \in Actors,
           RouteToRepair(a) \/ Enqueue(a) \/ RouteToHA(a)
    PROVE  NoteInv'
<1>1. pc[a] = "route" /\ rows' = rows /\ shown' = shown /\ tracked' = tracked
  BY DEF RouteToRepair, Enqueue, RouteToHA, MoveTo, Goto, storeVars, bridgeVars
<1>2. pc \in [Actors -> Places] /\ NoteTypes
  BY DEF StoreInv, CallTypes, NoteInv
<1>5. CASE RouteToRepair(a)
  <2>1. pc'[a] = "idle" /\ queue' = queue /\ todo' = todo /\ AsRepair(a)
    BY <1>2, <1>5 DEF RouteToRepair, MoveTo, Goto, bridgeVars
  <2>2. \A r \in rows[job[a].key] : r.open
    BY <1>1, <2>1, AtRoute DEF AsRepair, Terminal
  <2>3. \A k \in Keys : Follows(a, k)
    BY <1>1, <2>2, AtRoute DEF Follows
  <2>4. \A k \in Keys : Follows(a, k)'
    BY <1>1, <2>1, <2>3, StillFollows DEF bridgeVars
  <2>. QED
    BY <1>1, <2>1, <2>4, StillSends, OneKeepsNotes DEF bridgeVars
<1>6. CASE Enqueue(a)
  <2>1. pc'[a] = "idle" /\ queue' = Append(queue, ActionOf(a)) /\ todo' = todo
    BY <1>2, <1>6 DEF Enqueue, MoveTo, Goto
  <2>2. queue' \in Seq(Action) /\ ToCome(a)' = queue' /\ todo'[a] = <<>>
    <3>1. queue' \in Seq(Action) /\ todo'[a] = <<>>
      BY <1>1, <2>1, AtRoute, AppendProperties
    <3>. QED
      BY <3>1, ConcatEmptySeq DEF ToCome
  <2>3. \A k \in Keys : Follows(a, k)'
    BY <1>1, <2>1, <2>2, Routed
  <2>4. NoteTypes' /\ Sends(a)'
    BY <1>1, <1>2, <2>1, <2>2 DEF NoteTypes, Sends
  <2>. QED
    BY <2>3, <2>4, OneKeepsNotes
<1>7. CASE RouteToHA(a)
  <2>1. /\ pc'[a] = "flush" /\ ready' /\ queue' = queue
        /\ todo' = [todo EXCEPT ![a] = <<ActionOf(a)>>]
    BY <1>2, <1>7 DEF RouteToHA, Goto, haVars, bridgeVars
  <2>2. todo'[a] = <<ActionOf(a)>> /\ todo' \in [Actors -> Seq(Action)]
    BY <1>1, <1>2, <2>1, AtRoute DEF NoteTypes
  <2>3. ToCome(a)' = Append(queue, ActionOf(a))
    BY <1>1, <2>1, <2>2, AtRoute, AppendIsConcat DEF ToCome
  <2>4. \A k \in Keys : Follows(a, k)'
    BY <1>1, <2>3, Routed
  <2>5. NoteTypes' /\ Sends(a)'
    BY <1>1, <1>2, <2>1, <2>2 DEF NoteTypes, Sends
  <2>. QED
    BY <2>4, <2>5, OneKeepsNotes
<1>. QED
  BY <1>5, <1>6, <1>7

(* The queue goes before the call's own action.                            *)
LEMMA FlushKeepsNotes ==
    ASSUME OneCaller, StoreInv, NoteInv, NEW a \in Actors, Flush(a) PROVE NoteInv'
<1>1. pc \in [Actors -> Places] /\ NoteTypes /\ Sends(a)
  BY DEF StoreInv, CallTypes, NoteInv
<1>2. /\ pc[a] = "flush" /\ pc'[a] = "send" /\ ready /\ ready' /\ queue' = <<>>
      /\ todo' = [todo EXCEPT ![a] = queue \o @]
      /\ rows' = rows /\ shown' = shown /\ tracked' = tracked
  BY <1>1 DEF Flush, Goto, Sends, storeVars, haVars
<1>3. queue \in Seq(Action) /\ todo[a] \in Seq(Action) /\ todo[a] # <<>>
  BY <1>1, <1>2 DEF NoteTypes, Sends
<1>4. todo'[a] = queue \o todo[a] /\ todo'[a] \in Seq(Action) /\ todo'[a] # <<>>
  BY <1>1, <1>2, <1>3, ConcatProperties, ConcatEqualIffEmpty DEF NoteTypes
<1>5. ToCome(a)' = ToCome(a)
  BY <1>2, <1>4, ConcatEmptySeq DEF ToCome
<1>6. NoteTypes'
  BY <1>1, <1>2, <1>4, EmptySeq DEF NoteTypes
<1>7. Sends(a)'
  BY <1>1, <1>2, <1>4 DEF Sends
<1>8. \A k \in Keys : Follows(a, k)
  BY <1>2 DEF NoteInv, Unrouted
<1>9. \A k \in Keys : Follows(a, k)'
  BY <1>2, <1>5, <1>8 DEF Follows
<1>. QED
  BY <1>6, <1>7, <1>9, OneKeepsNotes

(* While a call sends, what is to come is what it has to send.             *)
LEMMA AtSend ==
    ASSUME StoreInv, NoteInv, NEW a \in Actors, pc[a] \in {"send", "track"}
    PROVE  /\ queue = <<>> /\ ready /\ todo[a] \in Seq(Action) /\ todo[a] # <<>>
           /\ ToCome(a) = todo[a] /\ Current(a) \in Action
           /\ Tail(todo[a]) \in Seq(Action) /\ Len(Tail(todo[a])) = Len(todo[a]) - 1
           /\ Len(todo[a]) \in Nat \ {0}
           /\ \A k \in Keys : Follows(a, k)
<1>1. NoteTypes /\ Sends(a)
  BY DEF NoteInv
<1>2. queue = <<>> /\ ready /\ todo[a] \in Seq(Action) /\ todo[a] # <<>>
  BY <1>1 DEF NoteTypes, Sends
<1>3. ToCome(a) = todo[a]
  BY <1>2, ConcatEmptySeq DEF ToCome
<1>4. Current(a) \in Action /\ Tail(todo[a]) \in Seq(Action) /\ Len(Tail(todo[a])) = Len(todo[a]) - 1
  BY <1>2, HeadTailProperties DEF Current
<1>5. Len(todo[a]) \in Nat \ {0}
  BY <1>2, EmptySeq
<1>6. \A k \in Keys : Follows(a, k)
  BY DEF NoteInv, Unrouted
<1>. QED
  BY <1>2, <1>3, <1>4, <1>5, <1>6

(* An action is over, and the notification of its key is as it says.       *)
LEMMA ActionEnds ==
    ASSUME OneCaller, StoreInv, NoteInv, NEW a \in Actors, pc[a] \in {"send", "track"},
           UNCHANGED <<storeVars, haVars, queue, shown>>, NextAction(a, pc[a]),
           Current(a).dismiss => Current(a).key \notin shown
    PROVE  NoteInv'
<1>1. pc \in [Actors -> Places] /\ NoteTypes
  BY DEF StoreInv, CallTypes, NoteInv
<1>2. /\ todo' = [todo EXCEPT ![a] = Tail(@)] /\ rows' = rows /\ ready' = ready
      /\ pc'[a] = IF Len(todo[a]) = 1 THEN "idle" ELSE "send"
  BY <1>1 DEF NextAction, MoveTo, Goto, storeVars, haVars
<1>3. todo'[a] = Tail(todo[a]) /\ NoteTypes'
  BY <1>1, <1>2, AtSend DEF NoteTypes
<1>4. todo'[a] # <<>> <=> Len(todo[a]) # 1
  <2>1. todo'[a] \in Seq(Action) /\ Len(todo'[a]) = Len(todo[a]) - 1 /\ Len(todo[a]) \in Nat \ {0}
    BY <1>3, AtSend
  <2>2. todo'[a] # <<>> <=> Len(todo'[a]) # 0
    BY <2>1, EmptySeq
  <2>. QED
    BY <2>1, <2>2
<1>5. Sends(a)'
  BY <1>2, <1>4, AtSend DEF Sends
<1>6. ASSUME NEW k \in Keys PROVE Follows(a, k)'
  <2>1. ToCome(a)' = Tail(todo[a])
    BY <1>3, AtSend, ConcatEmptySeq DEF ToCome
  <2>2. Silences(shown, todo[a], k) => Silences(shown, Tail(todo[a]), k)
    <3>1. todo[a] \in Seq(Action) /\ todo[a] # <<>>
      BY AtSend
    <3>2. Head(todo[a]).dismiss => Head(todo[a]).key \notin shown
      BY DEF Current
    <3>. HIDE DEF Current
    <3>. QED
      BY <3>1, <3>2, TailSilences
  <2>3. Follows(a, k) /\ ToCome(a) = todo[a]
    BY AtSend
  <2>. QED
    BY <1>2, <2>1, <2>2, <2>3 DEF Follows
<1>. QED
  BY <1>3, <1>5, <1>6, OneKeepsNotes

LEMMA SendsKeepNotes ==
    ASSUME OneCaller, StoreInv, NoteInv, NEW a \in Actors,
           SkipCreate(a) \/ CallCreate(a) \/ CallDismiss(a) \/ Track(a) \/ SendFails(a)
    PROVE  NoteInv'
<1>1. pc \in [Actors -> Places] /\ NoteTypes /\ Sends(a)
  BY DEF StoreInv, CallTypes, NoteInv
<1>2. CASE SkipCreate(a)
  <2>1. /\ pc[a] = "send" /\ NextAction(a, pc[a]) /\ ~Current(a).dismiss
        /\ UNCHANGED <<storeVars, haVars, queue, shown>>
    BY <1>2 DEF SkipCreate, bridgeVars
  <2>. QED
    BY <2>1, ActionEnds
<1>3. CASE Track(a)
  <2>1. /\ pc[a] = "track" /\ NextAction(a, pc[a])
        /\ UNCHANGED <<storeVars, haVars, queue, shown>>
    BY <1>3 DEF Track, NextAction, MoveTo, Goto
  <2>. QED
    BY <1>1, <2>1, ActionEnds DEF Sends
<1>4. CASE CallCreate(a) \/ CallDismiss(a)
  <2>. DEFINE e == Current(a)
  <2>1. /\ pc[a] = "send" /\ pc'[a] = "track" /\ rows' = rows /\ ready' = ready
        /\ queue' = queue /\ todo' = todo
    BY <1>1, <1>4 DEF CallCreate, CallDismiss, Goto, storeVars, haVars
  <2>2. /\ e \in Action
        /\ IF e.dismiss THEN shown' = shown \ {e.key} ELSE shown' = shown \cup {e.key}
    BY <1>4, <2>1, AtSend DEF CallCreate, CallDismiss
  <2>3. NoteTypes' /\ Current(a)' = e
    BY <1>1, <2>1, <2>2 DEF NoteTypes, Action, Current
  <2>4. Sends(a)'
    BY <1>1, <2>1, <2>2, <2>3 DEF Sends
  <2>6. ASSUME NEW k \in Keys PROVE Follows(a, k)'
    <3>1. Speaks(todo[a], k) \/ (k \in shown' <=> k \in shown)
      <4>1. CASE k = e.key
        <5>1. 1 \in DOMAIN todo[a] /\ todo[a][1] = e
          BY <2>1, AtSend, LenProperties DEF Current
        <5>. QED
          BY <4>1, <5>1 DEF Speaks
      <4>2. CASE k # e.key
        BY <2>2, <4>2
      <4>. QED
        BY <4>1, <4>2
    <3>2. Silences(shown, todo[a], k) => Silences(shown', todo[a], k)
      BY <3>1, ShownSilences
    <3>3. Follows(a, k) /\ ToCome(a) = todo[a] /\ ToCome(a)' = todo[a]
      BY <2>1, AtSend DEF ToCome
    <3>. QED
      BY <2>1, <3>2, <3>3 DEF Follows
  <2>. QED
    BY <2>3, <2>4, <2>6, OneKeepsNotes
<1>. QED
  BY <1>2, <1>3, <1>4 DEF SendFails, OneCaller

(* Home Assistant stops between two calls only; a day's end forgets what    *)
(* was sent in it.                                                         *)
LEMMA OthersKeepNotes ==
    ASSUME OneAtATime, NoteInv, Environment \/ NewDay \/ UNCHANGED vars
    PROVE  NoteInv'
<1>1. UNCHANGED <<rows, queue, shown, pc, job, todo>>
  BY DEF Environment, NewDay, vars, storeVars, bridgeVars
<1>2. NoteTypes'
  BY <1>1 DEF NoteInv, NoteTypes
<1>3. ready' = ready \/ ready' \/ Busy = {}
  BY DEF Environment, NewDay, vars, haVars, HAStarts, HAStops, ComponentChanges, OneAtATime
<1>4. ASSUME NEW a \in Actors PROVE Sends(a)'
  <2>1. Sends(a) /\ Current(a)' = Current(a)
    BY <1>1 DEF NoteInv, Current
  <2>2. ready /\ pc[a] \in {"flush", "send", "track"} => ready'
    BY <1>3 DEF Busy
  <2>. QED
    BY <1>1, <2>1, <2>2 DEF Sends
<1>5. ASSUME NEW a \in Actors, NEW k \in Keys PROVE Unrouted(a, k)' \/ Follows(a, k)'
  <2>1. Unrouted(a, k) => Unrouted(a, k)'
    BY <1>1 DEF Unrouted, Busy
  <2>2. Follows(a, k) => Follows(a, k)'
    BY <1>1 DEF Follows, ToCome
  <2>. QED
    BY <2>1, <2>2 DEF NoteInv
<1>. QED
  BY <1>2, <1>4, <1>5 DEF NoteInv

LEMMA NextKeepsNotes ==
    ASSUME OneCaller, Setting, StoreInv, NoteInv, [Next]_vars
    PROVE  NoteInv'
<1>1. ASSUME NEW a \in Actors, Call(a) \/ Step(a) PROVE NoteInv'
  BY <1>1, CallsKeepNotes, RoutesKeepNotes, FlushKeepsNotes, SendsKeepNotes DEF Step
<1>2. CASE Environment \/ NewDay \/ UNCHANGED vars
  BY <1>2, OthersKeepNotes DEF Setting
<1>. QED
  BY <1>1, <1>2 DEF Next, Restart, OneCaller

LEMMA NoteInvariant == ASSUME OneCaller, Setting PROVE Spec => [](StoreInv /\ NoteInv)
<1>1. Init => StoreInv /\ NoteInv
  BY InitStore, InitNotes DEF Setting
<1>2. StoreInv /\ NoteInv /\ [Next]_vars => (StoreInv /\ NoteInv)'
  BY NextKeepsStore, NextKeepsNotes
<1>. QED
  BY <1>1, <1>2, PTL DEF Spec

(* A fixed problem is silent: with one goroutine that calls the service and *)
(* a Home Assistant that answers, whatever its restarts, the daily limit    *)
(* and the component's sessions did before, nothing shown or queued speaks *)
(* of a problem that is fixed (problem_ha_bridge.go: handleProblemEvent,    *)
(* flushQueue).                                                            *)
THEOREM FixedStaysSilent == ASSUME OneCaller, Setting PROVE Spec => []FixedIsSilent
<1>1. StoreInv /\ NoteInv => FixedIsSilent
  <2>. SUFFICES ASSUME NoteInv, Busy = {}, NEW k \in Keys, rows[k] # {}, \A r \in rows[k] : ~r.open
                PROVE  ~After(k, queue)
    BY DEF FixedIsSilent
  <2>. PICK a \in Actors : OneCaller
    BY DEF OneCaller
  <2>1. pc[a] = "idle" /\ Sends(a) /\ NoteTypes
    BY DEF Busy, NoteInv
  <2>2. queue \in Seq(Action) /\ ToCome(a) = queue
    BY <2>1, ConcatEmptySeq DEF Sends, NoteTypes, ToCome
  <2>3. Silences(shown, queue, k)
    BY <2>1, <2>2 DEF NoteInv, Unrouted, Follows, Busy
  <2>. QED
    BY <2>2, <2>3, AfterSilences
<1>. QED
  BY <1>1, NoteInvariant, PTL
=============================================================================
