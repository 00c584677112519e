---------------------------- MODULE ReportsProofs ----------------------------
(***************************************************************************)
(* What holds of WsSessions for every number of sessions, every buffer     *)
(* size and every number of settings changes; and of DiskStats for any     *)
(* number of requests, of changes and of failures.                         *)
(***************************************************************************)
EXTENDS MCReports, TLAPS

-----------------------------------------------------------------------------
(* Sessions *)

Up == {"loop", "lock", "ping"}  \* HandleWebSocket is in its loop
Uncleared == Up \cup {"close", "clear"}
Unforgotten == Uncleared \cup {"forget"}

ServeType == serve \in [Sessions -> Unforgotten \cup {"idle", "done"}]
ReaderType ==
    reader \in [Sessions -> {"idle", "helo", "mark", "load", "tell", "read", "failed"}]

(* The handler outlives its reader: it leaves its loop only after readErr.  *)
HandlerOutlivesReader ==
    \A s \in Sessions : reader[s] \notin {"idle", "failed"} => serve[s] \in Up

(* Whoever set the component, some handler has still to clear it.           *)
Witnessed ==
    /\ component # None => \E s \in Sessions : serve[s] \in Uncleared
    /\ connected => \E s \in Sessions : serve[s] \in Unforgotten

SessionInv == ServeType /\ ReaderType /\ HandlerOutlivesReader /\ Witnessed

LEMMA SessionInit == Init => SessionInv
  BY DEF Init, SessionInv, ServeType, ReaderType, HandlerOutlivesReader, Witnessed,
         Unforgotten, Uncleared, Up

(* A step of one handler that leaves the readers and the component alone.   *)
LEMMA HandlerStep ==
    ASSUME SessionInv, NEW s \in Sessions, NEW to \in Uncleared,
           serve[s] \in Uncleared,
           serve' = [serve EXCEPT ![s] = to],
           reader[s] \in {"idle", "failed"} \/ to \in Up,
           UNCHANGED <<reader, component, connected>>
    PROVE  SessionInv'
<1> USE DEF SessionInv, ServeType, ReaderType, Unforgotten, Uncleared, Up
<1>1. ServeType' /\ ReaderType'
  OBVIOUS
<1>2. HandlerOutlivesReader'
  BY DEF HandlerOutlivesReader
<1>3. Witnessed'
  <2>1. serve'[s] \in Uncleared
    OBVIOUS
  <2> QED  BY <2>1 DEF Witnessed
<1> QED  BY <1>1, <1>2, <1>3

(* A step of one reader that is not at its end, before or after which the   *)
(* component may have been set.                                             *)
LEMMA ReaderStep ==
    ASSUME SessionInv, NEW s \in Sessions, NEW from, NEW to,
           from \notin {"idle", "failed"},
           to \in {"mark", "load", "tell", "read", "failed"},
           ReaderGoes(s, from, to)
    PROVE  SessionInv'
<1> USE DEF SessionInv, ServeType, ReaderType, Unforgotten, Uncleared, Up, ReaderGoes
<1>1. serve[s] \in Up /\ serve' = serve
  BY DEF HandlerOutlivesReader
<1>2. HandlerOutlivesReader'
  BY <1>1 DEF HandlerOutlivesReader
<1>3. Witnessed'
  BY <1>1 DEF Witnessed
<1> QED  BY <1>1, <1>2, <1>3

LEMMA SessionStep ==
    ASSUME ~WriteMayFail, SessionInv, [Next]_vars
    PROVE  SessionInv'
<1> USE DEF SessionInv, ServeType, ReaderType
<1>u. ASSUME UNCHANGED <<serve, reader, component, connected>>
      PROVE  SessionInv'
  BY <1>u DEF HandlerOutlivesReader, Witnessed
<1>1. ASSUME NEW s \in Sessions, Connect(s)
      PROVE  SessionInv'
  <2> USE DEF Unforgotten, Uncleared, Up
  <2>1. /\ serve' = [serve EXCEPT ![s] = "loop"]
        /\ reader' = [reader EXCEPT ![s] = IF s \in Components THEN "helo" ELSE "read"]
        /\ UNCHANGED <<component, connected>>
    BY <1>1 DEF Connect, componentVars
  <2>2. serve'[s] = "loop" /\ \A t \in Sessions \ {s} : serve'[t] = serve[t]
    BY <2>1
  <2> QED  BY <2>1, <2>2 DEF HandlerOutlivesReader, Witnessed
<1>2. ASSUME NEW s \in Sessions, Serve(s)
      PROVE  SessionInv'
  <2> USE DEF Serve, ServeGoes, peerVars, relayVars, mdnsVars, componentVars
  <2>1. CASE PingTick(s)
    BY <2>1, HandlerStep DEF PingTick, Uncleared, Up
  <2>2. CASE PingLock(s)
    BY <2>2, HandlerStep DEF PingLock, Uncleared, Up
  <2>3. CASE PingWrite(s)
    BY <2>3, HandlerStep DEF PingWrite, Uncleared, Up
  <2>4. CASE SeeReadError(s)
    BY <2>4, HandlerStep DEF SeeReadError, Uncleared, Up
  <2>5. CASE CloseConn(s)
    <3>1. reader[s] \in {"idle", "failed"}
      BY <2>5 DEF CloseConn, HandlerOutlivesReader, Up
    <3> QED  BY <2>5, <3>1, HandlerStep DEF CloseConn, Uncleared, Up
  <2>6. CASE ClearComponent(s)
    <3> USE DEF Unforgotten, Uncleared, Up
    <3>1. /\ serve[s] = "clear" /\ serve' = [serve EXCEPT ![s] = "forget"]
          /\ component' = None /\ UNCHANGED <<reader, connected>>
      BY <2>6 DEF ClearComponent
    <3>2. HandlerOutlivesReader'
      BY <3>1 DEF HandlerOutlivesReader
    <3>3. Witnessed'
      <4>1. serve'[s] \in Unforgotten
        BY <3>1
      <4> QED  BY <3>1, <4>1 DEF Witnessed
    <3> QED  BY <3>1, <3>2, <3>3
  <2>7. CASE Disconnected(s)
    <3> USE DEF Unforgotten, Uncleared, Up
    <3>1. /\ serve[s] = "forget" /\ serve' = [serve EXCEPT ![s] = "done"]
          /\ ~connected' /\ UNCHANGED <<reader, component>>
      BY <2>7 DEF Disconnected
    <3>2. HandlerOutlivesReader'
      BY <3>1 DEF HandlerOutlivesReader
    <3>3. Witnessed'
      <4>1. ASSUME NEW t \in Sessions, serve[t] \in Uncleared
            PROVE  serve'[t] \in Uncleared
        BY <3>1, <4>1
      <4> QED  BY <3>1, <4>1 DEF Witnessed
    <3> QED  BY <3>1, <3>2, <3>3
  <2> QED  BY <1>2, <2>1, <2>2, <2>3, <2>4, <2>5, <2>6, <2>7 DEF Serve
<1>3. ASSUME NEW s \in Sessions, Reader(s)
      PROVE  SessionInv'
  BY <1>3, ReaderStep DEF Reader, ReadFails, HandleHelo, Mark, LoadForHelo, TellForHelo
<1>4. ASSUME NEW s \in Sessions, Pump(s)
      PROVE  SessionInv'
  BY <1>4, <1>u DEF Pump, PumpGoes, Register, TakeMessage, TakeNotification, PumpLock,
     PumpWrite, componentVars
<1>5. ASSUME NEW s \in Sessions, Leave(s) \/ Stick(s)
      PROVE  SessionInv'
  BY <1>5, <1>u DEF Leave, Stick, sessionVars, componentVars
<1>6. ASSUME Chatter \/ ChangeSetting \/ Clean \/ LoadForClean \/ TellForClean
      PROVE  SessionInv'
  BY <1>6, <1>u DEF Chatter, ChangeSetting, Clean, LoadForClean, TellForClean, sessionVars,
     componentVars
<1>7. CASE UNCHANGED vars
  BY <1>7, <1>u DEF vars, sessionVars, componentVars
<1> QED  BY <1>1, <1>2, <1>3, <1>4, <1>5, <1>6, <1>7 DEF Next

(* Unless a ping fails before the reader notices, the last handler to       *)
(* return leaves no component behind, however the sessions of components    *)
(* and browsers overlap.                                                    *)
THEOREM NothingIsLeft ==
    ASSUME ~WriteMayFail
    PROVE  Spec => []NobodyIsRemembered
<1>1. SessionInv => NobodyIsRemembered
  BY DEF SessionInv, ServeType, Witnessed, NobodyIsRemembered, Serving, Unforgotten, Uncleared, Up
<1>2. SessionInv /\ [Next]_vars => SessionInv'
  BY SessionStep
<1> QED  BY <1>1, <1>2, SessionInit, PTL DEF Spec

-----------------------------------------------------------------------------
(* Readings: none is older than a round of ticks.                          *)

(* What the proof needs of the types.                                      *)
Clock == ticks \in 0 .. D!Period - 1 /\ age \in Nat /\ last.age \in Nat

(* The ticks of the round that ends with the last one.                     *)
Round == IF ticks = 0 THEN D!Period ELSE ticks

(* A reading is of this round, and so is one that an update may take over: *)
(* its age counts the tick that the update has begun with.                 *)
OfThisRound ==
    /\ data # None => age < Round
    /\ (pc # "wait" /\ ~last.heavy /\ last.data # None) => last.age < Round

ReadingsInv == Clock /\ OfThisRound

-----------------------------------------------------------------------------
(* The counter goes round.                                                 *)
LEMMA NextTick ==
    ASSUME NEW t \in 0 .. D!Period - 1
    PROVE  /\ (t + 1) % D!Period \in 0 .. D!Period - 1
           /\ (t + 1) % D!Period = IF t = D!Period - 1 THEN 0 ELSE t + 1
BY DEF D!Period

(* A tick ends the round of the readings that it takes away, and those it  *)
(* leaves for a light update belong to the round that goes on.             *)
LEMMA TickKeeps ==
    ASSUME ReadingsInv, D!Tick \/ D!TickFails
    PROVE  ReadingsInv'
<1> DEFINE t == (ticks + 1) % D!Period
<1>1. t \in 0 .. D!Period - 1 /\ t = IF ticks = D!Period - 1 THEN 0 ELSE ticks + 1
  BY NextTick DEF ReadingsInv, Clock
<1>2. CASE D!Tick
  <2>1. ticks' = t /\ age' = 0 /\ data' = None
    BY <1>2 DEF D!Tick
  <2>2. last'.age = D!Older(age) /\ last'.data = data /\ last'.heavy = (ticks = 0)
    BY <1>2 DEF D!Tick
  <2>3. D!Older(age) \in Nat /\ D!Older(age) <= age + 1
    BY DEF ReadingsInv, Clock, D!Older, D!Period
  <2>4. Clock'
    BY <1>1, <2>1, <2>2, <2>3 DEF Clock
  <2>5. (~last'.heavy /\ last'.data # None) => last'.age < Round'
    <3>1. SUFFICES ASSUME ticks # 0, data # None PROVE D!Older(age) < Round'
      BY <2>2
    <3>2. age < ticks
      BY <3>1 DEF ReadingsInv, OfThisRound, Round
    <3>. QED
      BY <1>1, <2>1, <2>3, <3>1, <3>2 DEF ReadingsInv, Clock, Round, D!Period
  <2>. QED
    BY <2>1, <2>4, <2>5 DEF ReadingsInv, OfThisRound
<1>3. CASE D!TickFails
  <2>1. ticks' = t /\ age' = 0 /\ data' = None /\ pc' = "wait" /\ last' = last
    BY <1>3 DEF D!TickFails
  <2>. QED
    BY <1>1, <2>1 DEF ReadingsInv, Clock, OfThisRound
<1>. QED
  BY <1>2, <1>3

(* Within an update, readings are taken over as they are or made anew.     *)
LEMMA UpdateKeeps ==
    ASSUME ReadingsInv, ~D!Tick, D!UpdateDiskStats
    PROVE  ReadingsInv'
<1>1. ticks' = ticks /\ last' = last /\ pc # "wait"
  BY DEF D!UpdateDiskStats, D!ReuseData, D!AskForData, D!Remember, D!ReadStatus, D!ReuseInfo,
     D!AskForInfo, D!ReadInfo
<1>2. \/ data' = data /\ age' = age
      \/ data' = last.data /\ age' = last.age /\ ~last.heavy /\ last.data # None
      \/ age' = 0
  BY DEF D!UpdateDiskStats, D!ReuseData, D!AskForData, D!Remember, D!ReadStatus, D!ReuseInfo,
     D!AskForInfo, D!ReadInfo
<1>3. Round' = Round /\ Round \in Nat /\ Round > 0
  BY <1>1 DEF ReadingsInv, Clock, Round, D!Period
<1>. QED
  BY <1>1, <1>2, <1>3 DEF ReadingsInv, Clock, OfThisRound

(* Requests, the setting and the cache's half hour leave the readings be.  *)
LEMMA OthersKeep ==
    ASSUME ReadingsInv, UNCHANGED D!runVars
    PROVE  ReadingsInv'
BY DEF ReadingsInv, Clock, OfThisRound, Round, D!runVars

LEMMA ReadingsInvariance == D!Spec => []ReadingsInv
<1>1. D!Init => ReadingsInv
  BY DEF D!Init, D!NoReadings, ReadingsInv, Clock, OfThisRound, Round, D!Period
<1>2. ASSUME ReadingsInv, [D!Next]_(D!vars) PROVE ReadingsInv'
  <2>1. CASE D!UpdateDiskStats
    BY <1>2, <2>1, TickKeeps, UpdateKeeps
  <2>2. CASE D!TickFails
    BY <1>2, <2>2, TickKeeps
  <2>3. CASE D!Expire
    BY <1>2, <2>3, OthersKeep DEF D!Expire
  <2>4. CASE \E c \in Callers : D!Check(c) \/ D!Switch(c) \/ D!OnSmart(c) \/ D!ReadBackFails(c)
    BY <1>2, <2>4, OthersKeep DEF D!Check, D!Switch, D!OnSmart, D!ReadBackFails
  <2>5. CASE D!PutSetting \/ D!OnSetting
    BY <1>2, <2>5, OthersKeep DEF D!PutSetting, D!OnSetting
  <2>6. CASE UNCHANGED D!vars
    BY <1>2, <2>6, OthersKeep DEF D!vars, D!runVars
  <2>. QED
    BY <1>2, <2>1, <2>2, <2>3, <2>4, <2>5, <2>6 DEF D!Next
<1>. QED
  BY <1>1, <1>2, PTL DEF D!Spec

(* What the readings say of S.M.A.R.T. was read within the last six ticks, *)
(* whatever ticks failed and however often S.M.A.R.T. was switched.        *)
THEOREM Fresh == D!Spec => []ReadingsAreFresh
<1>1. ReadingsInv => ReadingsAreFresh
  BY DEF ReadingsInv, Clock, OfThisRound, Round, D!Period, ReadingsAreFresh, D!ReadingsAreFresh
<1>. QED
  BY <1>1, ReadingsInvariance, PTL
=============================================================================
