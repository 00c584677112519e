----------------------------- MODULE JobsProofs -----------------------------
(***************************************************************************)
(* What holds of FilesystemTasks for every set of devices, tasks, aborts   *)
(* and readers and every length of output; and of the updates of the       *)
(* server, Upgrade, for every set of files, jobs and dynamic linkers, and  *)
(* any number of releases, failures and restarts.                          *)
(***************************************************************************)
EXTENDS MCJobs, TLAPS

(* A task that has registered its device and not released it.              *)
Registered(t) == stage[t] \notin {"idle", "done"} /\ kind[t] # "label"

(* The registration and the tasks agree, in both directions.               *)
Registration ==
    /\ \A t \in Tasks : Registered(t) => active[device[t]] = t
    /\ \A d \in Devices : active[d] # None => device[active[d]] = d /\ Registered(active[d])

(* What a task has got at each stage.                                      *)
Stage ==
    \A t \in Tasks :
        /\ stage[t] = "idle" => kind[t] = None /\ device[t] = None
        /\ stage[t] # "idle" => kind[t] \in Kinds /\ device[t] \in Devices
        /\ stage[t] \in {"idle", "announce", "launch"} => tool[t] = None /\ outcome[t] = None
        /\ kind[t] = "label" => outcome[t] = None /\ stage[t] \in {"run", "flush", "done"}
        /\ queued[t] # {} => stage[t] = "run" /\ kind[t] # "label"

(* A tool goes on beyond its task only when the task was cancelled.        *)
Outlives ==
    \A t \in Tasks :
        /\ outcome[t] \in Codes => tool[t] # "running"
        /\ outcome[t] = "canceled" => t \in cancelled
        /\ Works(t) => stage[t] = "run" \/ t \in cancelled

(* Only checks are aimed at and cancelled.                                 *)
Aborts ==
    /\ \A t \in cancelled : kind[t] = "check"
    /\ \A a \in Aborters : aim[a] # None => kind[aim[a]] = "check"

(* The last word, also before the device is released.                      *)
LastWord ==
    /\ LastWordIsFinal
    /\ \A t \in Tasks : stage[t] = "finish" => told[device[t]].status \in Ends

Inv == TypeOK /\ Registration /\ Stage /\ Outlives /\ Aborts /\ LastWord

(* The poller passes on lines that the tool has written: size counts the    *)
(* lines of the snapshot and the index never exceeds it.                    *)
LEMMA FreshLines ==
    ASSUME NEW w \in 0 .. MaxLines, NEW p \in 0 .. BufferSize
    PROVE  LET size == Least(w, BufferSize)
           IN  /\ size \in 0 .. BufferSize
               /\ {w - size + i : i \in p + 1 .. size} \subseteq 1 .. MaxLines
  BY InstanceAssumption DEF Least

(* NewFilesystemService starts with nothing registered.                     *)
LEMMA InvInit == Init => Inv
  BY InstanceAssumption DEF Init, Inv, TypeOK, Registration, Registered, Stage, Outlives, Works, Aborts,
     LastWord, LastWordIsFinal, Stages, Results, Codes, Ends

(* EmitFilesystemTask replaces what was said of one device.                 *)
LEMMA TellStep ==
    ASSUME TypeOK, NEW t \in Tasks, device[t] \in Devices, NEW s \in Statuses, Tell(t, s)
    PROVE  /\ told' \in [Devices -> [task : Tasks, status : Statuses] \cup {None}]
           /\ told'[device[t]] = [task |-> t, status |-> s]
           /\ \A d \in Devices : d # device[t] => told'[d] = told[d]
  BY DEF TypeOK, Tell

(* The types, one step of the proof for each action.                        *)
LEMMA TypeStep == TypeOK /\ Stage /\ [Next]_vars => TypeOK'
<1> SUFFICES ASSUME TypeOK, Stage, [Next]_vars
             PROVE  TypeOK'
  OBVIOUS
<1> USE InstanceAssumption DEF TypeOK, Stages
<1>1. ASSUME NEW t \in Tasks, NEW d \in Devices, NEW k \in Kinds, StartOperation(t, d, k)
      PROVE  TypeOK'
  BY <1>1 DEF StartOperation, Begin, Enter, toolVars
<1>2. ASSUME NEW t \in Tasks, NEW d \in Devices, StartLabel(t, d)
      PROVE  TypeOK'
  BY <1>2 DEF StartLabel, Begin, Enter
<1>3. ASSUME NEW t \in Tasks, Announce(t)
      PROVE  TypeOK'
  <2>1. device[t] \in Devices /\ Tell(t, "start") /\ "start" \in Statuses
    BY <1>3 DEF Announce, Enter, Stage, Statuses
  <2> QED
    BY <1>3, <2>1, TellStep DEF Announce, Enter, toolVars
<1>4. ASSUME NEW t \in Tasks, Launch(t)
      PROVE  TypeOK'
  <2>1. device[t] \in Devices /\ Tell(t, "running") /\ "running" \in Statuses
    BY <1>4 DEF Launch, Enter, Stage, Statuses
  <2>2. told' \in [Devices -> [task : Tasks, status : Statuses] \cup {None}]
    BY <2>1, TellStep
  <2>3. /\ tool' \in [Tasks -> Codes \cup {None, "running"}]
        /\ outcome' \in [Tasks -> Results \cup {None}]
    BY <1>4 DEF Launch, Results, Codes
  <2>4. /\ stage' \in [Tasks -> Stages]
        /\ UNCHANGED <<active, kind, device, written, polled, queued, seen, cancelled, version, cached, aim, query>>
    BY <1>4 DEF Launch, Enter
  <2> QED
    BY <2>2, <2>3, <2>4
<1>5. ASSUME NEW t \in Tasks, Poll(t)
      PROVE  TypeOK'
  <2> DEFINE size == Least(written[t], BufferSize)
             fresh == {written[t] - size + i : i \in polled[t] + 1 .. size}
  <2>1. size \in 0 .. BufferSize /\ fresh \subseteq 1 .. MaxLines
    <3>1. written[t] \in 0 .. MaxLines /\ polled[t] \in 0 .. BufferSize
      OBVIOUS
    <3> QED
      BY <3>1, FreshLines
  <2>2. /\ queued' = [queued EXCEPT ![t] = @ \cup fresh]
        /\ polled' = [polled EXCEPT ![t] = size]
    BY <1>5 DEF Poll
  <2>3. outcome' \in [Tasks -> Results \cup {None}]
    BY <1>5 DEF Poll, Results
  <2> HIDE DEF size, fresh
  <2> QED
    BY <1>5, <2>1, <2>2, <2>3 DEF Poll
<1>6. ASSUME NEW t \in Tasks, GiveUp(t)
      PROVE  TypeOK'
  BY <1>6 DEF GiveUp, Results
<1>7. ASSUME NEW t \in Tasks, Report(t)
      PROVE  TypeOK'
  <2>1. device[t] \in Devices /\ Tell(t, "running") /\ "running" \in Statuses
    BY <1>7 DEF Report, Stage, Statuses
  <2>2. told' \in [Devices -> [task : Tasks, status : Statuses] \cup {None}]
    BY <2>1, TellStep
  <2>3. /\ queued' \in [Tasks -> SUBSET (1 .. MaxLines)]
        /\ seen' \in [Tasks -> SUBSET (1 .. MaxLines)]
    BY <1>7 DEF Report
  <2> QED
    BY <1>7, <2>2, <2>3 DEF Report
<1>8. ASSUME NEW t \in Tasks, AdapterEnds(t)
      PROVE  TypeOK'
  <2>1. PICK s \in Statuses : device[t] \in Devices /\ Tell(t, s)
    BY <1>8 DEF AdapterEnds, Enter, Stage, Statuses
  <2>2. told' \in [Devices -> [task : Tasks, status : Statuses] \cup {None}]
    BY <2>1, TellStep
  <2>3. stage' \in [Tasks -> Stages]
    BY <1>8 DEF AdapterEnds, Enter
  <2> QED
    BY <1>8, <2>2, <2>3 DEF AdapterEnds, toolVars
<1>9. ASSUME NEW t \in Tasks, LabelEnds(t)
      PROVE  TypeOK'
  BY <1>9 DEF LabelEnds, Enter, toolVars
<1>18. ASSUME NEW t \in Tasks, Flush(t)
       PROVE  TypeOK'
  <2>1. stage' \in [Tasks -> Stages]
    BY <1>18 DEF Flush, Enter
  <2>2. cached' \in [Devices -> Nat \cup {None}]
    BY <1>18 DEF Flush
  <2> QED
    BY <1>18, <2>1, <2>2 DEF Flush, toolVars
<1>10. ASSUME NEW t \in Tasks, FinalEvent(t)
       PROVE  TypeOK'
  <2>1. PICK s \in Statuses : device[t] \in Devices /\ Tell(t, s)
    BY <1>10 DEF FinalEvent, Enter, Stage, Statuses
  <2>2. told' \in [Devices -> [task : Tasks, status : Statuses] \cup {None}]
    BY <2>1, TellStep
  <2>3. stage' \in [Tasks -> Stages]
    BY <1>10 DEF FinalEvent, Enter
  <2> QED
    BY <1>10, <2>2, <2>3 DEF FinalEvent, toolVars
<1>11. ASSUME NEW t \in Tasks, FinishOperation(t)
       PROVE  TypeOK'
  BY <1>11 DEF FinishOperation, Enter, toolVars
<1>12. ASSUME NEW t \in Tasks, Writes(t)
       PROVE  TypeOK'
  BY <1>12 DEF Writes
<1>13. ASSUME NEW t \in Tasks, NEW c \in Codes, Exits(t, c)
       PROVE  TypeOK'
  <2>1. tool' \in [Tasks -> Codes \cup {None, "running"}]
    BY <1>13 DEF Exits
  <2>2. version' \in [Devices -> Nat]
    <3>1. version \in [Devices -> Nat] /\ version' = [version EXCEPT ![device[t]] = @ + 1]
      BY <1>13 DEF Exits
    <3>2. device[t] \in Devices
      BY <1>13 DEF Exits, Stage
    <3>3. version[device[t]] + 1 \in Nat
      BY <3>1, <3>2
    <3> QED
      BY <3>1, <3>2, <3>3, Zenon
  <2> QED
    BY <1>13, <2>1, <2>2 DEF Exits
<1>14. ASSUME NEW a \in Aborters, AbortCancels(a) \/ \E d \in Devices : AbortLooks(a, d)
       PROVE  TypeOK'
  BY <1>14 DEF AbortCancels, AbortLooks, taskVars, toolVars
<1>15. ASSUME NEW r \in Readers, Cache(r)
       PROVE  TypeOK'
  BY <1>15 DEF Cache, taskVars, toolVars
<1>16. ASSUME NEW r \in Readers, NEW d \in Devices, Query(r, d)
       PROVE  TypeOK'
  BY <1>16 DEF Query, taskVars, toolVars
<1>17. CASE UNCHANGED vars
  BY <1>17 DEF vars, taskVars, toolVars
<1>19. ASSUME NEW t \in Tasks, Step(t)
       PROVE  TypeOK'
  BY <1>19, <1>3, <1>4, <1>5, <1>6, <1>7, <1>8, <1>9, <1>10, <1>11, <1>18 DEF Step
<1> QED
  <2> HIDE DEF TypeOK
  <2>1. ASSUME NEW t \in Tasks, NEW d \in Devices,
               StartLabel(t, d) \/ \E k \in Kinds \ {"label"} : StartOperation(t, d, k)
        PROVE  TypeOK'
    BY <2>1, <1>1, <1>2
  <2>2. ASSUME NEW t \in Tasks, Step(t) \/ Writes(t) \/ \E c \in Codes : Exits(t, c)
        PROVE  TypeOK'
    BY <2>2, <1>12, <1>13, <1>19
  <2>3. ASSUME NEW r \in Readers, Cache(r) \/ \E d \in Devices : Query(r, d)
        PROVE  TypeOK'
    BY <2>3, <1>15, <1>16
  <2> QED
    BY <2>1, <2>2, <2>3, <1>14, <1>17 DEF Next

(* What a goroutine has got does not depend on what the others do.          *)
LEMMA StageStep == TypeOK /\ Stage /\ [Next]_vars => Stage'
<1> SUFFICES ASSUME TypeOK, Stage, [Next]_vars
             PROVE  Stage'
  OBVIOUS
<1> USE InstanceAssumption DEF TypeOK, Stages, Stage
<1>1. ASSUME NEW t \in Tasks, NEW d \in Devices, NEW k \in Kinds \ {"label"}, StartOperation(t, d, k)
      PROVE  Stage'
  BY <1>1 DEF StartOperation, Begin, Enter, toolVars
<1>2. ASSUME NEW t \in Tasks, NEW d \in Devices, StartLabel(t, d)
      PROVE  Stage'
  BY <1>2 DEF StartLabel, Begin, Enter
<1>3. ASSUME NEW t \in Tasks, Announce(t)
      PROVE  Stage'
  BY <1>3 DEF Announce, Enter, toolVars
<1>4. ASSUME NEW t \in Tasks, Launch(t)
      PROVE  Stage'
  BY <1>4 DEF Launch, Enter
<1>5. ASSUME NEW t \in Tasks, Poll(t)
      PROVE  Stage'
  BY <1>5 DEF Poll, Waiting
<1>6. ASSUME NEW t \in Tasks, GiveUp(t)
      PROVE  Stage'
  BY <1>6 DEF GiveUp, Waiting
<1>7. ASSUME NEW t \in Tasks, Report(t)
      PROVE  Stage'
  BY <1>7 DEF Report
<1>8. ASSUME NEW t \in Tasks, AdapterEnds(t)
      PROVE  Stage'
  BY <1>8 DEF AdapterEnds, Enter, toolVars
<1>9. ASSUME NEW t \in Tasks, LabelEnds(t)
      PROVE  Stage'
  BY <1>9 DEF LabelEnds, Enter, toolVars
<1>10. ASSUME NEW t \in Tasks, Flush(t)
       PROVE  Stage'
  BY <1>10 DEF Flush, Enter, toolVars
<1>11. ASSUME NEW t \in Tasks, FinalEvent(t)
       PROVE  Stage'
  BY <1>11 DEF FinalEvent, Enter, toolVars
<1>12. ASSUME NEW t \in Tasks, FinishOperation(t)
       PROVE  Stage'
  BY <1>12 DEF FinishOperation, Enter, toolVars
<1>13. ASSUME NEW t \in Tasks, Writes(t)
       PROVE  Stage'
  BY <1>13 DEF Writes
<1>14. ASSUME NEW t \in Tasks, NEW c \in Codes, Exits(t, c)
       PROVE  Stage'
  BY <1>14 DEF Exits
<1>15. ASSUME NEW a \in Aborters, AbortCancels(a)
       PROVE  Stage'
  BY <1>15 DEF AbortCancels, taskVars, toolVars
<1>16. ASSUME NEW a \in Aborters, NEW d \in Devices, AbortLooks(a, d)
       PROVE  Stage'
  BY <1>16 DEF AbortLooks, taskVars, toolVars
<1>17. ASSUME NEW r \in Readers, Cache(r)
       PROVE  Stage'
  BY <1>17 DEF Cache, taskVars, toolVars
<1>18. ASSUME NEW r \in Readers, NEW d \in Devices, Query(r, d)
       PROVE  Stage'
  BY <1>18 DEF Query, taskVars, toolVars
<1>19. CASE UNCHANGED vars
  BY <1>19 DEF vars, taskVars, toolVars
<1> HIDE DEF Stage
<1> QED
  <2>1. ASSUME NEW t \in Tasks, NEW d \in Devices,
               StartLabel(t, d) \/ \E k \in Kinds \ {"label"} : StartOperation(t, d, k)
        PROVE  Stage'
    BY <2>1, <1>1, <1>2
  <2>2. ASSUME NEW t \in Tasks, Step(t)
        PROVE  Stage'
    BY <2>2, <1>3, <1>4, <1>5, <1>6, <1>7, <1>8, <1>9, <1>10, <1>11, <1>12 DEF Step
  <2>3. ASSUME NEW t \in Tasks, Writes(t) \/ \E c \in Codes : Exits(t, c)
        PROVE  Stage'
    BY <2>3, <1>13, <1>14
  <2>4. ASSUME NEW a \in Aborters, AbortCancels(a) \/ \E d \in Devices : AbortLooks(a, d)
        PROVE  Stage'
    BY <2>4, <1>15, <1>16
  <2>5. ASSUME NEW r \in Readers, Cache(r) \/ \E d \in Devices : Query(r, d)
        PROVE  Stage'
    BY <2>5, <1>17, <1>18
  <2> QED
    BY <2>1, <2>2, <2>3, <2>4, <2>5, <1>19 DEF Next

(* Only startOperation and finishOperation register and release, each its   *)
(* own device.                                                              *)
LEMMA RegistrationStep == TypeOK /\ Stage /\ Registration /\ [Next]_vars => Registration'
<1> SUFFICES ASSUME TypeOK, Stage, Registration, [Next]_vars
             PROVE  Registration'
  OBVIOUS
<1> USE InstanceAssumption DEF TypeOK, Stages, Stage, Registration, Registered
<1>1. ASSUME NEW t \in Tasks, NEW d \in Devices, NEW k \in Kinds \ {"label"}, StartOperation(t, d, k)
      PROVE  Registration'
  BY <1>1 DEF StartOperation, Begin, Enter, toolVars
<1>2. ASSUME NEW t \in Tasks, NEW d \in Devices, StartLabel(t, d)
      PROVE  Registration'
  BY <1>2 DEF StartLabel, Begin, Enter
<1>3. ASSUME NEW t \in Tasks, Announce(t)
      PROVE  Registration'
  BY <1>3 DEF Announce, Enter, toolVars
<1>4. ASSUME NEW t \in Tasks, Launch(t)
      PROVE  Registration'
  BY <1>4 DEF Launch, Enter
<1>5. ASSUME NEW t \in Tasks, Poll(t)
      PROVE  Registration'
  BY <1>5 DEF Poll, Waiting
<1>6. ASSUME NEW t \in Tasks, GiveUp(t)
      PROVE  Registration'
  BY <1>6 DEF GiveUp, Waiting
<1>7. ASSUME NEW t \in Tasks, Report(t)
      PROVE  Registration'
  BY <1>7 DEF Report
<1>8. ASSUME NEW t \in Tasks, AdapterEnds(t)
      PROVE  Registration'
  BY <1>8 DEF AdapterEnds, Enter, toolVars
<1>9. ASSUME NEW t \in Tasks, LabelEnds(t)
      PROVE  Registration'
  BY <1>9 DEF LabelEnds, Enter, toolVars
<1>10. ASSUME NEW t \in Tasks, Flush(t)
       PROVE  Registration'
  BY <1>10 DEF Flush, Enter, toolVars
<1>11. ASSUME NEW t \in Tasks, FinalEvent(t)
       PROVE  Registration'
  BY <1>11 DEF FinalEvent, Enter, toolVars
<1>12. ASSUME NEW t \in Tasks, FinishOperation(t)
       PROVE  Registration'
  BY <1>12 DEF FinishOperation, Enter, toolVars
<1>13. ASSUME NEW t \in Tasks, Writes(t)
       PROVE  Registration'
  BY <1>13 DEF Writes
<1>14. ASSUME NEW t \in Tasks, NEW c \in Codes, Exits(t, c)
       PROVE  Registration'
  BY <1>14 DEF Exits
<1>15. ASSUME NEW a \in Aborters, AbortCancels(a)
       PROVE  Registration'
  BY <1>15 DEF AbortCancels, taskVars, toolVars
<1>16. ASSUME NEW a \in Aborters, NEW d \in Devices, AbortLooks(a, d)
       PROVE  Registration'
  BY <1>16 DEF AbortLooks, taskVars, toolVars
<1>17. ASSUME NEW r \in Readers, Cache(r)
       PROVE  Registration'
  BY <1>17 DEF Cache, taskVars, toolVars
<1>18. ASSUME NEW r \in Readers, NEW d \in Devices, Query(r, d)
       PROVE  Registration'
  BY <1>18 DEF Query, taskVars, toolVars
<1>19. CASE UNCHANGED vars
  BY <1>19 DEF vars, taskVars, toolVars
<1> HIDE DEF Registration
<1> QED
  <2>1. ASSUME NEW t \in Tasks, NEW d \in Devices,
               StartLabel(t, d) \/ \E k \in Kinds \ {"label"} : StartOperation(t, d, k)
        PROVE  Registration'
    BY <2>1, <1>1, <1>2
  <2>2. ASSUME NEW t \in Tasks, Step(t)
        PROVE  Registration'
    BY <2>2, <1>3, <1>4, <1>5, <1>6, <1>7, <1>8, <1>9, <1>10, <1>11, <1>12 DEF Step
  <2>3. ASSUME NEW t \in Tasks, Writes(t) \/ \E c \in Codes : Exits(t, c)
        PROVE  Registration'
    BY <2>3, <1>13, <1>14
  <2>4. ASSUME NEW a \in Aborters, AbortCancels(a) \/ \E d \in Devices : AbortLooks(a, d)
        PROVE  Registration'
    BY <2>4, <1>15, <1>16
  <2>5. ASSUME NEW r \in Readers, Cache(r) \/ \E d \in Devices : Query(r, d)
        PROVE  Registration'
    BY <2>5, <1>17, <1>18
  <2> QED
    BY <2>1, <2>2, <2>3, <2>4, <2>5, <1>19 DEF Next

(* The polling goroutine sends a result when the tool has ended or when     *)
(* the context is cancelled, and the adapter waits for that result.         *)
LEMMA OutlivesStep == TypeOK /\ Stage /\ Outlives /\ [Next]_vars => Outlives'
<1> SUFFICES ASSUME TypeOK, Stage, Outlives, [Next]_vars
             PROVE  Outlives'
  OBVIOUS
<1> USE InstanceAssumption DEF TypeOK, Stages, Stage, Outlives, Works, Codes
<1>1. ASSUME NEW t \in Tasks, NEW d \in Devices, NEW k \in Kinds \ {"label"}, StartOperation(t, d, k)
      PROVE  Outlives'
  BY <1>1 DEF StartOperation, Begin, Enter, toolVars
<1>2. ASSUME NEW t \in Tasks, NEW d \in Devices, StartLabel(t, d)
      PROVE  Outlives'
  BY <1>2 DEF StartLabel, Begin, Enter
<1>3. ASSUME NEW t \in Tasks, Announce(t)
      PROVE  Outlives'
  BY <1>3 DEF Announce, Enter, toolVars
<1>4. ASSUME NEW t \in Tasks, Launch(t)
      PROVE  Outlives'
  BY <1>4 DEF Launch, Enter
<1>5. ASSUME NEW t \in Tasks, Poll(t)
      PROVE  Outlives'
  BY <1>5 DEF Poll, Waiting
<1>6. ASSUME NEW t \in Tasks, GiveUp(t)
      PROVE  Outlives'
  BY <1>6 DEF GiveUp, Waiting
<1>7. ASSUME NEW t \in Tasks, Report(t)
      PROVE  Outlives'
  BY <1>7 DEF Report
<1>8. ASSUME NEW t \in Tasks, AdapterEnds(t)
      PROVE  Outlives'
  <2>1. stage' = [stage EXCEPT ![t] = "flush"] /\ stage[t] = "run" /\ outcome[t] # None
    BY <1>8 DEF AdapterEnds, Enter
  <2>2. UNCHANGED <<tool, outcome, kind, cancelled>>
    BY <1>8 DEF AdapterEnds, toolVars
  <2>3. outcome[t] \in Codes \/ outcome[t] = "canceled"
    BY <2>1 DEF Results
  <2>4. tool[t] = "running" => t \in cancelled
    BY <2>3
  <2> QED
    BY <2>1, <2>2, <2>4
<1>9. ASSUME NEW t \in Tasks, LabelEnds(t)
      PROVE  Outlives'
  BY <1>9 DEF LabelEnds, Enter, toolVars
<1>10. ASSUME NEW t \in Tasks, Flush(t)
       PROVE  Outlives'
  BY <1>10 DEF Flush, Enter, toolVars
<1>11. ASSUME NEW t \in Tasks, FinalEvent(t)
       PROVE  Outlives'
  BY <1>11 DEF FinalEvent, Enter, toolVars
<1>12. ASSUME NEW t \in Tasks, FinishOperation(t)
       PROVE  Outlives'
  BY <1>12 DEF FinishOperation, Enter, toolVars
<1>13. ASSUME NEW t \in Tasks, Writes(t)
       PROVE  Outlives'
  BY <1>13 DEF Writes
<1>14. ASSUME NEW t \in Tasks, NEW c \in Codes, Exits(t, c)
       PROVE  Outlives'
  BY <1>14 DEF Exits
<1>15. ASSUME NEW a \in Aborters, AbortCancels(a)
       PROVE  Outlives'
  BY <1>15 DEF AbortCancels, taskVars, toolVars
<1>16. ASSUME NEW a \in Aborters, NEW d \in Devices, AbortLooks(a, d)
       PROVE  Outlives'
  BY <1>16 DEF AbortLooks, taskVars, toolVars
<1>17. ASSUME NEW r \in Readers, Cache(r)
       PROVE  Outlives'
  BY <1>17 DEF Cache, taskVars, toolVars
<1>18. ASSUME NEW r \in Readers, NEW d \in Devices, Query(r, d)
       PROVE  Outlives'
  BY <1>18 DEF Query, taskVars, toolVars
<1>19. CASE UNCHANGED vars
  BY <1>19 DEF vars, taskVars, toolVars
<1> HIDE DEF Outlives
<1> QED
  <2>1. ASSUME NEW t \in Tasks, NEW d \in Devices,
               StartLabel(t, d) \/ \E k \in Kinds \ {"label"} : StartOperation(t, d, k)
        PROVE  Outlives'
    BY <2>1, <1>1, <1>2
  <2>2. ASSUME NEW t \in Tasks, Step(t)
        PROVE  Outlives'
    BY <2>2, <1>3, <1>4, <1>5, <1>6, <1>7, <1>8, <1>9, <1>10, <1>11, <1>12 DEF Step
  <2>3. ASSUME NEW t \in Tasks, Writes(t) \/ \E c \in Codes : Exits(t, c)
        PROVE  Outlives'
    BY <2>3, <1>13, <1>14
  <2>4. ASSUME NEW a \in Aborters, AbortCancels(a) \/ \E d \in Devices : AbortLooks(a, d)
        PROVE  Outlives'
    BY <2>4, <1>15, <1>16
  <2>5. ASSUME NEW r \in Readers, Cache(r) \/ \E d \in Devices : Query(r, d)
        PROVE  Outlives'
    BY <2>5, <1>17, <1>18
  <2> QED
    BY <2>1, <2>2, <2>3, <2>4, <2>5, <1>19 DEF Next

(* AbortCheckPartition refuses what is not a check, and a task never        *)
(* changes its kind.                                                        *)
LEMMA AbortsStep == TypeOK /\ Stage /\ Aborts /\ [Next]_vars => Aborts'
<1> SUFFICES ASSUME TypeOK, Stage, Aborts, [Next]_vars
             PROVE  Aborts'
  OBVIOUS
<1> USE InstanceAssumption DEF TypeOK, Stages, Stage, Aborts
<1>1. ASSUME NEW t \in Tasks, NEW d \in Devices, NEW k \in Kinds \ {"label"}, StartOperation(t, d, k)
      PROVE  Aborts'
  BY <1>1 DEF StartOperation, Begin, Enter, toolVars
<1>2. ASSUME NEW t \in Tasks, NEW d \in Devices, StartLabel(t, d)
      PROVE  Aborts'
  BY <1>2 DEF StartLabel, Begin, Enter
<1>3. ASSUME NEW t \in Tasks, Announce(t)
      PROVE  Aborts'
  BY <1>3 DEF Announce, Enter, toolVars
<1>4. ASSUME NEW t \in Tasks, Launch(t)
      PROVE  Aborts'
  BY <1>4 DEF Launch, Enter
<1>5. ASSUME NEW t \in Tasks, Poll(t)
      PROVE  Aborts'
  BY <1>5 DEF Poll, Waiting
<1>6. ASSUME NEW t \in Tasks, GiveUp(t)
      PROVE  Aborts'
  BY <1>6 DEF GiveUp, Waiting
<1>7. ASSUME NEW t \in Tasks, Report(t)
      PROVE  Aborts'
  BY <1>7 DEF Report
<1>8. ASSUME NEW t \in Tasks, AdapterEnds(t)
      PROVE  Aborts'
  BY <1>8 DEF AdapterEnds, Enter, toolVars
<1>9. ASSUME NEW t \in Tasks, LabelEnds(t)
      PROVE  Aborts'
  BY <1>9 DEF LabelEnds, Enter, toolVars
<1>10. ASSUME NEW t \in Tasks, Flush(t)
       PROVE  Aborts'
  BY <1>10 DEF Flush, Enter, toolVars
<1>11. ASSUME NEW t \in Tasks, FinalEvent(t)
       PROVE  Aborts'
  BY <1>11 DEF FinalEvent, Enter, toolVars
<1>12. ASSUME NEW t \in Tasks, FinishOperation(t)
       PROVE  Aborts'
  BY <1>12 DEF FinishOperation, Enter, toolVars
<1>13. ASSUME NEW t \in Tasks, Writes(t)
       PROVE  Aborts'
  BY <1>13 DEF Writes
<1>14. ASSUME NEW t \in Tasks, NEW c \in Codes, Exits(t, c)
       PROVE  Aborts'
  BY <1>14 DEF Exits
<1>15. ASSUME NEW a \in Aborters, AbortCancels(a)
       PROVE  Aborts'
  BY <1>15 DEF AbortCancels, taskVars, toolVars
<1>16. ASSUME NEW a \in Aborters, NEW d \in Devices, AbortLooks(a, d)
       PROVE  Aborts'
  BY <1>16 DEF AbortLooks, taskVars, toolVars
<1>17. ASSUME NEW r \in Readers, Cache(r)
       PROVE  Aborts'
  BY <1>17 DEF Cache, taskVars, toolVars
<1>18. ASSUME NEW r \in Readers, NEW d \in Devices, Query(r, d)
       PROVE  Aborts'
  BY <1>18 DEF Query, taskVars, toolVars
<1>19. CASE UNCHANGED vars
  BY <1>19 DEF vars, taskVars, toolVars
<1> HIDE DEF Aborts
<1> QED
  <2>1. ASSUME NEW t \in Tasks, NEW d \in Devices,
               StartLabel(t, d) \/ \E k \in Kinds \ {"label"} : StartOperation(t, d, k)
        PROVE  Aborts'
    BY <2>1, <1>1, <1>2
  <2>2. ASSUME NEW t \in Tasks, Step(t)
        PROVE  Aborts'
    BY <2>2, <1>3, <1>4, <1>5, <1>6, <1>7, <1>8, <1>9, <1>10, <1>11, <1>12 DEF Step
  <2>3. ASSUME NEW t \in Tasks, Writes(t) \/ \E c \in Codes : Exits(t, c)
        PROVE  Aborts'
    BY <2>3, <1>13, <1>14
  <2>4. ASSUME NEW a \in Aborters, AbortCancels(a) \/ \E d \in Devices : AbortLooks(a, d)
        PROVE  Aborts'
    BY <2>4, <1>15, <1>16
  <2>5. ASSUME NEW r \in Readers, Cache(r) \/ \E d \in Devices : Query(r, d)
        PROVE  Aborts'
    BY <2>5, <1>17, <1>18
  <2> QED
    BY <2>1, <2>2, <2>3, <2>4, <2>5, <1>19 DEF Next

(* A task that tells is the one registered for its device.                  *)
LEMMA LastWordStep ==
    TypeOK /\ Stage /\ Registration /\ LastWord /\ [Next]_vars => LastWord'
<1> SUFFICES ASSUME TypeOK, Stage, Registration, LastWord, [Next]_vars
             PROVE  LastWord'
  OBVIOUS
<1> USE InstanceAssumption DEF LastWord, LastWordIsFinal
(* A registered task that tells is the one registered for its device, and   *)
(* no other task of the device is registered.                               *)
<1>0. ASSUME NEW t \in Tasks, Registered(t)
      PROVE  /\ device[t] \in Devices /\ active[device[t]] = t
             /\ \A s \in Tasks : s # t /\ device[s] = device[t] => ~Registered(s)
             /\ \A d \in Devices : active[d] = t => d = device[t]
  BY <1>0 DEF Registered, Registration, Stage
<1> DEFINE Said(t, s) ==
             /\ stage[t] # "idle" /\ Registered(t) /\ s \in Statuses /\ Tell(t, s)
             /\ UNCHANGED <<active, device, kind>>
<1>1. ASSUME NEW t \in Tasks, NEW s \in Statuses, Said(t, s),
             \A x \in Tasks \ {t} : stage'[x] = stage[x],
             stage'[t] # "announce", stage'[t] = "finish" => s \in Ends
      PROVE  LastWord'
  <2>1. /\ told'[device[t]] = [task |-> t, status |-> s]
        /\ \A d \in Devices : d # device[t] => told'[d] = told[d]
    BY <1>1, <1>0, TellStep
  <2>2. ASSUME NEW d \in Devices
        PROVE  /\ active'[d] = None /\ told'[d] # None => told'[d].status \in Ends
               /\ active'[d] # None /\ stage'[active'[d]] # "announce"
                    => told'[d] # None /\ told'[d].task = active'[d]
    <3>1. CASE d = device[t]
      <4>1. active'[d] = t /\ told'[d] = [task |-> t, status |-> s] /\ t \in Tasks /\ t # None
        BY <3>1, <2>1, <1>1, <1>0
      <4>2. told'[d] # None
        BY <4>1, <1>1
      <4> QED
        BY <4>1, <4>2
    <3>2. CASE d # device[t]
      <4>1. active'[d] = active[d] /\ told'[d] = told[d]
        BY <3>2, <2>1, <1>1
      <4>2. active[d] # None => active[d] \in Tasks \ {t}
        BY <3>2, <1>1, <1>0 DEF TypeOK
      <4> QED
        BY <4>1, <4>2, <1>1
    <3> QED
      BY <3>1, <3>2
  <2>3. ASSUME NEW x \in Tasks, stage'[x] = "finish"
        PROVE  told'[device'[x]].status \in Ends
    <3>1. CASE x = t
      BY <3>1, <2>1, <2>3, <1>1
    <3>2. CASE x # t
      <4>1. stage[x] = "finish" /\ device'[x] = device[x]
        BY <3>2, <2>3, <1>1
      <4>2. Registered(x) /\ device[x] \in Devices /\ device[x] # device[t]
        BY <4>1, <3>2, <1>1, <1>0 DEF Registered, Stage
      <4> QED
        BY <4>1, <4>2, <2>1
    <3> QED
      BY <3>1, <3>2
  <2> QED
    BY <2>2, <2>3
(* The steps that tell.                                                     *)
<1>2. ASSUME NEW t \in Tasks, Announce(t)
      PROVE  LastWord'
  <2>1. Said(t, "start") /\ stage' = [stage EXCEPT ![t] = "launch"]
    BY <1>2 DEF Announce, Enter, Registered, Stage, Statuses
  <2> QED
    BY <2>1, <1>1 DEF TypeOK
<1>3. ASSUME NEW t \in Tasks, Launch(t)
      PROVE  LastWord'
  <2>1. Said(t, "running") /\ stage' = [stage EXCEPT ![t] = "run"]
    BY <1>3 DEF Launch, Enter, Registered, Stage, Statuses
  <2> QED
    BY <2>1, <1>1 DEF TypeOK
<1>4. ASSUME NEW t \in Tasks, Report(t)
      PROVE  LastWord'
  <2>1. Said(t, "running") /\ stage[t] = "run" /\ stage' = stage
    BY <1>4 DEF Report, Registered, Stage, Statuses
  <2> QED
    BY <2>1, <1>1 DEF TypeOK
<1>5. ASSUME NEW t \in Tasks, AdapterEnds(t)
      PROVE  LastWord'
  <2>1. stage' = [stage EXCEPT ![t] = "flush"]
    BY <1>5 DEF AdapterEnds, Enter
  <2>2. PICK s \in Statuses : Said(t, s)
    BY <1>5 DEF AdapterEnds, Enter, Registered, Stage, Statuses
  <2> QED
    BY <2>1, <2>2, <1>1 DEF TypeOK
<1>6. ASSUME NEW t \in Tasks, FinalEvent(t)
      PROVE  LastWord'
  <2>1. stage' = [stage EXCEPT ![t] = "finish"]
    BY <1>6 DEF FinalEvent, Enter
  <2>2. PICK s \in Ends : Said(t, s)
    BY <1>6 DEF FinalEvent, Enter, Registered, Stage, Statuses, Ends
  <2> QED
    BY <2>1, <2>2, <1>1 DEF TypeOK
(* The steps that do not.                                                   *)
<1>7. ASSUME NEW t \in Tasks, NEW d \in Devices, NEW k \in Kinds \ {"label"}, StartOperation(t, d, k)
      PROVE  LastWord'
  BY <1>7 DEF StartOperation, Begin, Enter, TypeOK, Stage, Registration, Registered
<1>8. ASSUME NEW t \in Tasks, NEW d \in Devices, StartLabel(t, d)
      PROVE  LastWord'
  BY <1>8 DEF StartLabel, Begin, Enter, TypeOK, Stage, Registration, Registered
<1>9. ASSUME NEW t \in Tasks, LabelEnds(t) \/ Flush(t)
      PROVE  LastWord'
  BY <1>9 DEF LabelEnds, Flush, Enter, TypeOK, toolVars
<1>10. ASSUME NEW t \in Tasks, FinishOperation(t)
       PROVE  LastWord'
  <2>1. device[t] \in Devices /\ active[device[t]] = t
    BY <1>10, <1>0 DEF FinishOperation, Enter, Registered, Stage
  <2>2. stage' = [stage EXCEPT ![t] = "done"] /\ active' = [active EXCEPT ![device[t]] = None]
    BY <1>10 DEF FinishOperation, Enter
  <2>3. stage[t] = "finish" /\ UNCHANGED <<device, told>>
    BY <1>10 DEF FinishOperation, Enter
  <2>4. \A d \in Devices \ {device[t]} : active[d] # t
    BY <1>10, <1>0 DEF FinishOperation, Enter, Registered, Stage
  <2> QED
    BY <2>1, <2>2, <2>3, <2>4 DEF TypeOK
<1>11. ASSUME NEW t \in Tasks, Poll(t) \/ GiveUp(t) \/ Writes(t) \/ \E c \in Codes : Exits(t, c)
       PROVE  LastWord'
  BY <1>11 DEF Poll, GiveUp, Writes, Exits
<1>12. ASSUME NEW a \in Aborters, AbortCancels(a) \/ \E d \in Devices : AbortLooks(a, d)
       PROVE  LastWord'
  BY <1>12 DEF AbortCancels, AbortLooks, taskVars
<1>13. ASSUME NEW r \in Readers, Cache(r) \/ \E d \in Devices : Query(r, d)
       PROVE  LastWord'
  BY <1>13 DEF Cache, Query, taskVars
<1>14. CASE UNCHANGED vars
  BY <1>14 DEF vars, taskVars
<1> HIDE DEF LastWord
<1> QED
  <2>1. ASSUME NEW t \in Tasks, NEW d \in Devices,
               StartLabel(t, d) \/ \E k \in Kinds \ {"label"} : StartOperation(t, d, k)
        PROVE  LastWord'
    BY <2>1, <1>7, <1>8
  <2>2. ASSUME NEW t \in Tasks, Step(t)
        PROVE  LastWord'
    BY <2>2, <1>2, <1>3, <1>4, <1>5, <1>6, <1>9, <1>10, <1>11 DEF Step
  <2>3. ASSUME NEW t \in Tasks, Writes(t) \/ \E c \in Codes : Exits(t, c)
        PROVE  LastWord'
    BY <2>3, <1>11
  <2> QED
    BY <2>1, <2>2, <2>3, <1>12, <1>13, <1>14 DEF Next

(* The invariant is inductive.                                              *)
LEMMA Invariance == Spec => []Inv
<1>1. Inv /\ [Next]_vars => Inv'
  BY TypeStep, StageStep, RegistrationStep, OutlivesStep, AbortsStep, LastWordStep DEF Inv
<1> QED
  BY InvInit, <1>1, PTL DEF Spec

(* Every line that is passed on is one the tool has written, whatever the   *)
(* sizes of its output and of the buffer, and every event, registration and *)
(* cache entry is of a device and a task: the arithmetic of                 *)
(* executeCommandWithProgress stays within the snapshot.                    *)
THEOREM TypeCorrect == Spec => []TypeOK
<1>1. Inv => TypeOK
  BY DEF Inv
<1> QED
  BY <1>1, Invariance, PTL

(* startOperation and finishOperation keep the tools of one device apart;   *)
(* only a cancelled check, whose goroutine does not wait for its tool, may  *)
(* leave one behind.                                                        *)
THEOREM ToolsAreExclusive == Spec => []ToolsExclude
<1>1. Inv => ToolsExclude
  <2> SUFFICES ASSUME Inv, NEW s \in Tasks, NEW t \in Tasks, s # t, device[s] = device[t],
                      Works(s), Works(t), s \notin cancelled, t \notin cancelled
               PROVE  FALSE
    BY DEF ToolsExclude
  <2>1. stage[s] = "run" /\ stage[t] = "run"
    BY DEF Inv, Outlives
  <2>2. Registered(s) /\ Registered(t)
    BY <2>1 DEF Registered, Works
  <2> QED
    BY <2>2 DEF Inv, Registration
<1> QED
  BY <1>1, Invariance, PTL

(* The adapter waits for the goroutines that report lines and the service   *)
(* speaks after the adapter and before the release: no late event of a task *)
(* hides how the task, or the one after it, has ended.                      *)
THEOREM LastWordStands == Spec => []LastWordIsFinal
<1>1. Inv => LastWordIsFinal
  BY DEF Inv, LastWord
<1> QED
  BY <1>1, Invariance, PTL

(* AbortCheckPartition calls, outside the mutex, the cancel function it     *)
(* read inside: whatever has taken over the device is not cancelled.        *)
THEOREM AbortsHitChecks == Spec => []AbortHitsItsCheck
<1>1. Inv => AbortHitsItsCheck
  BY DEF Inv, Aborts, AbortHitsItsCheck
<1> QED
  BY <1>1, Invariance, PTL

-----------------------------------------------------------------------------
(* Updates *)

Opened == [file : Files, version : Nat]

(* None is no signature, the image has the static build, the loop is a job,  *)
(* and two callbacks of the develop watcher's timer do not run at once.    *)
UpdatesAssumption ==
    /\ None \notin Opened
    /\ "static" \in Files /\ Loop \in Jobs
    /\ "develop" \in Channels => \A j, k \in Callbacks : j = k

UpdatesTyped ==
    /\ published \in Nat \ {0}
    /\ data \in [Files -> Nat] /\ bin \in [Files -> Nat]
    /\ link \in Files /\ running \in Nat
    /\ verifier \in Opened \cup {None}
    /\ ustage \in [Jobs -> G!Stages]
    /\ want \in [Jobs -> [Files -> Nat]]
    /\ left \in [Jobs -> SUBSET Files]
    /\ opened \in [Jobs -> Opened \cup {None}]
    /\ pending \subseteq Files

Installing == {"install", "apply", "link", "restart"}

(* Between two processes nothing is in hand.                               *)
DownIsEmpty ==
    running = 0 => verifier = None /\ pending = {} /\ \A j \in Jobs : ustage[j] = "idle"

InHand(j) ==
    /\ ustage[j] = "apply" => opened[j] # None
    /\ ustage[j] \in {"link", "restart"} => left[j] = {}

(* On the release channels: whatever a signature was loaded for, and all   *)
(* that a job wants, is newer than the process; so is what it has put in.  *)
ReleaseAhead ==
    /\ pending = {}
    /\ verifier # None => verifier.version > running
    /\ \A j \in Jobs :
         /\ ustage[j] # "idle" => \A f \in Files : want[j][f] > running
         /\ ustage[j] \in Installing => \A f \in Files \ left[j] : bin[f] > running

(* On the develop channel: a file is what was copied or an earlier copy.   *)
CopiesAhead ==
    /\ \A f \in Files : IF data[f] = 0 THEN bin[f] = 1 ELSE bin[f] <= data[f]
    /\ \A f \in pending : data[f] # 0
    /\ \A j \in Jobs : ustage[j] # "idle" =>
         /\ j \in Callbacks /\ ustage[j] \in Installing
         /\ \A f \in left[j] : data[f] # 0
         /\ \A f \in Files :
              /\ want[j][f] <= data[f]
              /\ f \notin left[j] => bin[f] >= want[j][f]
         /\ ustage[j] = "apply" =>
              LET f == opened[j].file
              IN /\ opened[j].version >= want[j][f] /\ opened[j].version >= bin[f]
                 /\ opened[j].version <= data[f] /\ opened[j].version # 0

UpdatesInv ==
    /\ channel \in Channels
    /\ UpdatesTyped /\ DownIsEmpty /\ \A j \in Jobs : InHand(j)
    /\ channel # "develop" => ReleaseAhead
    /\ channel = "develop" => CopiesAhead

LEMMA Entered ==
    ASSUME UpdatesTyped, NEW j \in Jobs, NEW here, NEW there \in G!Stages, G!Enter(j, here, there)
    PROVE  /\ running # 0 /\ ustage[j] = here /\ ustage'[j] = there
           /\ ustage' \in [Jobs -> G!Stages]
           /\ \A k \in Jobs \ {j} : ustage'[k] = ustage[k]
  BY DEF UpdatesTyped, G!Enter

LEMMA StepPublish ==
    ASSUME UpdatesAssumption, UpdatesInv, G!Publish
    PROVE  UpdatesInv'
<1>1. /\ published' = published + 1
      /\ UNCHANGED <<channel, data, bin, link, running, verifier, ustage, want, left, opened, pending>>
  BY DEF G!Publish, G!hostVars, G!jobVars
<1>2. UpdatesTyped' /\ DownIsEmpty' /\ \A j \in Jobs : InHand(j)'
  BY <1>1 DEF UpdatesInv, UpdatesTyped, DownIsEmpty, InHand
<1>3. (channel # "develop" => ReleaseAhead') /\ (channel = "develop" => CopiesAhead')
  BY <1>1 DEF UpdatesInv, ReleaseAhead, CopiesAhead
<1> QED  BY <1>1, <1>2, <1>3 DEF UpdatesInv

(* A release that is fetched is newer than the process.                    *)
LEMMA StepFetch ==
    ASSUME UpdatesAssumption, UpdatesInv, NEW j \in Jobs, G!GetUpgradeReleaseAsset(j)
    PROVE  UpdatesInv'
<1>1. /\ channel = "release" /\ published > running /\ running # 0 /\ ustage[j] = "idle"
      /\ ustage'[j] = "extract" /\ ustage' \in [Jobs -> G!Stages]
      /\ \A k \in Jobs \ {j} : ustage'[k] = ustage[k]
      /\ want' = [want EXCEPT ![j] = [f \in Files |-> published]]
      /\ left' = [left EXCEPT ![j] = Files]
      /\ UNCHANGED <<channel, published, data, bin, link, running, verifier, opened, pending>>
  BY Entered DEF UpdatesInv, G!GetUpgradeReleaseAsset, G!hostVars, G!Stages
<1>2. want' \in [Jobs -> [Files -> Nat]] /\ left' \in [Jobs -> SUBSET Files]
  BY <1>1 DEF UpdatesInv, UpdatesTyped
<1>3. UpdatesTyped' /\ DownIsEmpty'
  BY <1>1, <1>2 DEF UpdatesInv, UpdatesTyped, DownIsEmpty
<1>4. \A k \in Jobs \ {j} : want'[k] = want[k] /\ left'[k] = left[k]
  BY <1>1 DEF UpdatesInv, UpdatesTyped
<1>5. \A f \in Files : want'[j][f] > running
  BY <1>1 DEF UpdatesInv, UpdatesTyped
<1>6. \A k \in Jobs : InHand(k)'
  BY <1>1, <1>4 DEF UpdatesInv, InHand
<1>7. ReleaseAhead'
  BY <1>1, <1>4, <1>5 DEF UpdatesInv, ReleaseAhead, Installing
<1> QED  BY <1>1, <1>3, <1>6, <1>7 DEF UpdatesInv

(* Only a release is extracted.                                            *)
LEMMA OnRelease ==
    ASSUME UpdatesAssumption, UpdatesInv, NEW j \in Jobs, ustage[j] \in {"extract", "unpack"}
    PROVE  channel # "develop"
  BY DEF UpdatesInv, CopiesAhead, Installing

LEMMA StepExtractLoads ==
    ASSUME UpdatesAssumption, UpdatesInv, NEW j \in Jobs, NEW f \in Files, G!ExtractLoads(j, f)
    PROVE  UpdatesInv'
<1>1. /\ running # 0 /\ ustage[j] = "extract" /\ ustage'[j] = "unpack" /\ ustage' \in [Jobs -> G!Stages]
      /\ \A k \in Jobs \ {j} : ustage'[k] = ustage[k]
      /\ data' = [data EXCEPT ![f] = 0]
      /\ opened' = [k \in Jobs |-> IF G!Opens(k, f) THEN [opened[k] EXCEPT !.version = 0] ELSE opened[k]]
      /\ verifier' = [file |-> f, version |-> want[j][f]]
      /\ UNCHANGED <<channel, published, bin, link, running, want, left, pending>>
  BY Entered DEF UpdatesInv, G!ExtractLoads, G!hostVars, G!Stages
<1>2. ASSUME NEW k \in Jobs
      PROVE  opened'[k] \in Opened \cup {None} /\ (ustage'[k] = "apply" => opened'[k] # None)
  <2>1. CASE G!Opens(k, f)
    <3>1. opened[k] # None /\ opened[k] \in Opened
      BY <2>1 DEF UpdatesInv, UpdatesTyped, InHand, G!Opens
    <3> QED  BY <1>1, <2>1, <3>1 DEF Opened, UpdatesAssumption
  <2>2. CASE ~G!Opens(k, f)
    BY <1>1, <2>2 DEF UpdatesInv, UpdatesTyped, InHand
  <2> QED  BY <2>1, <2>2
<1>3. UpdatesTyped'
  BY <1>1, <1>2 DEF UpdatesInv, UpdatesTyped, Opened
<1>4. DownIsEmpty' /\ \A k \in Jobs : InHand(k)'
  BY <1>1, <1>2 DEF UpdatesInv, DownIsEmpty, InHand
<1>5. channel # "develop"
  BY <1>1, OnRelease
<1>6. ReleaseAhead'
  BY <1>1, <1>5 DEF UpdatesInv, ReleaseAhead, Installing
<1> QED  BY <1>1, <1>3, <1>4, <1>5, <1>6 DEF UpdatesInv

LEMMA StepExtractApplies ==
    ASSUME UpdatesAssumption, UpdatesInv, NEW j \in Jobs, NEW f \in Files, G!ExtractApplies(j, f)
    PROVE  UpdatesInv'
<1>1. /\ data' = [data EXCEPT ![f] = want[j][f]]
      /\ UNCHANGED <<channel, published, bin, link, running, verifier, want, opened, pending>>
      /\ ustage[j] = "unpack"
  BY DEF G!ExtractApplies, G!Enter, G!hostVars
<1>2. /\ running # 0 /\ ustage'[j] \in {"install", "extract"} /\ ustage' \in [Jobs -> G!Stages]
      /\ \A k \in Jobs \ {j} : ustage'[k] = ustage[k]
      /\ left' = [left EXCEPT ![j] = IF left[j] = {f} THEN G!Package(j) ELSE left[j] \ {f}]
      /\ ustage'[j] = "install" => left[j] = {f}
  <2>1. CASE left[j] = {f}
    BY <2>1, Entered DEF G!ExtractApplies, UpdatesInv, G!Stages
  <2>2. CASE left[j] # {f}
    BY <2>2, Entered DEF G!ExtractApplies, UpdatesInv, UpdatesTyped, G!Passed, G!Stages
  <2> QED  BY <2>1, <2>2
<1>3. G!Package(j) \in SUBSET Files
  BY DEF G!Package
<1>4. UpdatesTyped'
  BY <1>1, <1>2, <1>3 DEF UpdatesInv, UpdatesTyped
<1>5. \A k \in Jobs \ {j} : left'[k] = left[k]
  BY <1>2 DEF UpdatesInv, UpdatesTyped
<1>6. DownIsEmpty' /\ \A k \in Jobs : InHand(k)'
  BY <1>1, <1>2, <1>5 DEF UpdatesInv, DownIsEmpty, InHand
<1>7. channel # "develop"
  BY <1>1, OnRelease
<1>8. ASSUME ustage'[j] = "install"
      PROVE  left'[j] = Files
  <2>1. \A g \in Files : want[j][g] # 0
    BY <1>1, <1>7 DEF UpdatesInv, UpdatesTyped, ReleaseAhead
  <2>2. left'[j] = G!Package(j)
    BY <1>2, <1>8 DEF UpdatesInv, UpdatesTyped
  <2> QED  BY <2>1, <2>2 DEF G!Package
<1>9. ReleaseAhead'
  BY <1>1, <1>2, <1>5, <1>7, <1>8 DEF UpdatesInv, ReleaseAhead, Installing
<1> QED  BY <1>1, <1>4, <1>6, <1>7, <1>9 DEF UpdatesInv

LEMMA StepCheck ==
    ASSUME UpdatesAssumption, UpdatesInv, NEW j \in Jobs, NEW f \in Files, G!Check(j, f)
    PROVE  UpdatesInv'
<1>1. /\ running # 0 /\ ustage[j] = "install" /\ ustage'[j] = "apply" /\ ustage' \in [Jobs -> G!Stages]
      /\ \A k \in Jobs \ {j} : ustage'[k] = ustage[k]
      /\ f \in left[j]
      /\ verifier' = IF channel = "develop" THEN verifier ELSE [file |-> f, version |-> want[j][f]]
      /\ opened' = [opened EXCEPT ![j] = [file |-> f, version |-> data[f]]]
      /\ UNCHANGED <<channel, published, data, bin, link, running, want, left, pending>>
  BY Entered DEF UpdatesInv, G!Check, G!Due, G!hostVars, G!Stages
<1>2. [file |-> f, version |-> data[f]] \in Opened /\ [file |-> f, version |-> want[j][f]] \in Opened
  BY DEF UpdatesInv, UpdatesTyped, Opened
<1>3. UpdatesTyped'
  BY <1>1, <1>2 DEF UpdatesInv, UpdatesTyped
<1>4. opened'[j] = [file |-> f, version |-> data[f]] /\ \A k \in Jobs \ {j} : opened'[k] = opened[k]
  BY <1>1 DEF UpdatesInv, UpdatesTyped
<1>5. DownIsEmpty' /\ \A k \in Jobs : InHand(k)'
  BY <1>1, <1>2, <1>4 DEF UpdatesInv, DownIsEmpty, InHand, UpdatesAssumption
<1>6. channel # "develop" => ReleaseAhead'
  BY <1>1 DEF UpdatesInv, ReleaseAhead, Installing
<1>7. ASSUME channel = "develop"
      PROVE  CopiesAhead'
  <2>1. data[f] # 0 /\ bin[f] <= data[f] /\ want[j][f] <= data[f] /\ data[f] \in Nat
    BY <1>1, <1>7 DEF UpdatesInv, UpdatesTyped, CopiesAhead
  <2> QED  BY <1>1, <1>4, <1>7, <2>1 DEF UpdatesInv, CopiesAhead, Installing
<1> QED  BY <1>1, <1>3, <1>5, <1>6, <1>7 DEF UpdatesInv

(* A file is put in place: newer than the process, or than the one before.  *)
LEMMA AppliesNewer ==
    ASSUME UpdatesAssumption, UpdatesInv, NEW j \in Jobs, NEW f \in Files, G!Apply(j, f)
    PROVE  /\ opened[j] \in Opened /\ opened[j].file = f
           /\ bin' = [bin EXCEPT ![f] = opened[j].version]
           /\ channel # "develop" => opened[j].version > running
           /\ channel = "develop" => opened[j].version >= bin[f] /\ opened[j].version >= want[j][f]
<1>1. opened[j] \in Opened /\ opened[j].file = f /\ opened[j] # None /\ ustage[j] = "apply"
  BY DEF UpdatesInv, UpdatesTyped, InHand, G!Apply, G!Opens
<1>2. channel # "develop" => verifier = opened[j]
  BY DEF G!Apply, G!Accepted
<1>3. channel # "develop" => opened[j].version > running
  BY <1>1, <1>2 DEF UpdatesInv, ReleaseAhead
<1>4. channel = "develop" => opened[j].version >= bin[f] /\ opened[j].version >= want[j][f]
  BY <1>1 DEF UpdatesInv, CopiesAhead
<1> QED  BY <1>1, <1>3, <1>4 DEF G!Apply

LEMMA StepApply ==
    ASSUME UpdatesAssumption, UpdatesInv, NEW j \in Jobs, NEW f \in Files, G!Apply(j, f)
    PROVE  UpdatesInv'
<1>1. /\ running # 0 /\ ustage[j] = "apply" /\ ustage' \in [Jobs -> G!Stages]
      /\ ustage'[j] = IF left[j] = {f} THEN "link" ELSE "install"
      /\ \A k \in Jobs \ {j} : ustage'[k] = ustage[k]
      /\ left' = [left EXCEPT ![j] = left[j] \ {f}]
      /\ opened' = [opened EXCEPT ![j] = None]
      /\ UNCHANGED <<channel, published, data, link, running, verifier, want, pending>>
  BY Entered DEF UpdatesInv, UpdatesTyped, G!Apply, G!Installed, G!Passed, G!hostVars, G!Stages
<1>2. /\ opened[j] \in Opened /\ opened[j].file = f
      /\ bin' = [bin EXCEPT ![f] = opened[j].version]
      /\ channel # "develop" => opened[j].version > running
      /\ channel = "develop" => opened[j].version >= bin[f] /\ opened[j].version >= want[j][f]
  BY AppliesNewer
<1>3. opened[j].version \in Nat
  BY <1>2 DEF Opened
<1>4. UpdatesTyped'
  BY <1>1, <1>2, <1>3 DEF UpdatesInv, UpdatesTyped
<1>5. \A k \in Jobs \ {j} : left'[k] = left[k] /\ opened'[k] = opened[k]
  BY <1>1 DEF UpdatesInv, UpdatesTyped
<1>6. /\ left'[j] = left[j] \ {f}
      /\ bin'[f] = opened[j].version /\ \A g \in Files \ {f} : bin'[g] = bin[g]
  BY <1>1, <1>2 DEF UpdatesInv, UpdatesTyped
<1>7. DownIsEmpty' /\ \A k \in Jobs : InHand(k)'
  BY <1>1, <1>5, <1>6 DEF UpdatesInv, DownIsEmpty, InHand
<1>8. ASSUME channel # "develop"
      PROVE  ReleaseAhead'
  BY <1>1, <1>2, <1>5, <1>6, <1>8 DEF UpdatesInv, ReleaseAhead, Installing
<1>9. ASSUME channel = "develop"
      PROVE  CopiesAhead'
  <2>1. \A k \in Jobs : ustage[k] # "idle" => k = j
    <3>1. "develop" \in Channels
      BY <1>9 DEF UpdatesInv
    <3> QED  BY <1>1, <1>9, <3>1 DEF UpdatesInv, CopiesAhead, UpdatesAssumption
  <2>2. /\ opened[j].version <= data[f] /\ opened[j].version # 0
        /\ j \in Callbacks
        /\ \A g \in left[j] : data[g] # 0
        /\ \A g \in Files : want[j][g] <= data[g] /\ (g \notin left[j] => bin[g] >= want[j][g])
    BY <1>1, <1>2, <1>9 DEF UpdatesInv, CopiesAhead
  <2>3. \A g \in Files : IF data'[g] = 0 THEN bin'[g] = 1 ELSE bin'[g] <= data'[g]
    BY <1>1, <1>3, <1>6, <1>9, <2>2 DEF UpdatesInv, UpdatesTyped, CopiesAhead
  <2>4. \A g \in Files : g \notin left'[j] => bin'[g] >= want'[j][g]
    BY <1>1, <1>2, <1>6, <1>9, <2>2
  <2> QED  BY <1>1, <1>6, <1>9, <2>1, <2>2, <2>3, <2>4 DEF UpdatesInv, CopiesAhead, Installing
<1> QED  BY <1>1, <1>4, <1>7, <1>8, <1>9 DEF UpdatesInv

LEMMA StepQuit ==
    ASSUME UpdatesAssumption, UpdatesInv, NEW j \in Jobs, G!Quit(j)
    PROVE  UpdatesInv'
<1>1. /\ running # 0 /\ ustage' = [ustage EXCEPT ![j] = "idle"]
      /\ want' = [want EXCEPT ![j] = G!Nothing]
      /\ left' = [left EXCEPT ![j] = {}] /\ opened' = [opened EXCEPT ![j] = None]
      /\ UNCHANGED <<channel, published, data, bin, link, running, verifier, pending>>
  BY DEF G!Quit, G!hostVars
<1>2. UpdatesTyped'
  BY <1>1 DEF UpdatesInv, UpdatesTyped, G!Stages, G!Nothing
<1>3. /\ ustage'[j] = "idle"
      /\ \A k \in Jobs \ {j} : /\ ustage'[k] = ustage[k] /\ want'[k] = want[k]
                               /\ left'[k] = left[k] /\ opened'[k] = opened[k]
  BY <1>1 DEF UpdatesInv, UpdatesTyped
<1>4. DownIsEmpty' /\ \A k \in Jobs : InHand(k)'
  BY <1>1, <1>3 DEF UpdatesInv, DownIsEmpty, InHand
<1>5. channel # "develop" => ReleaseAhead'
  BY <1>1, <1>3 DEF UpdatesInv, ReleaseAhead, Installing
<1>6. channel = "develop" => CopiesAhead'
  BY <1>1, <1>3 DEF UpdatesInv, CopiesAhead, Installing
<1> QED  BY <1>1, <1>2, <1>4, <1>5, <1>6 DEF UpdatesInv

LEMMA StepLink ==
    ASSUME UpdatesAssumption, UpdatesInv, NEW j \in Jobs, G!UpdateServerSymlink(j)
    PROVE  UpdatesInv'
<1>1. /\ running # 0 /\ ustage[j] = "link" /\ ustage'[j] = "restart" /\ ustage' \in [Jobs -> G!Stages]
      /\ \A k \in Jobs \ {j} : ustage'[k] = ustage[k]
      /\ link' = G!Best(G!Package(j), linkers)
      /\ UNCHANGED <<channel, published, data, bin, running, verifier, want, left, opened, pending>>
  BY Entered DEF UpdatesInv, G!UpdateServerSymlink, G!hostVars, G!Stages
<1>2. link' \in Files
  BY <1>1 DEF G!Best, G!Package, UpdatesAssumption
<1>3. UpdatesTyped' /\ DownIsEmpty' /\ \A k \in Jobs : InHand(k)'
  BY <1>1, <1>2 DEF UpdatesInv, UpdatesTyped, DownIsEmpty, InHand
<1>4. channel # "develop" => ReleaseAhead'
  BY <1>1 DEF UpdatesInv, ReleaseAhead, Installing
<1>5. channel = "develop" => CopiesAhead'
  BY <1>1 DEF UpdatesInv, CopiesAhead, Installing
<1> QED  BY <1>1, <1>3, <1>4, <1>5 DEF UpdatesInv

LEMMA StepDown ==
    ASSUME UpdatesAssumption, UpdatesInv, G!Down
    PROVE  UpdatesInv'
<1>1. /\ running' = 0 /\ verifier' = None /\ pending' = {}
      /\ ustage' = [j \in Jobs |-> "idle"] /\ want' = [j \in Jobs |-> G!Nothing]
      /\ left' = [j \in Jobs |-> {}] /\ opened' = [j \in Jobs |-> None]
      /\ UNCHANGED <<channel, published, data, bin, link>>
  BY DEF G!Down, G!hostVars
<1>2. UpdatesTyped'
  BY <1>1 DEF UpdatesInv, UpdatesTyped, G!Stages, G!Nothing
<1>3. DownIsEmpty' /\ \A k \in Jobs : InHand(k)'
  BY <1>1 DEF DownIsEmpty, InHand
<1>4. ReleaseAhead'
  BY <1>1 DEF ReleaseAhead, Installing
<1>5. channel = "develop" => CopiesAhead'
  BY <1>1 DEF UpdatesInv, CopiesAhead
<1> QED  BY <1>1, <1>2, <1>3, <1>4, <1>5 DEF UpdatesInv

LEMMA StepComesUp ==
    ASSUME UpdatesAssumption, UpdatesInv, G!Start
    PROVE  UpdatesInv'
<1>1. /\ running = 0 /\ running' = bin[link]
      /\ UNCHANGED <<channel, published, data, bin, link, verifier, ustage, want, left, opened, pending>>
  BY DEF G!Start, G!hostVars, G!jobVars
<1>2. verifier = None /\ pending = {} /\ \A j \in Jobs : ustage[j] = "idle"
  BY <1>1 DEF UpdatesInv, DownIsEmpty
<1>3. UpdatesTyped' /\ DownIsEmpty' /\ \A k \in Jobs : InHand(k)'
  BY <1>1, <1>2 DEF UpdatesInv, UpdatesTyped, DownIsEmpty, InHand
<1>4. ReleaseAhead'
  BY <1>1, <1>2 DEF ReleaseAhead, Installing
<1>5. channel = "develop" => CopiesAhead'
  BY <1>1 DEF UpdatesInv, CopiesAhead
<1> QED  BY <1>1, <1>3, <1>4, <1>5 DEF UpdatesInv

LEMMA StepDeploy ==
    ASSUME UpdatesAssumption, UpdatesInv, NEW f \in Files, G!Deploy(f)
    PROVE  UpdatesInv'
<1>1. /\ channel = "develop" /\ data[f] < published
      /\ data' = [data EXCEPT ![f] = published]
      /\ pending' = IF running = 0 THEN pending ELSE pending \cup {f}
      /\ UNCHANGED <<channel, published, bin, link, running, verifier, ustage, want, left, opened>>
  BY DEF G!Deploy, G!hostVars, G!jobVars
<1>2. UpdatesTyped'
  BY <1>1 DEF UpdatesInv, UpdatesTyped
<1>3. DownIsEmpty' /\ \A k \in Jobs : InHand(k)'
  BY <1>1 DEF UpdatesInv, DownIsEmpty, InHand
<1>4. /\ \A g \in Files : data'[g] >= data[g] /\ (data[g] # 0 => data'[g] # 0)
      /\ data'[f] = published /\ published # 0 /\ \A g \in Files \ {f} : data'[g] = data[g]
  BY <1>1 DEF UpdatesInv, UpdatesTyped
<1>5. \A g \in Files : IF data'[g] = 0 THEN bin'[g] = 1 ELSE bin'[g] <= data'[g]
  BY <1>1, <1>4 DEF UpdatesInv, UpdatesTyped, CopiesAhead
<1>6. \A g \in pending' : data'[g] # 0
  BY <1>1, <1>4 DEF UpdatesInv, UpdatesTyped, CopiesAhead
<1>7. ASSUME NEW j \in Jobs, ustage'[j] # "idle"
      PROVE  /\ j \in Callbacks /\ ustage'[j] \in Installing
             /\ \A g \in left'[j] : data'[g] # 0
             /\ \A g \in Files : want'[j][g] <= data'[g] /\ (g \notin left'[j] => bin'[g] >= want'[j][g])
             /\ ustage'[j] = "apply" =>
                  LET g == opened'[j].file
                  IN /\ opened'[j].version >= want'[j][g] /\ opened'[j].version >= bin'[g]
                     /\ opened'[j].version <= data'[g] /\ opened'[j].version # 0
  <2>1. /\ j \in Callbacks /\ ustage[j] \in Installing
        /\ \A g \in left[j] : data[g] # 0
        /\ \A g \in Files : want[j][g] <= data[g] /\ (g \notin left[j] => bin[g] >= want[j][g])
    BY <1>1, <1>7 DEF UpdatesInv, CopiesAhead
  <2>2. \A g \in left'[j] : data'[g] # 0
    BY <1>1, <1>4, <2>1 DEF UpdatesInv, UpdatesTyped
  <2>3. \A g \in Files : want'[j][g] <= data'[g] /\ (g \notin left'[j] => bin'[g] >= want'[j][g])
    BY <1>1, <1>2, <1>4, <2>1 DEF UpdatesInv, UpdatesTyped
  <2>4. ASSUME ustage'[j] = "apply"
        PROVE  LET g == opened'[j].file
               IN /\ opened'[j].version >= want'[j][g] /\ opened'[j].version >= bin'[g]
                  /\ opened'[j].version <= data'[g] /\ opened'[j].version # 0
    <3>1. opened[j] \in Opened
      BY <1>1, <2>4 DEF UpdatesInv, UpdatesTyped, InHand
    <3>2. PICK g \in Files, v \in Nat : opened[j].file = g /\ opened[j].version = v
      BY <3>1 DEF Opened
    <3>3. v >= want[j][g] /\ v >= bin[g] /\ v <= data[g] /\ v # 0
      BY <1>1, <2>4, <3>2 DEF UpdatesInv, CopiesAhead
    <3>4. data[g] \in Nat /\ data'[g] \in Nat /\ data'[g] >= data[g]
      BY <1>2, <1>4 DEF UpdatesInv, UpdatesTyped
    <3> QED  BY <1>1, <3>2, <3>3, <3>4
  <2> QED  BY <1>1, <2>1, <2>2, <2>3, <2>4
<1>8. CopiesAhead'
  BY <1>5, <1>6, <1>7 DEF CopiesAhead
<1> QED  BY <1>1, <1>2, <1>3, <1>8 DEF UpdatesInv

LEMMA StepDebounced ==
    ASSUME UpdatesAssumption, UpdatesInv, NEW j \in Jobs, G!Debounced(j)
    PROVE  UpdatesInv'
<1>1. /\ j \in Callbacks /\ pending # {}
      /\ running # 0 /\ ustage[j] = "idle" /\ ustage'[j] = "install" /\ ustage' \in [Jobs -> G!Stages]
      /\ \A k \in Jobs \ {j} : ustage'[k] = ustage[k]
      /\ want' = [want EXCEPT ![j] = [f \in Files |-> IF f \in pending THEN data[f] ELSE 0]]
      /\ left' = [left EXCEPT ![j] = pending]
      /\ pending' = {}
      /\ UNCHANGED <<channel, published, data, bin, link, running, verifier, opened>>
  BY Entered DEF UpdatesInv, G!Debounced, G!hostVars, G!Stages
<1>2. UpdatesTyped'
  <2>1. [f \in Files |-> IF f \in pending THEN data[f] ELSE 0] \in [Files -> Nat]
    BY DEF UpdatesInv, UpdatesTyped
  <2> QED  BY <1>1, <2>1 DEF UpdatesInv, UpdatesTyped
<1>3. /\ left'[j] = pending /\ \A f \in Files : want'[j][f] = IF f \in pending THEN data[f] ELSE 0
      /\ \A k \in Jobs \ {j} : want'[k] = want[k] /\ left'[k] = left[k]
  BY <1>1 DEF UpdatesInv, UpdatesTyped
<1>4. DownIsEmpty' /\ \A k \in Jobs : InHand(k)'
  BY <1>1, <1>3 DEF UpdatesInv, DownIsEmpty, InHand
<1>5. channel = "develop"
  BY <1>1 DEF UpdatesInv, ReleaseAhead
<1>6. \A f \in Files : want'[j][f] <= data'[f] /\ (f \notin left'[j] => bin'[f] >= want'[j][f])
  BY <1>1, <1>3 DEF UpdatesInv, UpdatesTyped
<1>7. CopiesAhead'
  BY <1>1, <1>3, <1>5, <1>6 DEF UpdatesInv, CopiesAhead, Installing
<1> QED  BY <1>1, <1>2, <1>4, <1>5, <1>7 DEF UpdatesInv

LEMMA UpdatesInit ==
    ASSUME UpdatesAssumption, G!Init
    PROVE  UpdatesInv
<1>1. /\ channel \in Channels /\ published = 1 /\ data = [f \in Files |-> 0] /\ bin = [f \in Files |-> 1]
      /\ running = 1 /\ verifier = None /\ ustage = [j \in Jobs |-> "idle"]
      /\ want = [j \in Jobs |-> G!Nothing] /\ left = [j \in Jobs |-> {}]
      /\ opened = [j \in Jobs |-> None] /\ pending = {}
  BY DEF G!Init, G!Nothing
<1>2. link \in Files
  BY DEF G!Init, G!Best, UpdatesAssumption
<1>3. UpdatesTyped
  BY <1>1, <1>2 DEF UpdatesTyped, G!Stages, G!Nothing
<1> QED  BY <1>1, <1>3 DEF UpdatesInv, DownIsEmpty, InHand, ReleaseAhead, CopiesAhead, Installing

LEMMA UpdatesStep ==
    ASSUME UpdatesAssumption, UpdatesInv, [G!Next]_(G!vars)
    PROVE  UpdatesInv'
<1>1. CASE UNCHANGED G!vars
  BY <1>1 DEF G!vars, G!hostVars, G!jobVars, UpdatesInv, UpdatesTyped, DownIsEmpty, InHand, ReleaseAhead, CopiesAhead
<1>2. ASSUME NEW j \in Jobs, G!Step(j)
      PROVE  UpdatesInv'
  <2>1. ASSUME NEW f \in Files, G!NoUpgrade(j, f) \/ G!Rejected(j, f)
        PROVE  UpdatesInv'
    BY <2>1, StepQuit DEF G!NoUpgrade, G!Rejected
  <2>2. CASE G!Shutdown(j)
    BY <2>2, StepDown DEF G!Shutdown
  <2> QED  BY <1>2, <2>1, <2>2, StepExtractLoads, StepExtractApplies, StepCheck, StepApply, StepLink DEF G!Step
<1>3. ASSUME NEW j \in Jobs, G!UpdateHandler(j) \/ G!Fails(j) \/ G!Debounced(j)
      PROVE  UpdatesInv'
  BY <1>3, StepFetch, StepQuit, StepDebounced DEF G!UpdateHandler, G!Fails
<1>4. CASE G!AutoUpdate
  <2>1. Loop \in Jobs
    BY DEF UpdatesAssumption
  <2> QED  BY <1>4, <2>1, StepFetch DEF G!AutoUpdate
<1>5. CASE G!Stops
  BY <1>5, StepDown DEF G!Stops
<1> QED  BY <1>1, <1>2, <1>3, <1>4, <1>5, StepPublish, StepComesUp, StepDeploy DEF G!Next

(* UpgradeService, however many updates share its directory and verifier:   *)
(* it asks for a restart only with the whole package newer than itself in   *)
(* place, or, on the develop channel, with all that was copied.             *)
THEOREM PackageIsWhole ==
    ASSUME UpdatesAssumption
    PROVE  G!Spec => []RestartIsWhole
<1>1. G!Init => UpdatesInv
  BY UpdatesInit
<1>2. UpdatesInv /\ [G!Next]_(G!vars) => UpdatesInv'
  BY UpdatesStep
<1>3. UpdatesInv => RestartIsWhole
  <2> SUFFICES ASSUME UpdatesInv, NEW j \in Jobs, ustage[j] = "restart", NEW f \in G!Package(j)
               PROVE  bin[f] >= IF channel = "develop" THEN want[j][f] ELSE running + 1
    BY DEF RestartIsWhole, G!RestartIsWhole
  <2>1. f \in Files /\ f \notin left[j] /\ bin[f] \in Nat /\ running \in Nat
    BY DEF UpdatesInv, UpdatesTyped, InHand, G!Package
  <2>2. CASE channel = "develop"
    BY <2>1, <2>2 DEF UpdatesInv, CopiesAhead
  <2>3. CASE channel # "develop"
    BY <2>1, <2>3 DEF UpdatesInv, ReleaseAhead, Installing
  <2> QED  BY <2>2, <2>3
<1> QED  BY <1>1, <1>2, <1>3, PTL DEF G!Spec

(* No step of the service replaces a binary by one that is not newer than   *)
(* the process, half extracted or left by an older update, though only the  *)
(* shared verifier's last signature says what was opened.                   *)
THEOREM NothingOldIsInstalled ==
    ASSUME UpdatesAssumption
    PROVE  G!Spec => InstallsAreNewer
<1>1. G!Init => UpdatesInv
  BY UpdatesInit
<1>2. UpdatesInv /\ [G!Next]_(G!vars) => UpdatesInv'
  BY UpdatesStep
<1>3. UpdatesInv /\ [G!Next]_(G!vars) =>
        [\A f \in Files : bin'[f] # bin[f] =>
           IF channel = "develop" THEN bin'[f] >= bin[f] ELSE bin'[f] > running]_(G!vars)
  <2> SUFFICES ASSUME UpdatesInv, G!Next, NEW f \in Files, bin'[f] # bin[f]
               PROVE  IF channel = "develop" THEN bin'[f] >= bin[f] ELSE bin'[f] > running
    OBVIOUS
  <2>1. PICK j \in Jobs, g \in Files : G!Apply(j, g)
    BY DEF G!Next, G!Step, G!Publish, G!AutoUpdate, G!Stops, G!Start, G!UpdateHandler, G!Fails, G!Debounced,
       G!Deploy, G!GetUpgradeReleaseAsset, G!ExtractLoads, G!ExtractApplies, G!Check, G!NoUpgrade, G!Rejected,
       G!UpdateServerSymlink, G!Shutdown, G!Down, G!Quit
  <2> QED  BY <2>1, AppliesNewer DEF UpdatesInv, UpdatesTyped
<1> QED  BY <1>1, <1>2, <1>3, PTL DEF InstallsAreNewer, G!InstallsAreNewer, G!Spec
=============================================================================
