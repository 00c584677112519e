------------------------- MODULE DirtyRestartProofs -------------------------
(***************************************************************************)
(* What holds of DirtyRestart for every set of writers, timers and         *)
(* services and every bound.                                               *)
(***************************************************************************)
EXTENDS DirtyRestart, TLAPS

(* A writer between its commit and startTimer knows the kind it changed.    *)
KindKnown ==
    \A w \in Writers \cup Deleters : wpc[w] \in {"mark", "arm"} => wkind[w] \in Kinds

TypeInv == TypeOK /\ KindKnown

LEMMA StartTimerType ==
    ASSUME TypeOK, StartTimer
    PROVE  /\ tstate' \in [Timers -> {"free", "armed", "fired", "running"}]
           /\ timer' \in Timers
           /\ MutexFree /\ MutexFree'
           /\ tstate'[timer'] = "armed"
           /\ \A t \in Timers : t # timer' =>
                  /\ tstate'[t] = "armed" => t # timer /\ tstate[t] = "armed"
                  /\ tstate'[t] \in {tstate[t], "free"}
  BY DEF TypeOK, StartTimer, MutexFree

LEMMA TypeStep == TypeInv /\ [Next]_vars => TypeInv'
<1> SUFFICES ASSUME TypeInv, [Next]_vars
             PROVE  TypeInv'
  OBVIOUS
<1> USE ProcessAssumption, DataAssumption DEF TypeInv, TypeOK, KindKnown
<1> USE DEF Kinds, ConfigKinds, Content, Runs
<1>1. ASSUME NEW w \in Writers, NEW k \in Changing, Store(w, k)
      PROVE  TypeInv'
  BY <1>1 DEF Store, Commit, WriterStates, trackerVars, runVars, diskVars, serviceVars
<1>2. ASSUME NEW w \in Writers, StoreUnannounced(w)
      PROVE  TypeInv'
  BY <1>2 DEF StoreUnannounced, Commit, trackerVars, runVars, diskVars, serviceVars
<1>3. ASSUME NEW w \in Deleters, AnnounceDelete(w)
      PROVE  TypeInv'
  BY <1>3 DEF AnnounceDelete, WriterStates, trackerVars, runVars, diskVars, serviceVars
<1>4. ASSUME NEW w \in Deleters, Delete(w)
      PROVE  TypeInv'
  BY <1>4 DEF Delete, Commit, WriterStates, trackerVars, runVars, diskVars, serviceVars
<1>5. ASSUME NEW w \in Writers \cup Deleters, Mark(w)
      PROVE  TypeInv'
  BY <1>5 DEF Mark, WriterStates, runVars, diskVars, serviceVars
<1>6. ASSUME NEW w \in Writers \cup Deleters, Arm(w)
      PROVE  TypeInv'
  BY <1>6, StartTimerType DEF Arm, WriterStates, runVars, diskVars, serviceVars
<1>7. ASSUME HealthTick
      PROVE  TypeInv'
  BY <1>7 DEF HealthTick, writerVars, runVars, diskVars
<1>8. ASSUME HealthArm
      PROVE  TypeInv'
  BY <1>8, StartTimerType DEF HealthArm, writerVars, runVars, diskVars, serviceVars
<1>9. ASSUME NEW t \in Timers, Fire(t)
      PROVE  TypeInv'
  BY <1>9 DEF Fire, writerVars, runVars, diskVars, serviceVars
<1>10. ASSUME NEW t \in Timers, Enter(t)
       PROVE  TypeInv'
  BY <1>10 DEF Enter, RunStates, writerVars, diskVars
<1>11. ASSUME NEW t \in Timers, Leave(t)
       PROVE  TypeInv'
  BY <1>11 DEF Leave, Forget, At, Nothing, RunStates, writerVars, diskVars, serviceVars
<1>12. ASSUME NEW a \in Appliers, Apply(a)
       PROVE  TypeInv'
  BY <1>12 DEF Apply, RunStates, writerVars, trackerVars, diskVars, serviceVars
<1>13. ASSUME NEW a \in Appliers, Reply(a)
       PROVE  TypeInv'
  BY <1>13 DEF Reply, Forget, At, Nothing, RunStates, writerVars, trackerVars, diskVars, serviceVars
<1>14. ASSUME NEW r \in Runs, Step(r)
       PROVE  TypeInv'
  <2>1. ASSUME Render(r)
        PROVE  TypeInv'
    BY <2>1 DEF Render, At, Stored, RunStates, writerVars, trackerVars, diskVars, serviceVars
  <2>2. ASSUME Write(r)
        PROVE  TypeInv'
    BY <2>2 DEF Write, At, RunStates, writerVars, trackerVars, serviceVars
  <2>3. ASSUME Test(r)
        PROVE  TypeInv'
    BY <2>3 DEF Test, At, RunStates, writerVars, trackerVars, serviceVars
  <2>4. ASSUME Export(r)
        PROVE  TypeInv'
    BY <2>4 DEF Export, At, Stored, RunStates, writerVars, trackerVars
  <2>5. ASSUME NEW s \in Services, Restart(r, s)
        PROVE  TypeInv'
    BY <2>5 DEF Restart, HardRestart, SoftReload, ConfigOf, writerVars, trackerVars, diskVars
  <2>6. ASSUME Restarted(r) \/ ResetFlags(r) \/ StopTimer(r) \/ ForgetTimer(r)
        PROVE  TypeInv'
    BY ZenonT(60), <2>6 DEF Restarted, ResetFlags, StopTimer, ForgetTimer, At, RunStates,
                writerVars, trackerVars, diskVars, serviceVars
  <2>7. QED
    BY <1>14, <2>1, <2>2, <2>3, <2>4, <2>5, <2>6 DEF Step
<1>15. ASSUME NEW r \in Runs, Fail(r)
       PROVE  TypeInv'
  BY <1>15 DEF Fail, RunStates, writerVars, trackerVars, diskVars, serviceVars
<1>16. ASSUME NEW s \in Services, Die(s) \/ Respawn(s)
       PROVE  TypeInv'
  <2>1. CASE Die(s)
    BY <2>1 DEF Die, writerVars, trackerVars, runVars, diskVars
  <2>2. CASE Respawn(s)
    BY <2>2 DEF Respawn, HardRestart, ConfigOf, writerVars, trackerVars, runVars, diskVars
  <2>3. QED
    BY <1>16, <2>1, <2>2
<1>17. CASE UNCHANGED vars
  BY <1>17 DEF vars, writerVars, trackerVars, runVars, diskVars, serviceVars
<1>18. QED
  BY <1>1, <1>2, <1>3, <1>4, <1>5, <1>6, <1>7, <1>8, <1>9, <1>10, <1>11, <1>12, <1>13, <1>14,
     <1>15, <1>16, <1>17 DEF Next

LEMMA InitType == Init => TypeInv
  BY ProcessAssumption, DataAssumption DEF Init, TypeInv, TypeOK, KindKnown, Kinds, ConfigKinds,
     Content, Nothing, WriterStates, RunStates

(* Every reachable state is well typed, whatever fails or dies.             *)
THEOREM TypeCorrect == Spec => []TypeOK
  BY InitType, TypeStep, PTL DEF Spec, TypeInv

-----------------------------------------------------------------------------
(* timerMutex.  Without /samba/apply the callbacks are the only runs, and   *)
(* the mutex makes them exclude each other.                                 *)

Exclusion ==
    /\ \A t, u \in Timers : tstate[t] = "running" /\ tstate[u] = "running" => t = u
    /\ \A t \in Timers : rpc[t] # "idle" <=> tstate[t] = "running"

LockInv == TypeInv /\ Exclusion /\ ReloadsVetted

LEMMA LockStep ==
    ASSUME Appliers = {}, LockInv, [Next]_vars
    PROVE  (Exclusion /\ ReloadsVetted)'
<1> USE DEF LockInv, TypeInv, TypeOK, Exclusion, ReloadsVetted, Runs, RunStates
<1>1. ASSUME UNCHANGED <<tstate, rpc, smbconf, vetted>>
      PROVE  (Exclusion /\ ReloadsVetted)'
  BY <1>1
<1>2. ASSUME StartTimer, UNCHANGED <<rpc, smbconf, vetted>>
      PROVE  (Exclusion /\ ReloadsVetted)'
  BY <1>2, StartTimerType DEF MutexFree
<1>3. ASSUME NEW t \in Timers, Fire(t)
      PROVE  (Exclusion /\ ReloadsVetted)'
  BY <1>3 DEF Fire, runVars, diskVars
<1>4. ASSUME NEW t \in Timers, Enter(t)
      PROVE  (Exclusion /\ ReloadsVetted)'
  BY <1>4 DEF Enter, MutexFree, diskVars
<1>5. ASSUME NEW t \in Timers, Leave(t)
      PROVE  (Exclusion /\ ReloadsVetted)'
  BY <1>5 DEF Leave, Forget, At, diskVars
<1>6. ASSUME NEW t \in Timers, Step(t)
      PROVE  (Exclusion /\ ReloadsVetted)'
  <2>1. CASE Render(t)
    BY <2>1 DEF Render, At, trackerVars, diskVars
  <2>2. CASE Write(t)
    BY <2>2 DEF Write, At, trackerVars
  <2>3. CASE Test(t)
    BY <2>3 DEF Test, At, trackerVars
  <2>4. CASE Export(t)
    BY <2>4 DEF Export, At, trackerVars
  <2>5. CASE \E s \in Services : Restart(t, s)
    BY <1>1, <2>5 DEF Restart, trackerVars, diskVars
  <2>6. CASE Restarted(t) \/ ResetFlags(t) \/ ForgetTimer(t)
    BY <2>6 DEF Restarted, ResetFlags, ForgetTimer, At, trackerVars, diskVars
  <2>7. CASE StopTimer(t)
    BY <2>7 DEF StopTimer, At, diskVars
  <2>8. QED
    BY <1>6, <2>1, <2>2, <2>3, <2>4, <2>5, <2>6, <2>7 DEF Step
<1>7. ASSUME NEW t \in Timers, Fail(t)
      PROVE  (Exclusion /\ ReloadsVetted)'
  BY <1>7 DEF Fail, trackerVars, diskVars
<1>8. ASSUME NEW w \in Writers \cup Deleters, Arm(w)
      PROVE  (Exclusion /\ ReloadsVetted)'
  BY <1>2, <1>8 DEF Arm, runVars, diskVars
<1>9. ASSUME HealthArm
      PROVE  (Exclusion /\ ReloadsVetted)'
  BY <1>2, <1>9 DEF HealthArm, runVars, diskVars
<1>10. ASSUME \/ \E w \in Writers : (\E k \in Changing : Store(w, k)) \/ StoreUnannounced(w)
              \/ \E w \in Deleters : AnnounceDelete(w) \/ Delete(w)
              \/ \E w \in Writers \cup Deleters : Mark(w)
              \/ HealthTick
              \/ \E s \in Services : Die(s) \/ Respawn(s)
              \/ UNCHANGED vars
       PROVE  (Exclusion /\ ReloadsVetted)'
  <2>1. UNCHANGED <<tstate, rpc, smbconf, vetted>>
    BY <1>10 DEF Store, StoreUnannounced, AnnounceDelete, Delete, Mark, HealthTick, Die, Respawn,
                 vars, trackerVars, runVars, diskVars
  <2>2. QED
    BY <1>1, <2>1
<1>11. QED
  BY <1>3, <1>4, <1>5, <1>6, <1>7, <1>8, <1>9, <1>10 DEF Next

LEMMA LockInit == Init => LockInv
  BY InitType DEF Init, LockInv, Exclusion, ReloadsVetted, Runs

(* Without /samba/apply, whatever fails, the services are only told to load *)
(* a configuration that testparm accepted.                                  *)
THEOREM OnlyVettedIsLoaded ==
    ASSUME Appliers = {}
    PROVE  Spec => []ReloadsVetted
<1>1. LockInv /\ [Next]_vars => LockInv'
  BY LockStep, TypeStep DEF LockInv
<1>2. QED
  BY <1>1, LockInit, PTL DEF Spec, LockInv

-----------------------------------------------------------------------------
(* The stored change and the timer.  Where nothing fails, a change that is  *)
(* not in smb.conf is accounted for by its writer, by the callback that is  *)
(* about to render or write it, or, while no callback runs, by a live timer *)
(* or a flag the health loop will see.  A live timer does not count while a *)
(* callback that has rendered runs: its CLEAN will stop that timer.         *)

Unfailing == Appliers = {} /\ Deleters = {} /\ MayFail = FALSE

WriterHas(k) == \E w \in Writers : wpc[w] \in {"mark", "arm"} /\ wkind[w] = k
Awaited == (\E t \in Timers : tstate[t] # "free") \/ dirty \cap ConfigKinds # {}

Accounted(k) ==
    \/ WriterHas(k)
    \/ \E t \in Timers : rpc[t] = "render"
    \/ \E t \in Timers : rpc[t] = "write" /\ rendered[t][k] = db[k]
    \/ (\A t \in Timers : rpc[t] # "write") /\ smbconf[k] = db[k]
    \/ MutexFree /\ Awaited

(* Past StopTimer no timer is armed, since only startTimer arms one.        *)
OneArmed ==
    /\ ArmedIsReferenced
    /\ \A t \in Timers : rpc[t] \in {"nil", "done"} =>
           \A u \in Timers : tstate[u] # "armed"

PendingInv == (\A k \in ConfigKinds : Accounted(k)) /\ OneArmed

LEMMA PendingStep ==
    ASSUME Unfailing, LockInv, PendingInv, [Next]_vars
    PROVE  PendingInv'
<1> USE DEF LockInv, TypeInv, TypeOK, Exclusion, Runs, RunStates, Unfailing
<1> USE DEF PendingInv, OneArmed, ArmedIsReferenced, Accounted, WriterHas, Awaited, MutexFree
<1>1. ASSUME NEW w \in Writers, NEW kk \in Changing, Store(w, kk)
      PROVE  PendingInv'
  <2>1. OneArmed'
    BY <1>1 DEF Store, trackerVars, runVars
  <2>2. ASSUME NEW k \in ConfigKinds
        PROVE  Accounted(k)'
    <3>1. CASE k = kk
      BY <1>1, <3>1 DEF Store
    <3>2. CASE k # kk
      <4>1. db'[k] = db[k]
        BY <1>1, <3>2 DEF Store, Commit, ConfigKinds, Kinds
      <4>2. WriterHas(k) => WriterHas(k)'
        BY <1>1 DEF Store
      <4>3. QED
        BY <1>1, <4>1, <4>2 DEF Store, trackerVars, runVars, diskVars
    <3>3. QED
      BY <3>1, <3>2
  <2>3. QED
    BY <2>1, <2>2
<1>2. ASSUME NEW w \in Writers, Mark(w)
      PROVE  PendingInv'
  <2>1. \A k \in ConfigKinds : WriterHas(k) => WriterHas(k)'
    BY <1>2 DEF Mark, ConfigKinds
  <2>2. QED
    BY <1>2, <2>1 DEF Mark, runVars, diskVars
<1>3. ASSUME StartTimer, UNCHANGED rpc
      PROVE  PendingInv'
  BY <1>3, StartTimerType
<1>4. ASSUME NEW t \in Timers, Fire(t)
      PROVE  PendingInv'
  <2>1. OneArmed'
    BY <1>4 DEF Fire, runVars
  <2>2. Awaited' /\ (MutexFree => MutexFree')
    BY <1>4 DEF Fire
  <2>3. QED
    BY <1>4, <2>1, <2>2 DEF Fire, writerVars, runVars, diskVars
<1>5. ASSUME NEW t \in Timers, Enter(t)
      PROVE  PendingInv'
  BY <1>5 DEF Enter
<1>6. ASSUME NEW t \in Timers, Leave(t)
      PROVE  PendingInv'
  BY <1>6 DEF Leave, Forget, At, writerVars, diskVars
<1>7. ASSUME NEW t \in Timers, Step(t)
      PROVE  PendingInv'
  <2>1. CASE Render(t)
    BY <2>1 DEF Render, At, Stored, writerVars, trackerVars
  <2>2. CASE Write(t)
    BY <2>2 DEF Write, At, writerVars, trackerVars
  <2>3. CASE Test(t) \/ Export(t) \/ Restarted(t)
    BY <2>3 DEF Test, Export, Restarted, At, writerVars, trackerVars, diskVars
  <2>4. CASE \E s \in Services : Restart(t, s)
    BY <2>4 DEF Restart, writerVars, trackerVars, diskVars
  <2>5. CASE ResetFlags(t)
    BY <2>5 DEF ResetFlags, At, writerVars, diskVars
  <2>6. CASE StopTimer(t)
    BY <2>6 DEF StopTimer, At, writerVars, diskVars
  <2>7. CASE ForgetTimer(t)
    BY <2>7 DEF ForgetTimer, At, writerVars, diskVars
  <2>8. QED
    BY <1>7, <2>1, <2>2, <2>3, <2>4, <2>5, <2>6, <2>7 DEF Step
<1>8. ASSUME HealthTick \/ (\E s \in Services : Die(s) \/ Respawn(s)) \/ UNCHANGED vars
      PROVE  PendingInv'
  BY <1>8 DEF HealthTick, Die, Respawn, vars, writerVars, trackerVars, runVars, diskVars
<1>9. QED
  BY <1>1, <1>2, <1>3, <1>4, <1>5, <1>6, <1>7, <1>8
     DEF Next, Arm, HealthArm, Fail, StoreUnannounced, runVars

LEMMA PendingInit == Init => PendingInv
  BY DEF Init, PendingInv, Accounted, Awaited, MutexFree, OneArmed, ArmedIsReferenced, ConfigKinds,
         Runs

(* Without failures and requests that delete or apply, a stored change that *)
(* is not in smb.conf is never forgotten.                                   *)
THEOREM ChangesArePending ==
    ASSUME Unfailing
    PROVE  Spec => []StaleFileIsPending
<1>1. LockInv /\ PendingInv => StaleFileIsPending
  BY DEF LockInv, Exclusion, PendingInv, Accounted, Awaited, WriterHas, StaleFileIsPending
<1>2. LockInv /\ PendingInv /\ [Next]_vars => (LockInv /\ PendingInv)'
  BY PendingStep, LockStep, TypeStep DEF LockInv, Unfailing
<1>3. QED
  BY <1>1, <1>2, LockInit, PendingInit, PTL DEF Spec

(* ... and the one timer that may be armed is the one p.timer references.   *)
THEOREM OneTimerArmed ==
    ASSUME Unfailing
    PROVE  Spec => []ArmedIsReferenced
<1>1. LockInv /\ PendingInv => ArmedIsReferenced
  BY DEF PendingInv, OneArmed
<1>2. LockInv /\ PendingInv /\ [Next]_vars => (LockInv /\ PendingInv)'
  BY PendingStep, LockStep, TypeStep DEF LockInv, Unfailing
<1>3. QED
  BY <1>1, <1>2, LockInit, PendingInit, PTL DEF Spec

-----------------------------------------------------------------------------
(* The pipeline: data only moves forward.  Between rendering and writing, a *)
(* run's data is no older than the file, since no other run writes.         *)

NotAhead == \A k \in ConfigKinds : smbconf[k] <= db[k]
RenderedIsNewer ==
    \A t \in Timers : rpc[t] = "write" =>
        \A k \in ConfigKinds : smbconf[k] <= rendered[t][k] /\ rendered[t][k] <= db[k]
PipeInv == NotAhead /\ RenderedIsNewer

LEMMA CommitStep ==
    ASSUME TypeInv, NEW k \in Kinds, Commit(k)
    PROVE  \A j \in Kinds : db[j] <= db'[j]
  BY DEF Commit, TypeInv, TypeOK

LEMMA PipeStep ==
    ASSUME Appliers = {}, LockInv, PipeInv, [Next]_vars
    PROVE  PipeInv'
<1> USE DEF LockInv, TypeInv, TypeOK, PipeInv, NotAhead, RenderedIsNewer, Content, Runs
<1>0. /\ ConfigKinds \subseteq Kinds
      /\ \A k \in ConfigKinds : db[k] \in Nat /\ smbconf[k] \in Nat
      /\ \A t \in Timers : \A k \in ConfigKinds : rendered[t][k] \in Nat
  BY DEF ConfigKinds, Kinds
<1>1. ASSUME UNCHANGED <<db, rpc, rendered, smbconf>>
      PROVE  PipeInv'
  BY <1>1
<1>2. ASSUME NEW k \in Kinds, Commit(k), UNCHANGED <<rpc, rendered, smbconf>>
      PROVE  PipeInv'
  <2>1. \A j \in ConfigKinds : db[j] <= db'[j] /\ db'[j] \in Nat
    BY <1>0, <1>2, CommitStep DEF Commit
  <2> QED  BY <1>0, <1>2, <2>1
<1>3. ASSUME NEW w \in Writers \cup Deleters,
             \/ \E k \in Changing : Store(w, k)
             \/ StoreUnannounced(w) \/ AnnounceDelete(w) \/ Delete(w) \/ Mark(w) \/ Arm(w)
      PROVE  PipeInv'
  <2>1. UNCHANGED <<rpc, rendered, smbconf>> /\ (UNCHANGED db \/ \E k \in Kinds : Commit(k))
    BY <1>3, DataAssumption DEF Store, StoreUnannounced, AnnounceDelete, Delete, Mark, Arm,
       runVars, diskVars, Kinds
  <2> QED  BY <1>1, <1>2, <2>1
<1>4. ASSUME HealthTick \/ HealthArm \/ (\E s \in Services : Die(s) \/ Respawn(s))
             \/ UNCHANGED vars
      PROVE  PipeInv'
  BY <1>1, <1>4 DEF HealthTick, HealthArm, Die, Respawn, vars, writerVars, runVars, diskVars
<1>5. ASSUME NEW t \in Timers, Fire(t)
      PROVE  PipeInv'
  BY <1>1, <1>5 DEF Fire, writerVars, runVars, diskVars
<1>6. ASSUME NEW t \in Timers, UNCHANGED <<db, smbconf>>,
             \/ rpc' = [rpc EXCEPT ![t] = rpc'[t]] /\ rpc'[t] # "write" /\ rendered' = rendered
             \/ rpc' = [rpc EXCEPT ![t] = "idle"]
                /\ rendered' = [rendered EXCEPT ![t] = Nothing]
      PROVE  PipeInv'
  BY <1>6
<1>7. ASSUME NEW t \in Timers, Enter(t) \/ Leave(t) \/ Fail(t)
      PROVE  PipeInv'
  BY <1>6, <1>7 DEF Enter, Leave, Fail, Forget, At, writerVars, diskVars
<1>8. ASSUME NEW t \in Timers, Step(t)
      PROVE  PipeInv'
  <2>1. CASE Render(t)
    BY <1>0, <2>1 DEF Render, At, Stored, writerVars, diskVars
  <2>2. CASE Write(t)
    <3>1. /\ rpc[t] = "write" /\ rpc' = [rpc EXCEPT ![t] = "test"]
          /\ smbconf' = rendered[t] /\ UNCHANGED <<db, rendered>>
      BY <2>2 DEF Write, At, writerVars
    <3>2. \A u \in Timers : rpc'[u] # "write"
      BY <3>1 DEF Exclusion
    <3> QED  BY <1>0, <3>1, <3>2
  <2>3. CASE Test(t) \/ Export(t) \/ Restarted(t) \/ ResetFlags(t) \/ StopTimer(t) \/ ForgetTimer(t)
    BY <1>6, <2>3 DEF Test, Export, Restarted, ResetFlags, StopTimer, ForgetTimer, At,
       writerVars, diskVars
  <2>4. CASE \E s \in Services : Restart(t, s)
    BY <1>1, <2>4 DEF Restart, writerVars, diskVars
  <2> QED  BY <1>8, <2>1, <2>2, <2>3, <2>4 DEF Step
<1> QED
  BY <1>3, <1>4, <1>5, <1>7, <1>8 DEF Next

LEMMA PipelineStep ==
    ASSUME Appliers = {}, LockInv, PipeInv, [Next]_vars
    PROVE  [Pipeline!Next]_(Pipeline!vars)
<1> DEFINE used == [s \in Services \ {"nfsd"} |-> loaded[s]]
<1> USE DEF LockInv, TypeInv, TypeOK, Content
<1> SUFFICES Pipeline!Next \/ UNCHANGED Pipeline!vars
  OBVIOUS
<1>1. ASSUME UNCHANGED <<db, smbconf, loaded>>
      PROVE  UNCHANGED Pipeline!vars
  BY <1>1 DEF Pipeline!vars, Stored
<1>2. ASSUME NEW k \in Kinds, Commit(k), UNCHANGED <<smbconf, loaded>>
      PROVE  Pipeline!Next \/ UNCHANGED Pipeline!vars
  <2>1. UNCHANGED used
    BY <1>2
  <2>2. CASE k \in ConfigKinds
    <3>1. Stored' = [Stored EXCEPT ![k] = Stored[k] + 1]
      BY <1>2, <2>2 DEF Commit, Stored, ConfigKinds, Kinds
    <3> QED  BY <1>2, <2>1, <2>2, <3>1 DEF Pipeline!Next, Pipeline!Change
  <2>3. CASE k \notin ConfigKinds
    <3>1. Stored' = Stored
      BY <1>2, <2>3 DEF Commit, Stored, ConfigKinds, Kinds
    <3> QED  BY <1>2, <2>1, <3>1 DEF Pipeline!vars
  <2> QED  BY <2>2, <2>3
<1>3. ASSUME NEW w \in Writers \cup Deleters,
             \/ \E k \in Changing : Store(w, k)
             \/ StoreUnannounced(w) \/ AnnounceDelete(w) \/ Delete(w) \/ Mark(w) \/ Arm(w)
      PROVE  Pipeline!Next \/ UNCHANGED Pipeline!vars
  <2>1. UNCHANGED <<smbconf, loaded>> /\ (UNCHANGED db \/ \E k \in Kinds : Commit(k))
    BY <1>3, DataAssumption DEF Store, StoreUnannounced, AnnounceDelete, Delete, Mark, Arm,
       runVars, diskVars, serviceVars, Kinds
  <2> QED  BY <1>1, <1>2, <2>1
<1>4. ASSUME NEW s \in Services, UNCHANGED <<db, smbconf>>,
             loaded' \in [Services -> [ConfigKinds -> Nat]],
             \A r \in Services \ {s} : loaded'[r] = loaded[r],
             \A k \in ConfigKinds : loaded'[s][k] \in {loaded[s][k], ConfigOf(s)[k]}
      PROVE  Pipeline!Next \/ UNCHANGED Pipeline!vars
  <2>1. UNCHANGED Stored
    BY <1>4 DEF Stored
  <2>2. CASE s = "nfsd"
    <3>1. UNCHANGED used
      BY <1>4, <2>2
    <3> QED  BY <1>4, <2>1, <3>1 DEF Pipeline!vars
  <2>3. CASE s # "nfsd"
    <3>1. /\ used' \in [Services \ {"nfsd"} -> [ConfigKinds -> Nat]]
          /\ \A k \in ConfigKinds : used'[s][k] \in {used[s][k], smbconf[k]}
          /\ \A r \in (Services \ {"nfsd"}) \ {s} : used'[r] = used[r]
      BY <1>4, <2>3 DEF ConfigOf
    <3>2. Pipeline!Take(s)
      BY <1>4, <2>1, <2>3, <3>1 DEF Pipeline!Take
    <3> QED  BY <2>3, <3>2 DEF Pipeline!Next
  <2> QED  BY <2>2, <2>3
<1>5. ASSUME NEW s \in Services, UNCHANGED <<db, smbconf, exports>>,
             HardRestart(s) \/ SoftReload(s)
      PROVE  Pipeline!Next \/ UNCHANGED Pipeline!vars
  <2>1. ConfigOf(s) \in [ConfigKinds -> Nat]
    BY DEF ConfigOf
  <2>2. CASE UNCHANGED loaded
    BY <1>1, <1>5, <2>2
  <2>3. ASSUME NEW got \in [ConfigKinds -> Nat], loaded' = [loaded EXCEPT ![s] = got],
               \A k \in ConfigKinds : got[k] \in {loaded[s][k], ConfigOf(s)[k]}
        PROVE  Pipeline!Next \/ UNCHANGED Pipeline!vars
    BY <1>4, <1>5, <2>3
  <2>4. CASE HardRestart(s)
    BY <2>1, <2>3, <2>4 DEF HardRestart
  <2>5. CASE SoftReload(s)
    <3> DEFINE got == [k \in ConfigKinds |-> IF k \in SoftMask[s] THEN ConfigOf(s)[k]
                                             ELSE loaded[s][k]]
    <3>1. got \in [ConfigKinds -> Nat]
      BY <2>1
    <3> QED  BY <2>2, <2>3, <2>5, <3>1 DEF SoftReload
  <2> QED  BY <1>5, <2>4, <2>5
<1>6. ASSUME NEW t \in Timers, Write(t)
      PROVE  Pipeline!Publish
  <2>1. /\ smbconf' = rendered[t] /\ rpc[t] = "write" /\ UNCHANGED <<db, loaded>>
    BY <1>6 DEF Write, At, writerVars, serviceVars
  <2>2. /\ smbconf' \in [ConfigKinds -> Nat]
        /\ \A k \in ConfigKinds : smbconf'[k] >= smbconf[k] /\ Stored[k] >= smbconf'[k]
    BY <2>1 DEF PipeInv, RenderedIsNewer, Stored, Runs, ConfigKinds, Kinds
  <2>3. UNCHANGED <<Stored, used>>
    BY <2>1 DEF Stored
  <2> QED  BY <2>2, <2>3 DEF Pipeline!Publish, Pipeline!NotOlder
<1>7. ASSUME NEW t \in Timers, Step(t) \/ Fail(t) \/ Fire(t) \/ Enter(t) \/ Leave(t)
      PROVE  Pipeline!Next \/ UNCHANGED Pipeline!vars
  <2>1. CASE \E s \in Services : Restart(t, s)
    <3>1. PICK s \in Services : Restart(t, s)
      BY <2>1
    <3> QED  BY <1>1, <1>5, <3>1 DEF Restart, writerVars, diskVars
  <2>2. CASE Write(t)
    BY <1>6, <2>2 DEF Pipeline!Next
  <2>3. CASE Render(t) \/ Test(t) \/ Export(t) \/ Restarted(t) \/ ResetFlags(t) \/ StopTimer(t)
             \/ ForgetTimer(t) \/ Fail(t) \/ Fire(t) \/ Enter(t) \/ Leave(t)
    BY <1>1, <2>3 DEF Render, Test, Export, Restarted, ResetFlags, StopTimer, ForgetTimer, Fail,
       Fire, Enter, Leave, writerVars, diskVars, serviceVars
  <2> QED  BY <1>7, <2>1, <2>2, <2>3 DEF Step
<1>8. ASSUME NEW s \in Services, Die(s) \/ Respawn(s)
      PROVE  Pipeline!Next \/ UNCHANGED Pipeline!vars
  BY <1>1, <1>5, <1>8 DEF Die, Respawn, writerVars, diskVars
<1>9. ASSUME HealthTick \/ HealthArm \/ UNCHANGED vars
      PROVE  Pipeline!Next \/ UNCHANGED Pipeline!vars
  BY <1>1, <1>9 DEF HealthTick, HealthArm, vars, writerVars, diskVars, serviceVars
<1> QED
  BY <1>3, <1>7, <1>8, <1>9 DEF Next, Runs

(* DirtyRestart implements ConfigPipeline unless somebody applies by hand:  *)
(* whatever fails, dies or is deleted, smb.conf and the services only move  *)
(* forward to data that was stored.                                         *)
THEOREM ImplementsPipeline ==
    ASSUME Appliers = {}
    PROVE  Spec => NeverGoesBack
<1>1. Init => PipeInv /\ Pipeline!Init
  BY DEF Init, PipeInv, NotAhead, RenderedIsNewer, Pipeline!Init, Stored, Nothing, Runs,
     ConfigKinds, Kinds
<1>2. LockInv /\ PipeInv /\ [Next]_vars => LockInv' /\ PipeInv'
  BY PipeStep, LockStep, TypeStep DEF LockInv
<1>3. LockInv /\ PipeInv /\ [Next]_vars => [Pipeline!Next]_(Pipeline!vars)
  BY PipelineStep
<1> QED
  BY <1>1, <1>2, <1>3, LockInit, PTL DEF Spec, NeverGoesBack, Pipeline!Spec
-----------------------------------------------------------------------------
(* CLEAN.  Once a run has written, the file is what it rendered, and while  *)
(* it visits the services, those it has behind it have taken from the file  *)
(* what its flags ask for.  A service that has a process is in the status   *)
(* when its turn comes, so its turn is not skipped.                         *)

OwnFile ==
    \A t \in Timers : rpc[t] \in {"test", "export", "reload", "reset"} => smbconf = rendered[t]

Visited(t) == managed \ (todo[t] \cup {"nfsd"})
Took(t, s) == \A k \in mask[t] \cap (SoftMask[s] \cup HardMask[s]) : loaded[s][k] = smbconf[k]

VisitedTook ==
    \A t \in Timers : rpc[t] \in {"reload", "reset"} =>
        /\ rpc[t] = "reset" => todo[t] = {}
        /\ todo[t] \cap up \subseteq status
        /\ \A s \in Visited(t) \cap up : Took(t, s)

CleanInv == OwnFile /\ VisitedTook

LEMMA CleanStep ==
    ASSUME Appliers = {}, LockInv, CleanInv, [Next]_vars
    PROVE  CleanInv'
<1> USE DEF LockInv, TypeInv, TypeOK, CleanInv, OwnFile, VisitedTook, Visited, Took, Runs
<1>1. ASSUME UNCHANGED <<runVars, smbconf, managed, up, loaded>>, status \subseteq status'
      PROVE  CleanInv'
  BY <1>1 DEF runVars
<1>2. ASSUME NEW w \in Writers \cup Deleters,
             \/ \E k \in Changing : Store(w, k)
             \/ StoreUnannounced(w) \/ AnnounceDelete(w) \/ Delete(w) \/ Mark(w) \/ Arm(w)
      PROVE  CleanInv'
  BY <1>1, <1>2 DEF Store, StoreUnannounced, AnnounceDelete, Delete, Mark, Arm, diskVars,
     serviceVars
<1>3. CASE HealthTick \/ HealthArm \/ UNCHANGED vars
  BY <1>1, <1>3 DEF HealthTick, HealthArm, vars, diskVars, serviceVars
<1>4. ASSUME NEW t \in Timers, Fire(t)
      PROVE  CleanInv'
  BY <1>1, <1>4 DEF Fire, diskVars, serviceVars
<1>5. ASSUME NEW t \in Timers, Enter(t)
      PROVE  CleanInv'
  BY <1>5 DEF Enter, MutexFree, Exclusion, diskVars
<1>6. ASSUME NEW t \in Timers, Leave(t)
      PROVE  CleanInv'
  BY <1>6 DEF Leave, Forget, At, diskVars, serviceVars
<1>7. ASSUME NEW t \in Timers, Step(t) \/ Fail(t)
      PROVE  CleanInv'
  <2>0. \A u \in Timers \ {t} : rpc[u] = "idle"
    BY <1>7 DEF Exclusion, Step, Fail, At, Render, Write, Test, Export, Restart, Restarted,
       ResetFlags, StopTimer, ForgetTimer
  <2>1. CASE Render(t)
    BY <2>0, <2>1 DEF Render, At
  <2>2. CASE Write(t)
    BY <2>0, <2>2 DEF Write, At
  <2>3. CASE Test(t)
    BY <2>0, <2>3 DEF Test, At
  <2>4. CASE Export(t)
    BY <2>0, <2>4 DEF Export, At
  <2>5. ASSUME NEW s \in Services, Restart(t, s)
        PROVE  CleanInv'
    <3>1. /\ rpc[t] = "reload" /\ s \in todo[t] /\ todo' = [todo EXCEPT ![t] = @ \ {s}]
          /\ UNCHANGED <<rpc, mask, rendered, smbconf, exports, managed, status>>
      BY <2>5 DEF Restart, diskVars
    <3>2. \A r \in Services \ {s} : (r \in up' <=> r \in up) /\ loaded'[r] = loaded[r]
      BY <2>5 DEF Restart, HardRestart, SoftReload
    <3>3. ASSUME s # "nfsd", s \in up'
          PROVE  \A k \in mask[t] \cap (SoftMask[s] \cup HardMask[s]) : loaded'[s][k] = smbconf[k]
      <4>1. CASE HardRestart(s)
        BY <3>3, <4>1 DEF HardRestart, ConfigOf
      <4>2. CASE mask[t] \cap HardMask[s] = {} /\ SoftReload(s)
        <5>1. SoftMask[s] \subseteq ConfigKinds
          BY DataAssumption DEF SoftMask, ConfigKinds
        <5> QED  BY <3>3, <4>2, <5>1 DEF SoftReload, ConfigOf
      <4>3. CASE mask[t] \cap (HardMask[s] \cup SoftMask[s]) = {}
        BY <4>3
      <4>4. CASE s \notin status /\ s \in up
        BY <3>1, <4>4
      <4> QED  BY <2>5, <4>1, <4>2, <4>3, <4>4 DEF Restart
    <3> QED  BY <2>0, <3>1, <3>2, <3>3
  <2>6. CASE Restarted(t)
    BY <2>0, <2>6 DEF Restarted, At, diskVars, serviceVars
  <2>7. CASE ResetFlags(t) \/ StopTimer(t) \/ ForgetTimer(t) \/ Fail(t)
    BY <2>0, <2>7 DEF ResetFlags, StopTimer, ForgetTimer, Fail, At, diskVars, serviceVars
  <2> QED  BY <1>7, <2>1, <2>2, <2>3, <2>4, <2>5, <2>6, <2>7 DEF Step
<1>8. ASSUME NEW s \in Services, Die(s)
      PROVE  CleanInv'
  BY <1>8 DEF Die, runVars, diskVars
<1>9. ASSUME NEW s \in Services, Respawn(s)
      PROVE  CleanInv'
  <2>1. /\ UNCHANGED <<rpc, mask, rendered, todo, smbconf, managed, status>>
        /\ s \in status /\ up' = up \cup {s}
        /\ s # "nfsd" => loaded'[s] = smbconf
        /\ \A r \in Services \ {s} : loaded'[r] = loaded[r]
    BY <1>9 DEF Respawn, HardRestart, ConfigOf, runVars, diskVars
  <2> QED  BY <2>1
<1> QED
  BY <1>2, <1>3, <1>4, <1>5, <1>6, <1>7, <1>8, <1>9 DEF Next

(* Without /samba/apply, CLEAN is only reported when every service that     *)
(* lives on smb.conf has taken what the run rendered, whatever fails and    *)
(* whichever service dies and comes back meanwhile.                         *)
THEOREM CleanIsDeserved ==
    ASSUME Appliers = {}
    PROVE  Spec => []CleanReported
<1>1. Init => CleanInv
  BY DEF Init, CleanInv, OwnFile, VisitedTook, Runs
<1>2. LockInv /\ CleanInv /\ [Next]_vars => LockInv' /\ CleanInv'
  BY CleanStep, LockStep, TypeStep DEF LockInv
<1>3. LockInv /\ CleanInv => CleanReported
  BY DEF CleanInv, OwnFile, VisitedTook, Visited, Took, CleanReported, Runs
<1> QED
  BY <1>1, <1>2, <1>3, LockInit, PTL DEF Spec
=============================================================================
