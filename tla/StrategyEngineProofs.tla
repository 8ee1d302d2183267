------------------------ MODULE StrategyEngineProofs ------------------------
(***************************************************************************)
(* Theorems about StrategyEngine, for every set of callers, labels and     *)
(* thread ids: type correctness, mutual exclusion under mtx2 and mtx3,     *)
(* and, for the single caller of the shipped program, that its engine      *)
(* cannot die of a race or of a dangling iterator, that every strategy     *)
(* thread is waited for, and that it implements StrategyLifecycle.         *)
(***************************************************************************)
EXTENDS StrategyEngine, TLAPS

(* A caller inside a command has the label the command is about, and one that *)
(* is at addThread the id of a thread it created: without it StartInsert and   *)
(* the inserts of addThread could store None.                                  *)
Bound == \A c \in Callers : /\ pc[c] # "idle" => arg[c] \in Labels
                            /\ pc[c] \in AddOrJoin => tid[c] \in ThreadIds
Typed == TypeOK /\ Bound

(* The process dies into a well-typed state. *)
LEMMA DieType == ASSUME NEW cause \in Causes, Die(cause) PROVE Typed'
  BY DEF Die, Typed, TypeOK, Bound, PC, Ops, RunnerStates, AddOrJoin

(* Every step of a caller preserves the types. *)
LEMMA CallerType == ASSUME Typed, NEW c \in Callers, CallerStep(c) PROVE Typed'
<1> USE DEF Typed, TypeOK, Bound, AddOrJoin, PC, Ops, StartPC, StopPC, RemovePC, RunnerStates, At, Goto, Finish,
            callerVars, runnerVars, mapVars
<1>1. CASE CallStart(c) \/ CallStop(c) \/ CallRemove(c)
  BY <1>1 DEF CallStart, CallStop, CallRemove, Call
<1>2. CASE AddStrategy(c)
  BY <1>2 DEF AddStrategy
<1>3. CASE StartLock(c) \/ TellOnline(c)
  BY <1>3 DEF StartLock, TellOnline
<1>19. CASE StartInsert(c)
  BY <1>19 DEF StartInsert
<1>4. CASE StartCheck(c)
  BY <1>4 DEF StartCheck, LeaveStart, FailStart
<1>5. CASE StartInit(c)
  BY <1>5, DieType DEF StartInit, FailStart, Causes
<1>6. CASE StartSpawn(c)
  BY <1>6 DEF StartSpawn, FailStart
<1>7. CASE AddThread(c)
  BY <1>7 DEF AddThread
<1>8. CASE AddLabel(c)
  BY <1>8 DEF AddLabel
<1>9. CASE AddId(c)
  BY <1>9 DEF AddId
<1>10. CASE JoinAt(c)
  BY <1>10 DEF JoinAt, LeaveStart, FailStart
<1>11. CASE Join(c)
  BY <1>11 DEF Join, LeaveStart
<1>12. CASE Dangles(c) \/ JoinFreed(c) \/ ErasesEnd(c) \/ RemoveStale(c)
  BY <1>12, DieType DEF Dangles, JoinFreed, ErasesEnd, RemoveStale, Causes, OwnCauses
<1>13. CASE StopLock(c)
  BY <1>13 DEF StopLock
<1>14. CASE StopCheck(c)
  BY <1>14 DEF StopCheck, LeaveStop
<1>15. CASE StopInterrupt(c)
  BY <1>15 DEF StopInterrupt, Mapped
<1>16. CASE StopErase(c)
  BY <1>16 DEF StopErase, LeaveStop
<1>17. CASE RemoveCheck(c)
  BY <1>17 DEF RemoveCheck
<1>18. CASE RemoveErase(c)
  BY <1>18 DEF RemoveErase
<1> QED
  BY <1>1, <1>2, <1>3, <1>4, <1>5, <1>6, <1>7, <1>8, <1>9, <1>10, <1>11, <1>12,
     <1>13, <1>14, <1>15, <1>16, <1>17, <1>18, <1>19
     DEF CallerStep, StartStep, StopStep, RemoveStep

LEMMA RunnerType == ASSUME Typed, NEW t \in ThreadIds, RunnerStep(t) PROVE Typed'
<1>1. CASE RunnerEnter(t) \/ RunnerLook(t) \/ RunnerCycle(t)
  BY <1>1 DEF RunnerEnter, RunnerLook, RunnerCycle, Typed, TypeOK, Bound, RunnerStates,
              callerVars, mapVars
<1>2. CASE RunnerUnknown(t) \/ RunnerThrows(t)
  BY <1>2, DieType DEF RunnerUnknown, RunnerThrows, Causes, OwnCauses
<1> QED
  BY <1>1, <1>2 DEF RunnerStep

-----------------------------------------------------------------------------
(* Any number of callers.                                                  *)

(* A thread that a caller has created and not yet waited for runs the      *)
(* strategy of that caller's command.  It is inductive only with           *)
(* LocksGuard: a second caller between spawn and join could be given the   *)
(* same thread id once the first one's thread has ended.                   *)
OwnThread == \A c \in Callers :
               pc[c] \in AddOrJoin /\ Live(tid[c]) => rlabel[tid[c]] = arg[c]

Shared == Typed /\ LocksGuard /\ OwnThread

LEMMA DieShared == ASSUME NEW cause \in Causes, Die(cause) PROVE Shared'
<1>1. LocksGuard'
  BY NoneAssumption DEF Die, LocksGuard, StartPC, StopPC
<1>2. OwnThread'
  BY DEF Die, OwnThread, AddOrJoin
<1> QED
  BY <1>1, <1>2, DieType DEF Shared

(* Every step of a caller respects the two mutexes. *)
LEMMA CallerLocks ==
  ASSUME Typed, LocksGuard, NEW c \in Callers, CallerStep(c) PROVE LocksGuard'
<1> USE NoneAssumption DEF Typed, TypeOK, LocksGuard, StartPC, StopPC, At, Goto, Finish
<1>1. CASE CallStart(c) \/ CallStop(c) \/ CallRemove(c)
  BY <1>1 DEF CallStart, CallStop, CallRemove, Call
<1>2. CASE AddStrategy(c)
  BY <1>2 DEF AddStrategy, callerVars
<1>3. CASE StartLock(c) \/ TellOnline(c)
  BY <1>3 DEF StartLock, TellOnline
<1>4. CASE StartCheck(c)
  BY <1>4 DEF StartCheck, LeaveStart, FailStart
<1>5. CASE StartInsert(c) \/ StartInit(c)
  BY <1>5, DieShared DEF StartInsert, StartInit, FailStart, Causes, Shared
<1>6. CASE StartSpawn(c)
  BY <1>6 DEF StartSpawn, FailStart
<1>7. CASE AddThread(c) \/ AddLabel(c) \/ AddId(c)
  BY <1>7 DEF AddThread, AddLabel, AddId
<1>8. CASE JoinAt(c)
  BY <1>8 DEF JoinAt, LeaveStart, FailStart
<1>9. CASE Join(c)
  BY <1>9 DEF Join, LeaveStart
<1>10. CASE Dangles(c) \/ JoinFreed(c) \/ ErasesEnd(c) \/ RemoveStale(c)
  BY <1>10, DieShared DEF Dangles, JoinFreed, ErasesEnd, RemoveStale, Causes, OwnCauses, Shared
<1>11. CASE StopLock(c)
  BY <1>11 DEF StopLock
<1>12. CASE StopCheck(c)
  BY <1>12 DEF StopCheck, LeaveStop
<1>13. CASE StopInterrupt(c)
  BY <1>13 DEF StopInterrupt
<1>14. CASE StopErase(c)
  BY <1>14 DEF StopErase, LeaveStop
<1>15. CASE RemoveCheck(c) \/ RemoveErase(c)
  BY <1>15 DEF RemoveCheck, RemoveErase
<1> QED
  BY <1>1, <1>2, <1>3, <1>4, <1>5, <1>6, <1>7, <1>8, <1>9, <1>10, <1>11, <1>12,
     <1>13, <1>14, <1>15
     DEF CallerStep, StartStep, StopStep, RemoveStep

(* Every step of a caller keeps OwnThread; only StartSpawn starts a thread. *)
LEMMA CallerOwns ==
  ASSUME Shared, NEW c \in Callers, CallerStep(c) PROVE OwnThread'
<1> USE DEF Shared, Typed, TypeOK, Bound, OwnThread, AddOrJoin, Live, At, Goto, Finish,
            runnerVars
<1>1. CASE CallStart(c) \/ CallStop(c) \/ CallRemove(c)
  BY <1>1 DEF CallStart, CallStop, CallRemove, Call
<1>2. CASE AddStrategy(c)
  BY <1>2 DEF AddStrategy, callerVars
<1>3. CASE StartLock(c) \/ TellOnline(c) \/ StartInsert(c)
  BY <1>3 DEF StartLock, TellOnline, StartInsert
<1>4. CASE StartCheck(c) \/ StartInit(c)
  BY <1>4, DieShared DEF StartCheck, StartInit, LeaveStart, FailStart, Causes
<1>5. CASE StartSpawn(c)
  <2>1. CASE FailStart(c) /\ UNCHANGED runnerVars
    BY <2>1 DEF FailStart
  <2>2. CASE ~(FailStart(c) /\ UNCHANGED runnerVars)
    <3>1. PICK t \in ThreadIds : /\ ~Live(t)
                                 /\ rlabel' = [rlabel EXCEPT ![t] = arg[c]]
                                 /\ tid' = [tid EXCEPT ![c] = t]
                                 /\ pc' = [pc EXCEPT ![c] = "add_thread"]
                                 /\ UNCHANGED arg
      BY <1>5, <2>2 DEF StartSpawn
    <3>2. \A d \in Callers \ {c} : pc[d] \notin AddOrJoin
      <4>1. \A d \in Callers : pc[d] \in StartPC => mtx3 = d
        BY DEF LocksGuard
      <4> QED
        BY <4>1, <1>5 DEF StartSpawn, StartPC
    <3> QED
      BY <3>1, <3>2
  <2> QED
    BY <2>1, <2>2
<1>6. CASE AddThread(c) \/ AddLabel(c) \/ AddId(c)
  BY <1>6 DEF AddThread, AddLabel, AddId
<1>7. CASE JoinAt(c) \/ Join(c)
  BY <1>7 DEF JoinAt, Join, LeaveStart, FailStart
<1>8. CASE Dangles(c) \/ JoinFreed(c) \/ ErasesEnd(c) \/ RemoveStale(c)
  BY <1>8, DieShared DEF Dangles, JoinFreed, ErasesEnd, RemoveStale, Causes, OwnCauses
<1>9. CASE StopLock(c) \/ StopInterrupt(c)
  BY <1>9 DEF StopLock, StopInterrupt
<1>10. CASE StopCheck(c) \/ StopErase(c)
  BY <1>10 DEF StopCheck, StopErase, LeaveStop
<1>11. CASE RemoveCheck(c) \/ RemoveErase(c)
  BY <1>11 DEF RemoveCheck, RemoveErase
<1> QED
  BY <1>1, <1>2, <1>3, <1>4, <1>5, <1>6, <1>7, <1>8, <1>9, <1>10, <1>11
     DEF CallerStep, StartStep, StopStep, RemoveStep

(* A strategy thread leaves the mutexes and the callers alone. *)
LEMMA RunnerShared ==
  ASSUME Shared, NEW t \in ThreadIds, RunnerStep(t) PROVE Shared'
<1>1. CASE RunnerEnter(t) \/ RunnerLook(t) \/ RunnerCycle(t)
  <2> USE DEF RunnerEnter, RunnerLook, RunnerCycle, callerVars
  <2>1. LocksGuard'
    BY <1>1 DEF Shared, LocksGuard
  <2>2. OwnThread'
    BY <1>1 DEF Shared, Typed, TypeOK, Bound, OwnThread, Live, AddOrJoin
  <2> QED
    BY <2>1, <2>2, RunnerType DEF Shared
<1>2. CASE RunnerUnknown(t) \/ RunnerThrows(t)
  BY <1>2, DieShared DEF RunnerUnknown, RunnerThrows, Causes, OwnCauses
<1> QED
  BY <1>1, <1>2 DEF RunnerStep

LEMMA InitShared == Init => Shared
<1> SUFFICES ASSUME Init PROVE Shared
  OBVIOUS
<1>1. Typed
  BY DEF Init, Typed, TypeOK, Bound, AddOrJoin, PC, Ops, RunnerStates, Causes
<1>2. LocksGuard
  BY NoneAssumption DEF Init, LocksGuard, StartPC, StopPC
<1>3. OwnThread
  BY DEF Init, OwnThread, AddOrJoin
<1> QED
  BY <1>1, <1>2, <1>3 DEF Shared

LEMMA SharedStep == Shared /\ [Next]_vars => Shared'
<1> SUFFICES ASSUME Shared, [Next]_vars PROVE Shared'
  OBVIOUS
<1>1. CASE \E c \in Callers : CallerStep(c)
  BY <1>1, CallerType, CallerLocks, CallerOwns DEF Shared
<1>2. CASE \E t \in ThreadIds : RunnerStep(t)
  BY <1>2, RunnerShared
<1>3. CASE DataRace
  BY <1>3, DieShared DEF DataRace, Causes, OwnCauses
<1>4. CASE UNCHANGED vars
  BY <1>4 DEF vars, callerVars, runnerVars, mapVars, Shared, Typed, TypeOK, Bound,
              LocksGuard, OwnThread, Live
<1> QED
  BY <1>1, <1>2, <1>3, <1>4 DEF Next, Running, Dead

LEMMA SharedInvariant == Spec => []Shared
BY InitShared, SharedStep, PTL DEF Spec

(***************************************************************************)
(* Every reachable state of the engine is well typed.                      *)
(***************************************************************************)
THEOREM TypeCorrect == Spec => []TypeOK
<1>1. Shared => TypeOK
  BY DEF Shared, Typed
<1> QED
  BY <1>1, SharedInvariant, PTL

(***************************************************************************)
(* However many threads execute commands, at most one is inside            *)
(* activateStrategy and at most one inside deactivateStrategy, and a mutex *)
(* is held by nobody else.                                                 *)
(***************************************************************************)
THEOREM MutualExclusion == Spec => []LocksGuard
<1>1. Shared => LocksGuard
  BY DEF Shared
<1> QED
  BY <1>1, SharedInvariant, PTL

(***************************************************************************)
(* A caller in join() waits for the thread that its own Start created.     *)
(***************************************************************************)
THEOREM JoinIsOwn == Spec => []JoinsOwnThread
<1>1. Shared => JoinsOwnThread
  BY DEF Shared, OwnThread, JoinsOwnThread, At, AddOrJoin
<1> QED
  BY <1>1, SharedInvariant, PTL

-----------------------------------------------------------------------------
(* One caller, as in the shipped program.                                  *)

(* What the caller still knows of its first lookups.  Only it adds, starts, *)
(* stops or removes, so a label it looked up stays registered and, from     *)
(* insert to join, active.                                                  *)
Lookups ==
  \A c \in Callers :
    /\ pc[c] # "idle" => arg[c] \in strategies
    /\ pc[c] \in {"start_init", "start_spawn"} \cup AddOrJoin => arg[c] \in active
    /\ op[c] # "remove_stale"

(* The maps hold at most the thread of the caller's own Start, and the      *)
(* caller that added it does not leave addThread: a Stop finds no thread.   *)
MapsOwn ==
  /\ \A t \in ThreadIds : thread_map[t] # "absent" =>
       \E c \in Callers : tid[c] = t /\ pc[c] \in AddOrJoin
  /\ \A c \in Callers :
       /\ pc[c] \in AddOrJoin => Live(tid[c])
       /\ pc[c] \in AddOrJoin \ {"add_thread"} => thread_map[tid[c]] = "joinable"
       /\ pc[c] = "add_thread" => thread_map[tid[c]] = "absent"

Alone == Shared /\ NoOwnFault /\ RunnerIsWaitedFor /\ Lookups /\ MapsOwn

(* What Alone adds to Shared. *)
AloneOnly == NoOwnFault /\ RunnerIsWaitedFor /\ Lookups /\ MapsOwn

(* No thread runs a strategy while the caller is not in addThread, and the  *)
(* maps are empty until it is past the first insert.                        *)
LEMMA Quiet ==
  ASSUME SingleCaller, Alone, NEW c \in Callers, pc[c] \notin AddOrJoin
  PROVE  \A t \in ThreadIds : ~Live(t) /\ thread_map[t] = "absent"
  BY DEF SingleCaller, Alone, RunnerIsWaitedFor, MapsOwn

(* A death in the requests of a cycle or of a Start leaves the invariant intact. *)
LEMMA DieAlone ==
  ASSUME NEW cause \in {"cycle_failure", "init_failure"}, Die(cause) PROVE Alone'
<1>1. RunnerIsWaitedFor'
  BY DEF Die, RunnerIsWaitedFor, Live
<1>2. NoOwnFault' /\ Lookups' /\ MapsOwn'
  BY DEF Die, NoOwnFault, OwnCauses, Lookups, MapsOwn, AddOrJoin
<1> QED
  BY <1>1, <1>2, DieShared DEF Alone, Causes

(* With one caller no data race, dangling iterator or freed thread can be   *)
(* reached: the cases of Next that kill the process otherwise.              *)
LEMMA NoRace == ASSUME SingleCaller, Alone PROVE ~Race
<1>1. ASSUME NEW c \in Callers, NEW t \in ThreadIds,
             CallerWrites(c) \cap RunnerReads(t) # {}
      PROVE FALSE
  <2>1. Live(t)
    BY <1>1 DEF RunnerReads, Live
  <2>2. pc[c] \in AddOrJoin
    BY <2>1, <1>1, Quiet
  <2>3. CallerWrites(c) \subseteq {"maps"}
    BY <2>2 DEF AddOrJoin, CallerWrites
  <2>4. "maps" \notin RunnerReads(t)
    BY DEF RunnerReads
  <2> QED
    BY <1>1, <2>3, <2>4
<1> QED
  BY <1>1 DEF Race, SingleCaller

LEMMA NoUndefinedAccess ==
  ASSUME SingleCaller, Alone, NEW c \in Callers
  PROVE  ~Dangles(c) /\ ~JoinFreed(c) /\ ~ErasesEnd(c) /\ ~RemoveStale(c)
<1>1. ~Dangles(c)
  BY DEF Dangles, Alone, Lookups, AddOrJoin
<1>2. ~JoinFreed(c)
  BY DEF JoinFreed, At, Alone, MapsOwn, AddOrJoin
<1>3. ~ErasesEnd(c)
  <2> SUFFICES ASSUME ErasesEnd(c) PROVE FALSE
    OBVIOUS
  <2>1. pc[c] \notin AddOrJoin /\ arg[c] \in Labels
    BY DEF ErasesEnd, At, AddOrJoin, Alone, Shared, Typed, Bound
  <2>2. label_to_id[arg[c]] \in ThreadIds
    BY <2>1 DEF ErasesEnd, Mapped, Alone, Shared, Typed, TypeOK
  <2> QED
    BY <2>1, <2>2, Quiet DEF ErasesEnd, Mapped
<1>4. ~RemoveStale(c)
  BY DEF RemoveStale, Alone, Lookups
<1> QED
  BY <1>1, <1>2, <1>3, <1>4

(* Steps in which the caller is not, and does not come, between spawn and join. *)
LEMMA QuietStep ==
  ASSUME SingleCaller, Alone, NEW c \in Callers,
         pc[c] \notin AddOrJoin, pc'[c] \notin AddOrJoin,
         UNCHANGED <<rstate, crash>>,
         \A t \in ThreadIds : thread_map'[t] = thread_map[t] \/ thread_map'[t] = "absent"
  PROVE  NoOwnFault' /\ RunnerIsWaitedFor' /\ MapsOwn'
<1>1. \A t \in ThreadIds : ~Live(t) /\ thread_map[t] = "absent"
  BY Quiet
<1>2. RunnerIsWaitedFor'
  BY <1>1 DEF RunnerIsWaitedFor, Live
<1>3. MapsOwn'
  BY <1>1 DEF MapsOwn, SingleCaller, AddOrJoin
<1> QED
  BY <1>2, <1>3 DEF Alone, NoOwnFault

LEMMA CallerAlone ==
  ASSUME SingleCaller, Alone, NEW c \in Callers, CallerStep(c) PROVE AloneOnly'
<1> USE DEF AloneOnly, Lookups, AddOrJoin, At, Goto, Finish, runnerVars, mapVars
<1>0. Typed /\ Lookups /\ pc \in [Callers -> PC]
  BY DEF Alone, Shared, Typed, TypeOK
<1>1. CASE CallStart(c) \/ CallStop(c) \/ CallRemove(c)
  BY <1>1, <1>0, QuietStep DEF CallStart, CallStop, CallRemove, Call, SingleCaller, Typed, TypeOK
<1>2. CASE AddStrategy(c)
  BY <1>2, <1>0, QuietStep DEF AddStrategy, callerVars, SingleCaller
<1>3. CASE StartLock(c) \/ TellOnline(c) \/ StartInsert(c)
  BY <1>3, <1>0, QuietStep DEF StartLock, TellOnline, StartInsert, SingleCaller, Typed, TypeOK
<1>4. CASE StartCheck(c)
  BY <1>4, <1>0, QuietStep DEF StartCheck, LeaveStart, FailStart, SingleCaller, Typed, TypeOK
<1>5. CASE StartInit(c)
  <2>1. CASE Die("init_failure")
    BY <2>1, DieAlone DEF Alone
  <2>2. CASE ~Die("init_failure")
    BY <1>5, <2>2, <1>0, QuietStep DEF StartInit, FailStart, SingleCaller, Typed, TypeOK
  <2> QED
    BY <2>1, <2>2
<1>6. CASE StopLock(c) \/ StopCheck(c) \/ StopErase(c)
  BY <1>6, <1>0, QuietStep DEF StopLock, StopCheck, StopErase, LeaveStop, SingleCaller, Typed, TypeOK
<1>7. CASE StopInterrupt(c)
  BY <1>7, <1>0, QuietStep DEF StopInterrupt, SingleCaller, Typed, TypeOK
<1>8. CASE RemoveCheck(c) \/ RemoveErase(c)
  BY <1>8, <1>0, QuietStep DEF RemoveCheck, RemoveErase, SingleCaller, Typed, TypeOK
<1>9. CASE StartSpawn(c)
  <2>1. CASE FailStart(c) /\ UNCHANGED runnerVars
    BY <2>1, <1>9, <1>0, QuietStep DEF StartSpawn, FailStart, SingleCaller, Typed, TypeOK
  <2>2. CASE ~(FailStart(c) /\ UNCHANGED runnerVars)
    <3>1. PICK t \in ThreadIds : /\ rstate' = [rstate EXCEPT ![t] = "spawned"]
                                 /\ rlabel' = [rlabel EXCEPT ![t] = arg[c]]
                                 /\ tid' = [tid EXCEPT ![c] = t]
                                 /\ pc' = [pc EXCEPT ![c] = "add_thread"]
                                 /\ UNCHANGED <<mtx3, op, arg>>
      BY <2>2, <1>9 DEF StartSpawn
    <3>2. /\ pc[c] = "start_spawn"
          /\ UNCHANGED <<strategies, active, thread_map, crash>>
      BY <1>9 DEF StartSpawn
    <3>3. /\ mtx3 = c /\ arg[c] \in active \cap strategies
          /\ \A u \in ThreadIds : ~Live(u) /\ thread_map[u] = "absent"
      BY <3>2, <1>0, Quiet DEF Alone, Shared, LocksGuard, StartPC
    <3>4. \A u \in ThreadIds : Live(u)' <=> u = t
      BY <3>1, <3>3, <1>0 DEF Live, Typed, TypeOK
    <3>5. RunnerIsWaitedFor'
      BY <3>1, <3>2, <3>3, <3>4, <1>0 DEF RunnerIsWaitedFor, Typed, TypeOK
    <3>6. Lookups'
      BY <3>1, <3>2, <3>3, <1>0 DEF SingleCaller
    <3>7. MapsOwn'
      BY <3>1, <3>2, <3>3, <3>4, <1>0 DEF MapsOwn, SingleCaller, Typed, TypeOK
    <3> QED
      BY <3>2, <3>5, <3>6, <3>7 DEF Alone, NoOwnFault
  <2> QED
    BY <2>1, <2>2
<1>10. CASE AddThread(c) \/ AddLabel(c) \/ AddId(c)
  BY <1>10, <1>0 DEF AddThread, AddLabel, AddId, SingleCaller, Typed, TypeOK, Bound,
                    Alone, MapsOwn, NoOwnFault, RunnerIsWaitedFor, Live
<1>11. CASE JoinAt(c)
  BY <1>11, <1>0 DEF JoinAt, SingleCaller, Typed, TypeOK, Bound,
                    Alone, MapsOwn, NoOwnFault, RunnerIsWaitedFor, Live
<1>12. CASE Join(c)
  BY <1>12 DEF Join, Alone, MapsOwn
<1>13. CASE Dangles(c) \/ JoinFreed(c) \/ ErasesEnd(c) \/ RemoveStale(c)
  BY <1>13, NoUndefinedAccess
<1> QED
  BY <1>1, <1>2, <1>3, <1>4, <1>5, <1>6, <1>7, <1>8, <1>9, <1>10, <1>11, <1>12, <1>13
     DEF CallerStep, StartStep, StopStep, RemoveStep

(* A thread that lives finds its strategy registered and active, so its     *)
(* steps are to enter, to look, to trade, and to fail in a cycle.           *)
LEMMA RunnerAlone ==
  ASSUME SingleCaller, Alone, NEW t \in ThreadIds, RunnerStep(t) PROVE Alone'
<1>1. CASE RunnerThrows(t)
  BY <1>1, DieAlone DEF RunnerThrows
<1>2. CASE RunnerUnknown(t)
  BY <1>2 DEF RunnerUnknown, Alone, RunnerIsWaitedFor, Live
<1>3. CASE RunnerEnter(t) \/ RunnerLook(t) \/ RunnerCycle(t)
  <2>1. /\ rstate' \in [ThreadIds -> RunnerStates] /\ Live(t) /\ rlabel[t] \in active
        /\ \A u \in ThreadIds \ {t} : rstate'[u] = rstate[u]
        /\ rstate'[t] \in {"look", "cycle"}
        /\ UNCHANGED <<strategies, active, mtx3, callerVars, mapVars, crash>>
        /\ UNCHANGED rlabel
    BY <1>3 DEF RunnerEnter, RunnerLook, RunnerCycle, Alone, Shared, Typed, TypeOK,
                RunnerIsWaitedFor, Live, RunnerStates
  <2>2. \A u \in ThreadIds : Live(u)' <=> Live(u)
    BY <2>1 DEF Live
  <2>3. RunnerIsWaitedFor'
    BY <2>1, <2>2 DEF Alone, RunnerIsWaitedFor, callerVars
  <2>4. NoOwnFault' /\ Lookups'
    BY <2>1 DEF Alone, NoOwnFault, Lookups, callerVars
  <2>5. MapsOwn'
    BY <2>1, <2>2 DEF Alone, MapsOwn, callerVars, mapVars, Shared, Typed, TypeOK, Bound
  <2> QED
    BY <2>3, <2>4, <2>5, RunnerShared DEF Alone
<1> QED
  BY <1>1, <1>2, <1>3 DEF RunnerStep

LEMMA AloneInvariant == ASSUME SingleCaller PROVE Spec => []Alone
<1>1. Init => Alone
  <2> SUFFICES ASSUME Init PROVE Alone
    OBVIOUS
  <2>1. Shared
    BY InitShared
  <2>2. NoOwnFault /\ RunnerIsWaitedFor
    BY DEF Init, NoOwnFault, OwnCauses, RunnerIsWaitedFor, Live
  <2>3. Lookups /\ MapsOwn
    BY DEF Init, Lookups, MapsOwn, AddOrJoin
  <2> QED
    BY <2>1, <2>2, <2>3 DEF Alone
<1>2. Alone /\ [Next]_vars => Alone'
  <2> SUFFICES ASSUME Alone, [Next]_vars PROVE Alone'
    OBVIOUS
  <2>1. CASE \E c \in Callers : CallerStep(c)
    <3>1. AloneOnly'
      BY <2>1, CallerAlone
    <3>2. Shared'
      BY SharedStep DEF Alone
    <3> QED
      BY <3>1, <3>2 DEF Alone, AloneOnly
  <2>2. CASE \E t \in ThreadIds : RunnerStep(t)
    BY <2>2, RunnerAlone
  <2>3. CASE DataRace
    BY <2>3, NoRace DEF DataRace
  <2>4. CASE UNCHANGED vars
    <3>1. Shared'
      BY SharedStep DEF Alone
    <3> QED
      BY <3>1, <2>4 DEF vars, callerVars, runnerVars, mapVars, Alone, Live,
                        NoOwnFault, RunnerIsWaitedFor, Lookups, MapsOwn
  <2> QED
    BY <2>1, <2>2, <2>3, <2>4 DEF Next, Running, Dead
<1> QED
  BY <1>1, <1>2, PTL DEF Spec

(***************************************************************************)
(* With the one caller of the shipped program nothing that is started,     *)
(* stopped, added or removed makes an iterator of the engine dangle,       *)
(* erases the end of its map, frees a thread that is waited for, lets a    *)
(* thread miss its strategy or two threads race.                           *)
(***************************************************************************)
THEOREM SafeWithOneCaller == ASSUME SingleCaller PROVE Spec => []NoOwnFault
<1>1. Alone => NoOwnFault
  BY DEF Alone
<1> QED
  BY <1>1, AloneInvariant, PTL

(***************************************************************************)
(* With one caller every thread that runs a strategy is joined by the      *)
(* Start that created it, and its strategy is registered and active.       *)
(***************************************************************************)
THEOREM WaitedFor == ASSUME SingleCaller PROVE Spec => []RunnerIsWaitedFor
<1>1. Alone => RunnerIsWaitedFor
  BY DEF Alone
<1> QED
  BY <1>1, AloneInvariant, PTL

-----------------------------------------------------------------------------
(* The engine implements StrategyLifecycle.                                *)

LEMMA InitRefines == Init => Lifecycle!Init
  BY DEF Init, Lifecycle!Init, Live

RunningPairs == {<<rlabel[t], t>> : t \in {u \in ThreadIds : Live(u)}}

(* The pairs that are trading depend on the threads only. *)
LEMMA SamePairs ==
  ASSUME Typed, UNCHANGED rlabel, \A t \in ThreadIds : Live(t)' <=> Live(t)
  PROVE  UNCHANGED RunningPairs
  BY DEF RunningPairs

LEMMA DieRefines ==
  ASSUME NEW cause \in Causes \ {"none"}, Die(cause), crash = "none" PROVE Lifecycle!Next
<1>1. RunningPairs' = {}
  BY DEF Die, RunningPairs, Live
<1> QED
  BY <1>1 DEF Die, RunningPairs, Lifecycle!Next, Lifecycle!Die, Causes

LEMMA CallerRefines ==
  ASSUME SingleCaller, Alone, crash = "none", NEW c \in Callers, CallerStep(c)
  PROVE  Lifecycle!Next \/ UNCHANGED Lifecycle!vars
<1> USE DEF RunningPairs, Lifecycle!vars, runnerVars
<1>0. Typed /\ (pc[c] # "idle" => arg[c] \in Labels)
  BY DEF Alone, Shared, Typed, Bound
<1>1. CASE CallStart(c) \/ CallStop(c) \/ CallRemove(c) \/ AddStrategy(c)
  BY <1>1, <1>0, SamePairs DEF CallStart, CallStop, CallRemove, Call, AddStrategy, Live
<1>2. CASE \/ StartLock(c) \/ TellOnline(c) \/ StartCheck(c)
           \/ AddThread(c) \/ AddLabel(c) \/ AddId(c) \/ JoinAt(c) \/ Join(c)
  BY <1>2, <1>0, SamePairs
     DEF StartLock, TellOnline, StartCheck, AddThread, AddLabel, AddId, JoinAt, Join, Live
<1>8. CASE StartInit(c)
  <2>1. CASE Die("init_failure")
    BY <2>1, DieRefines DEF Causes
  <2>2. CASE ~Die("init_failure")
    BY <1>8, <2>2, <1>0, SamePairs DEF StartInit, Live
  <2> QED
    BY <2>1, <2>2
<1>3. CASE StartInsert(c)
  <2>1. UNCHANGED RunningPairs /\ UNCHANGED crash /\ active' = active \cup {arg[c]}
    BY <1>3, <1>0, SamePairs DEF StartInsert, Live
  <2>2. Lifecycle!GoOnline(arg[c])
    BY <2>1 DEF Lifecycle!GoOnline
  <2> QED
    BY <2>2, <1>0, <1>3 DEF Lifecycle!Next, StartInsert, At
<1>4. CASE StartSpawn(c)
  <2>1. CASE UNCHANGED runnerVars
    BY <2>1, <1>4, <1>0, SamePairs DEF StartSpawn, Live
  <2>2. CASE ~UNCHANGED runnerVars
    <3>1. PICK t \in ThreadIds : /\ rstate' = [rstate EXCEPT ![t] = "spawned"]
                                 /\ rlabel' = [rlabel EXCEPT ![t] = arg[c]]
      BY <2>2, <1>4 DEF StartSpawn
    <3>2. pc[c] = "start_spawn" /\ UNCHANGED <<active, crash>>
      BY <1>4 DEF StartSpawn, At
    <3>3. arg[c] \in active /\ RunningPairs = {}
      BY <3>2, Quiet DEF Alone, Lookups, AddOrJoin
    <3>4. RunningPairs' = {<<arg[c], t>>}
      <4>1. \A u \in ThreadIds : Live(u)' <=> u = t
        BY <3>1, <3>2, <1>0, Quiet DEF Live, Typed, TypeOK, AddOrJoin
      <4> QED
        BY <4>1, <3>1, <1>0 DEF Typed, TypeOK
    <3>5. Lifecycle!Launch(arg[c], t)
      BY <3>2, <3>3, <3>4 DEF Lifecycle!Launch
    <3> QED
      BY <3>5, <3>2, <1>0 DEF Lifecycle!Next
  <2> QED
    BY <2>1, <2>2
<1>5. CASE StopLock(c) \/ StopCheck(c) \/ StopInterrupt(c) \/ RemoveCheck(c) \/ RemoveErase(c)
  BY <1>5, <1>0, SamePairs
     DEF StopLock, StopCheck, StopInterrupt, RemoveCheck, RemoveErase, Live
<1>6. CASE StopErase(c)
  <2>1. UNCHANGED RunningPairs /\ UNCHANGED crash /\ active' = active \ {arg[c]}
    BY <1>6, <1>0, SamePairs DEF StopErase, Live
  <2>2. Lifecycle!GoOffline(arg[c])
    BY <2>1 DEF Lifecycle!GoOffline
  <2> QED
    BY <2>2, <1>0, <1>6 DEF Lifecycle!Next, StopErase, At
<1>7. CASE Dangles(c) \/ JoinFreed(c) \/ ErasesEnd(c) \/ RemoveStale(c)
  BY <1>7, NoUndefinedAccess
<1> QED
  BY <1>1, <1>2, <1>3, <1>4, <1>5, <1>6, <1>7, <1>8
     DEF CallerStep, StartStep, StopStep, RemoveStep

(* A strategy thread never retires: it finds its strategy active. *)
LEMMA RunnerRefines ==
  ASSUME Alone, crash = "none", NEW t \in ThreadIds, RunnerStep(t)
  PROVE  Lifecycle!Next \/ UNCHANGED Lifecycle!vars
<1>1. CASE RunnerThrows(t)
  BY <1>1, DieRefines DEF RunnerThrows, Causes
<1>2. CASE RunnerUnknown(t)
  BY <1>2 DEF RunnerUnknown, Alone, RunnerIsWaitedFor, Live
<1>3. CASE RunnerEnter(t) \/ RunnerLook(t) \/ RunnerCycle(t)
  <2>1. UNCHANGED <<active, crash, rlabel>> /\ (\A u \in ThreadIds : Live(u)' <=> Live(u))
    BY <1>3 DEF RunnerEnter, RunnerLook, RunnerCycle, Alone, Shared, Typed, TypeOK,
                RunnerIsWaitedFor, Live
  <2> QED
    BY <2>1, SamePairs DEF Alone, Shared, Lifecycle!vars, RunningPairs
<1> QED
  BY <1>1, <1>2, <1>3 DEF RunnerStep

(***************************************************************************)
(* With one caller the engine, with its threads, mutexes and maps,         *)
(* implements the life of a strategy that StrategyLifecycle describes.     *)
(***************************************************************************)
THEOREM EngineImplementsLifecycle == ASSUME SingleCaller PROVE Spec => ImplementsLifecycle
<1>1. Alone /\ [Next]_vars => [Lifecycle!Next]_(Lifecycle!vars)
  <2> SUFFICES ASSUME Alone, [Next]_vars
               PROVE  Lifecycle!Next \/ UNCHANGED Lifecycle!vars
    OBVIOUS
  <2>1. CASE crash = "none" /\ \E c \in Callers : CallerStep(c)
    BY <2>1, CallerRefines
  <2>2. CASE crash = "none" /\ \E t \in ThreadIds : RunnerStep(t)
    BY <2>2, RunnerRefines
  <2>3. CASE DataRace
    BY <2>3, NoRace DEF DataRace
  <2>4. CASE UNCHANGED vars
    BY <2>4 DEF vars, runnerVars, Lifecycle!vars, Live
  <2> QED
    BY <2>1, <2>2, <2>3, <2>4 DEF Next, Running, Dead
<1> QED
  BY <1>1, InitRefines, AloneInvariant, PTL DEF Spec, ImplementsLifecycle, Lifecycle!Spec
=============================================================================
