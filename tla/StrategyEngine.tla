--------------------------- MODULE StrategyEngine ---------------------------
(***************************************************************************)
(* algo::Engine and threads::Engine: how a strategy is started, stopped    *)
(* and removed, and the boost threads that run strategies.                 *)
(*                                                                         *)
(* A caller is a thread that executes Controller commands.  The shipped    *)
(* program has one, the thread of UI::run (main.cpp, controller.cpp:25);   *)
(* the three mutexes of algo::Engine and the TODO "make ui a separate      *)
(* thread" prepare for several.  One action is one access to state that    *)
(* threads share.  The lock of mtx1 covers a single lookup, so a lookup is *)
(* one action; mtx2 (stop) and mtx3 (start) cover whole handlers.          *)
(*                                                                         *)
(* Undefined behaviour is a choice: the access works on what is left in    *)
(* memory, or the process dies.  Where it dies in the code of other        *)
(* modules, this one has it for the requests of a Start and of a cycle;    *)
(* elsewhere it ends what is modelled here, since nothing is persisted.    *)
(***************************************************************************)
CONSTANTS Callers,    \* threads that execute Controller commands
          Labels,     \* strategy labels
          ThreadIds,  \* values of boost::thread::id; bounds the live threads
          None        \* no caller, label or thread id

ASSUME NoneAssumption == None \notin Callers \cup Labels \cup ThreadIds

VARIABLES
  strategies,   \* labels in Engine::strategies
  active,       \* labels in Engine::active_strategies
  mtx2, mtx3,   \* owner of the mutex, or None
  pc,           \* the statement a caller executes next
  op,           \* the command a caller executes
  arg,          \* the label the command is about
  tid,          \* id of the thread that the caller's Start created
  rstate,       \* what the thread with this id does
  rlabel,       \* the strategy that thread runs
  thread_map,   \* threads::Engine::thread_map: the boost::thread under an id
  label_to_id,  \* threads::Engine::label_to_id
  id_to_label,  \* threads::Engine::id_to_label
  crash         \* why the process died

callerVars == <<pc, op, arg, tid>>
mapVars == <<thread_map, label_to_id, id_to_label>>
runnerVars == <<rstate, rlabel>>
vars == <<strategies, active, mtx2, mtx3, callerVars, runnerVars, mapVars, crash>>

StartPC == {"start_check", "start_insert", "start_init",
            "start_spawn", "add_thread", "add_label", "add_id", "join_at", "join"}
StopPC == {"stop_check", "stop_interrupt", "stop_erase"}
RemovePC == {"remove_check", "remove_erase"}
PC == {"idle", "start_lock", "tell_online", "stop_lock"} \cup StartPC \cup StopPC \cup RemovePC
Ops == {"none", "start", "stop", "remove", "remove_stale"}
RunnerStates == {"none", "spawned", "look", "cycle"}
OwnCauses == {"unknown_label", "dangling", "bad_iterator", "freed_thread", "data_race"}
Causes == {"none", "cycle_failure", "init_failure"} \cup OwnCauses

TypeOK ==
  /\ strategies \subseteq Labels
  /\ active \subseteq Labels
  /\ mtx2 \in Callers \cup {None}
  /\ mtx3 \in Callers \cup {None}
  /\ pc \in [Callers -> PC]
  /\ op \in [Callers -> Ops]
  /\ arg \in [Callers -> Labels \cup {None}]
  /\ tid \in [Callers -> ThreadIds \cup {None}]
  /\ rstate \in [ThreadIds -> RunnerStates]
  /\ rlabel \in [ThreadIds -> Labels \cup {None}]
  /\ thread_map \in [ThreadIds -> {"absent", "joinable", "joined"}]
  /\ label_to_id \in [Labels -> ThreadIds \cup {None}]
  /\ id_to_label \in [ThreadIds -> Labels \cup {None}]
  /\ crash \in Causes

Init ==
  /\ strategies = {} /\ active = {}
  /\ mtx2 = None /\ mtx3 = None
  /\ pc = [c \in Callers |-> "idle"]
  /\ op = [c \in Callers |-> "none"]
  /\ arg = [c \in Callers |-> None]
  /\ tid = [c \in Callers |-> None]
  /\ rstate = [t \in ThreadIds |-> "none"]
  /\ rlabel = [t \in ThreadIds |-> None]
  /\ thread_map = [t \in ThreadIds |-> "absent"]
  /\ label_to_id = [l \in Labels |-> None]
  /\ id_to_label = [t \in ThreadIds |-> None]
  /\ crash = "none"

-----------------------------------------------------------------------------
(* Control flow.                                                           *)

At(c, l) == pc[c] = l

Goto(c, l) == pc' = [pc EXCEPT ![c] = l] /\ UNCHANGED <<op, arg, tid>>

\* The command ends, with an answer or with an exception that the loop of
\* UI::run catches and reports; either is sent to the chat.
Finish(c) == /\ pc' = [pc EXCEPT ![c] = "idle"]
             /\ op' = [op EXCEPT ![c] = "none"]
             /\ arg' = [arg EXCEPT ![c] = None]
             /\ tid' = [tid EXCEPT ![c] = None]

\* A command arrives; the menus offer the labels of registered strategies.
Call(c, o, l, first) ==
  /\ At(c, "idle")
  /\ l \in strategies
  /\ pc' = [pc EXCEPT ![c] = first]
  /\ op' = [op EXCEPT ![c] = o]
  /\ arg' = [arg EXCEPT ![c] = l]
  /\ UNCHANGED <<strategies, active, mtx2, mtx3, tid, runnerVars, mapVars, crash>>

\* The process ends, and all its memory with it.
Die(cause) ==
  /\ strategies' = {} /\ active' = {}
  /\ mtx2' = None /\ mtx3' = None
  /\ pc' = [c \in Callers |-> "idle"]
  /\ op' = [c \in Callers |-> "none"]
  /\ arg' = [c \in Callers |-> None]
  /\ tid' = [c \in Callers |-> None]
  /\ rstate' = [t \in ThreadIds |-> "none"]
  /\ rlabel' = [t \in ThreadIds |-> None]
  /\ thread_map' = [t \in ThreadIds |-> "absent"]
  /\ label_to_id' = [l \in Labels |-> None]
  /\ id_to_label' = [t \in ThreadIds |-> None]
  /\ crash' = cause

Live(t) == rstate[t] \in {"spawned", "look", "cycle"}

-----------------------------------------------------------------------------
(* startStrategy: Engine::activateStrategy under mtx3.                     *)

CallStart(c) == \E l \in Labels : Call(c, "start", l, "start_lock")

\* Mutant: mtx3 is not waited for.
StartLock_NoWait(c) ==
  /\ At(c, "start_lock")
  /\ mtx3' = c
  /\ Goto(c, "start_check")
  /\ UNCHANGED <<strategies, active, mtx2, runnerVars, mapVars, crash>>

StartLock(c) ==
  /\ At(c, "start_lock")
  /\ mtx3 = None
  /\ mtx3' = c
  /\ Goto(c, "start_check")
  /\ UNCHANGED <<strategies, active, mtx2, runnerVars, mapVars, crash>>

\* The lock_guard releases mtx3 on every way out of activateStrategy: with an
\* exception, or back to startStrategy, which answers "... is online".
FailStart(c) == mtx3' = None /\ Finish(c)
LeaveStart(c) == /\ mtx3' = None
                 /\ pc' = [pc EXCEPT ![c] = "tell_online"]
                 /\ tid' = [tid EXCEPT ![c] = None]
                 /\ UNCHANGED <<op, arg>>

TellOnline(c) ==
  /\ At(c, "tell_online")
  /\ Finish(c)
  /\ UNCHANGED <<strategies, active, mtx2, mtx3, runnerVars, mapVars, crash>>

\* Only this caller may insert now, so the two lookups are one action.
StartCheck(c) ==
  /\ At(c, "start_check")
  /\ \/ arg[c] \in active /\ LeaveStart(c)
     \/ arg[c] \notin active \cup strategies /\ FailStart(c)
     \/ /\ arg[c] \in strategies \ active
        /\ Goto(c, "start_insert")
        /\ UNCHANGED mtx3
  /\ UNCHANGED <<strategies, active, mtx2, runnerVars, mapVars, crash>>

\* Mutant: the label is read after the move out of the strategy.
StartInsert_Moved(c) ==
  /\ At(c, "start_insert")
  /\ active' = active \cup {None}
  /\ Goto(c, "start_init")
  /\ UNCHANGED <<strategies, mtx2, mtx3, runnerVars, mapVars, crash>>

StartInsert(c) ==
  /\ At(c, "start_insert")
  /\ active' = active \cup {arg[c]}
  /\ Goto(c, "start_init")
  /\ UNCHANGED <<strategies, mtx2, mtx3, runnerVars, mapVars, crash>>

\* activateStrategy goes on with the iterator of its insertion: it dangles
\* when a Stop erased the node, since only the owner of mtx3 inserts.
Dangles(c) == /\ pc[c] \in {"start_init", "start_spawn", "add_thread"}
              /\ arg[c] \notin active
              /\ Die("dangling")

\* getSafePtr and initializeTradingContracts may throw (strategy removed,
\* indicator removed, no answer, unexpected token): the label stays active.  A
\* request of initializeTradingContracts may end the process (Sources.Crash).
StartInit(c) ==
  /\ At(c, "start_init")
  /\ \/ /\ \/ FailStart(c)
           \/ arg[c] \in strategies /\ Goto(c, "start_spawn") /\ UNCHANGED mtx3
        /\ UNCHANGED <<strategies, active, mtx2, runnerVars, mapVars, crash>>
     \/ arg[c] \in strategies /\ Die("init_failure")

\* The id of a thread that has ended and was joined or detached is reused.
StartSpawn(c) ==
  /\ At(c, "start_spawn")
  /\ \/ \E t \in ThreadIds :
          /\ ~Live(t)
          /\ rstate' = [rstate EXCEPT ![t] = "spawned"]
          /\ rlabel' = [rlabel EXCEPT ![t] = arg[c]]
          /\ tid' = [tid EXCEPT ![c] = t]
          /\ pc' = [pc EXCEPT ![c] = "add_thread"]
          /\ UNCHANGED <<mtx3, op, arg>>
     \/ FailStart(c) /\ UNCHANGED runnerVars
  /\ UNCHANGED <<strategies, active, mtx2, mapVars, crash>>

\* Mutant: the lock_guard's scope ends before addThread.
AddThread_Unlocked(c) ==
  /\ At(c, "add_thread")
  /\ thread_map' = [thread_map EXCEPT ![tid[c]] = IF @ = "absent" THEN "joinable" ELSE @]
  /\ mtx3' = None
  /\ Goto(c, "add_label")
  /\ UNCHANGED <<strategies, active, mtx2, runnerVars, label_to_id, id_to_label, crash>>

\* threads::Engine::addThread: std::map::insert keeps what is there.
AddThread(c) ==
  /\ At(c, "add_thread")
  /\ thread_map' = [thread_map EXCEPT ![tid[c]] = IF @ = "absent" THEN "joinable" ELSE @]
  /\ Goto(c, "add_label")
  /\ UNCHANGED <<strategies, active, mtx2, mtx3, runnerVars, label_to_id, id_to_label, crash>>

AddLabel(c) ==
  /\ At(c, "add_label")
  /\ label_to_id' = [label_to_id EXCEPT ![arg[c]] = IF @ = None THEN tid[c] ELSE @]
  /\ Goto(c, "add_id")
  /\ UNCHANGED <<strategies, active, mtx2, mtx3, runnerVars, thread_map, id_to_label, crash>>

AddId(c) ==
  /\ At(c, "add_id")
  /\ id_to_label' = [id_to_label EXCEPT ![tid[c]] = IF @ = None THEN arg[c] ELSE @]
  /\ Goto(c, "join_at")
  /\ UNCHANGED <<strategies, active, mtx2, mtx3, runnerVars, thread_map, label_to_id, crash>>

\* Mutant: addThread does not join.
JoinAt_NoJoin(c) ==
  /\ At(c, "join_at")
  /\ LeaveStart(c)
  /\ UNCHANGED <<strategies, active, mtx2, runnerVars, mapVars, crash>>

\* thread_map.at(id) throws when a Stop erased the thread in between, and a
\* thread object that was joined before is not waited for.
JoinAt(c) ==
  /\ At(c, "join_at")
  /\ \/ thread_map[tid[c]] = "joinable" /\ Goto(c, "join") /\ UNCHANGED mtx3
     \/ thread_map[tid[c]] = "joined" /\ LeaveStart(c)
     \/ thread_map[tid[c]] = "absent" /\ FailStart(c)
  /\ UNCHANGED <<strategies, active, mtx2, runnerVars, mapVars, crash>>

\* join() returns when the thread has ended.
Join(c) ==
  /\ At(c, "join")
  /\ ~Live(tid[c])
  /\ LeaveStart(c)
  /\ thread_map' = [thread_map EXCEPT ![tid[c]] = IF @ = "joinable" THEN "joined" ELSE @]
  /\ UNCHANGED <<strategies, active, mtx2, runnerVars, label_to_id, id_to_label, crash>>

\* A Stop erased the boost::thread meanwhile: join() ends on a destroyed object.
JoinFreed(c) == /\ At(c, "join")
                /\ ~Live(tid[c])
                /\ thread_map[tid[c]] = "absent"
                /\ Die("freed_thread")

-----------------------------------------------------------------------------
(* stopStrategy and the Stop inside removeStrategy:                        *)
(* Engine::deactivateStrategy under mtx2.                                  *)

CallStop(c) == \E l \in Labels : Call(c, "stop", l, "stop_lock")

\* Mutant: mtx2 is not waited for.
StopLock_NoWait(c) ==
  /\ At(c, "stop_lock")
  /\ mtx2' = c
  /\ Goto(c, "stop_check")
  /\ UNCHANGED <<strategies, active, mtx3, runnerVars, mapVars, crash>>

StopLock(c) ==
  /\ At(c, "stop_lock")
  /\ mtx2 = None
  /\ mtx2' = c
  /\ Goto(c, "stop_check")
  /\ UNCHANGED <<strategies, active, mtx3, runnerVars, mapVars, crash>>

\* Mutant: deactivateStrategy returns with mtx2 locked.
LeaveStop_KeepsLock(c) ==
  /\ UNCHANGED mtx2
  /\ \/ op[c] = "stop" /\ Finish(c)
     \/ op[c] # "stop" /\ Goto(c, "remove_erase")

\* deactivateStrategy returns: to stopStrategy, or back into removeStrategy.
LeaveStop(c) ==
  /\ mtx2' = None
  /\ \/ op[c] = "stop" /\ Finish(c)
     \/ op[c] # "stop" /\ Goto(c, "remove_erase")

\* Only this caller may erase now, so the two lookups are one action.
StopCheck(c) ==
  /\ At(c, "stop_check")
  /\ \/ arg[c] \notin active /\ LeaveStop(c)
     \/ arg[c] \in active \ strategies /\ mtx2' = None /\ Finish(c)
     \/ /\ arg[c] \in active \cap strategies
        /\ Goto(c, "stop_interrupt")
        /\ UNCHANGED mtx2
  /\ UNCHANGED <<strategies, active, mtx3, runnerVars, mapVars, crash>>

\* interruptThread and __eraseThread.  interrupt() only sets a flag: a strategy
\* has no boost interruption point.
Mapped(l) == label_to_id[l] # None /\ thread_map[label_to_id[l]] # "absent"

StopInterrupt(c) ==
  /\ At(c, "stop_interrupt")
  /\ LET l == arg[c]
         t == label_to_id[l]
     IN \/ ~Mapped(l) /\ UNCHANGED mapVars
        \/ /\ Mapped(l)
           /\ id_to_label[t] # None
           /\ label_to_id' = [label_to_id EXCEPT ![id_to_label[t]] = None]
           /\ id_to_label' = [id_to_label EXCEPT ![t] = None]
           /\ thread_map' = [thread_map EXCEPT ![t] = "absent"]
  /\ Goto(c, "stop_erase")
  /\ UNCHANGED <<strategies, active, mtx2, mtx3, runnerVars, crash>>

\* Without an entry for the id, __eraseThread erases end().
ErasesEnd(c) == /\ At(c, "stop_interrupt")
                /\ Mapped(arg[c])
                /\ id_to_label[label_to_id[arg[c]]] = None
                /\ Die("bad_iterator")

StopErase(c) ==
  /\ At(c, "stop_erase")
  /\ active' = active \ {arg[c]}
  /\ LeaveStop(c)
  /\ UNCHANGED <<strategies, mtx3, runnerVars, mapVars, crash>>

-----------------------------------------------------------------------------
(* addStrategy and removeStrategy, which take no lock.                     *)

\* Strategies::addStrategy throws when the label is taken.
AddStrategy(c) ==
  /\ At(c, "idle")
  /\ \E l \in Labels \ strategies : strategies' = strategies \cup {l}
  /\ UNCHANGED <<active, mtx2, mtx3, callerVars, runnerVars, mapVars, crash>>

CallRemove(c) == \E l \in Labels : Call(c, "remove", l, "remove_check")

RemoveCheck(c) ==
  /\ At(c, "remove_check")
  /\ Goto(c, IF arg[c] \in active THEN "stop_lock" ELSE "remove_erase")
  /\ UNCHANGED <<strategies, active, mtx2, mtx3, runnerVars, mapVars, crash>>

\* erase(found), with the iterator of the first lookup: the removal makes
\* the iterator of another removal of the same label dangle.
RemoveErase(c) ==
  /\ At(c, "remove_erase")
  /\ op[c] = "remove"
  /\ strategies' = strategies \ {arg[c]}
  /\ op' = [d \in Callers |->
              IF d = c THEN "none"
              ELSE IF arg[d] = arg[c] /\ op[d] = "remove" THEN "remove_stale" ELSE op[d]]
  /\ pc' = [pc EXCEPT ![c] = "idle"]
  /\ arg' = [arg EXCEPT ![c] = None]
  /\ UNCHANGED <<active, mtx2, mtx3, tid, runnerVars, mapVars, crash>>

RemoveStale(c) == At(c, "remove_erase") /\ op[c] = "remove_stale" /\ Die("dangling")

-----------------------------------------------------------------------------
(* ActiveStrategy::runStrategy, in its own thread.                         *)

RunnerEnter(t) ==
  /\ rstate[t] = "spawned"
  /\ rlabel[t] \in strategies
  /\ rstate' = [rstate EXCEPT ![t] = "look"]
  /\ UNCHANGED <<strategies, active, mtx2, mtx3, callerVars, rlabel, mapVars, crash>>

\* An exception that leaves the thread function terminates the process.
RunnerUnknown(t) == /\ rstate[t] = "spawned"
                    /\ rlabel[t] \notin strategies
                    /\ Die("unknown_label")

\* Mutants: the loop has the condition inverted; the loop has none.
RunnerLook_Inverted(t) ==
  /\ rstate[t] = "look"
  /\ \/ /\ rlabel[t] \notin active
        /\ rstate' = [rstate EXCEPT ![t] = "cycle"]
        /\ UNCHANGED rlabel
     \/ /\ rlabel[t] \in active
        /\ rstate' = [rstate EXCEPT ![t] = "none"]
        /\ rlabel' = [rlabel EXCEPT ![t] = None]
  /\ UNCHANGED <<strategies, active, mtx2, mtx3, callerVars, mapVars, crash>>

RunnerLook_Forever(t) ==
  /\ rstate[t] = "look"
  /\ rstate' = [rstate EXCEPT ![t] = "cycle"]
  /\ UNCHANGED <<strategies, active, mtx2, mtx3, callerVars, rlabel, mapVars, crash>>

RunnerLook(t) ==
  /\ rstate[t] = "look"
  /\ \/ /\ rlabel[t] \in active
        /\ rstate' = [rstate EXCEPT ![t] = "cycle"]
        /\ UNCHANGED rlabel
     \/ /\ rlabel[t] \notin active
        /\ rstate' = [rstate EXCEPT ![t] = "none"]
        /\ rlabel' = [rlabel EXCEPT ![t] = None]
  /\ UNCHANGED <<strategies, active, mtx2, mtx3, callerVars, mapVars, crash>>

\* processRules and the transactions of its trades.
RunnerCycle(t) ==
  /\ rstate[t] = "cycle"
  /\ rstate' = [rstate EXCEPT ![t] = "look"]
  /\ UNCHANGED <<strategies, active, mtx2, mtx3, callerVars, rlabel, mapVars, crash>>

\* An exception leaves the thread function, or a request ends the process.
RunnerThrows(t) == rstate[t] = "cycle" /\ Die("cycle_failure")

-----------------------------------------------------------------------------
(* Data races: two threads about to access one container, one of them to   *)
(* write, with no lock in common (mtx1 guards no writer).                  *)

CallerReads(c) ==
  CASE pc[c] \in {"start_check", "stop_check"} -> {"active", "strategies"}
    [] pc[c] = "remove_check" -> {"active"}
    [] pc[c] = "start_init" -> {"strategies"}
    [] pc[c] = "join_at" -> {"maps"}
    [] OTHER -> {}

CallerWrites(c) ==
  CASE pc[c] \in {"start_insert", "stop_erase"} -> {"active"}
    [] pc[c] \in {"add_thread", "add_label", "add_id", "stop_interrupt"} -> {"maps"}
    [] pc[c] = "remove_erase" -> {"strategies"}
    [] OTHER -> {}

RunnerReads(t) ==
  CASE rstate[t] = "spawned" -> {"strategies"}
    [] rstate[t] = "look" -> {"active"}
    [] OTHER -> {}

Race ==
  \/ \E c, d \in Callers :
       c # d /\ CallerWrites(c) \cap (CallerWrites(d) \cup CallerReads(d)) # {}
  \/ \E c \in Callers, t \in ThreadIds : CallerWrites(c) \cap RunnerReads(t) # {}

DataRace == Race /\ Die("data_race")

-----------------------------------------------------------------------------
StartStep(c) == \/ StartCheck(c) \/ StartInsert(c) \/ StartInit(c)
                \/ StartSpawn(c) \/ AddThread(c) \/ AddLabel(c) \/ AddId(c)
                \/ JoinAt(c) \/ Join(c) \/ TellOnline(c) \/ Dangles(c) \/ JoinFreed(c)
StopStep(c) == StopCheck(c) \/ StopInterrupt(c) \/ ErasesEnd(c) \/ StopErase(c)
RemoveStep(c) == RemoveCheck(c) \/ RemoveErase(c) \/ RemoveStale(c)
CallerStep(c) == \/ CallStart(c) \/ CallStop(c) \/ CallRemove(c) \/ AddStrategy(c)
                 \/ StartLock(c) \/ StartStep(c)
                 \/ StopLock(c) \/ StopStep(c) \/ RemoveStep(c)
RunnerStep(t) == \/ RunnerEnter(t) \/ RunnerUnknown(t) \/ RunnerLook(t)
                 \/ RunnerCycle(t) \/ RunnerThrows(t)

Running == \/ \E c \in Callers : CallerStep(c)
           \/ \E t \in ThreadIds : RunnerStep(t)
           \/ DataRace

\* A dead process stays dead.
Dead == crash # "none" /\ UNCHANGED vars

Next == \/ crash = "none" /\ Running
        \/ Dead

Spec == Init /\ [][Next]_vars

-----------------------------------------------------------------------------
(* Fairness.  The operating system schedules every thread that can run, a  *)
(* command that has begun goes on, and a trading cycle (30 seconds and the *)
(* exchange of a few messages) ends.  A waiter on mtx2 gets it when it is  *)
(* free again and again: between two commands a human types.  Nobody has   *)
(* to issue a command, and mtx3 may be held for ever.                      *)

Alive(A) == crash = "none" /\ A

Fairness ==
  /\ \A c \in Callers :
       /\ WF_vars(Alive(StartLock(c)))
       /\ WF_vars(Alive(StartStep(c)))
       /\ SF_vars(Alive(StopLock(c)))
       /\ WF_vars(Alive(StopStep(c)))
       /\ WF_vars(Alive(RemoveStep(c)))
  /\ \A t \in ThreadIds : WF_vars(Alive(RunnerStep(t)))

FairSpec == Spec /\ Fairness
-----------------------------------------------------------------------------
(* Properties of the shipped program: one caller.                          *)

SingleCaller == \A c, d \in Callers : c = d

\* With one caller the process does not die of what the engine does with its own
\* containers and threads: no iterator of activateStrategy or removeStrategy dangles,
\* __eraseThread never erases end(), no thread finds its strategy removed, no two
\* threads race for a container.  (It may die in the requests of a Start or of a cycle,
\* and in what Catalogue, Dialogue and Sources model.)
NoOwnFault == crash \notin OwnCauses

\* A strategy thread that lives is the one the caller inside activateStrategy
\* has created and waits for, with mtx3 held, and its strategy is registered
\* and active: so at most one strategy trades at any time.
AddOrJoin == {"add_thread", "add_label", "add_id", "join_at", "join"}
RunnerIsWaitedFor ==
  \A t \in ThreadIds : Live(t) =>
    \E c \in Callers : /\ mtx3 = c /\ pc[c] \in AddOrJoin /\ tid[c] = t
                       /\ rlabel[t] = arg[c] /\ rlabel[t] \in active \cap strategies

\* The engine implements the life of a strategy: see StrategyLifecycle.
Lifecycle == INSTANCE StrategyLifecycle WITH
  Runners <- ThreadIds,
  online <- active,
  running <- {<<rlabel[t], t>> : t \in {u \in ThreadIds : Live(u)}},
  alive <- (crash = "none")
ImplementsLifecycle == Lifecycle!Spec

\* "... is online" (controller.cpp:272-275) is answered for a strategy that
\* some thread runs.
OnlineIsRunning ==
  \A c \in Callers : At(c, "tell_online") =>
    \E t \in ThreadIds : Live(t) /\ rlabel[t] = arg[c]

\* A Start that was issued returns, so that a second strategy can be started
\* or the first one stopped (tests_strategy_run.cpp:199-200, 216-220).
StartReturns == \A c \in Callers : At(c, "start_lock") ~> At(c, "idle")

-----------------------------------------------------------------------------
(* Properties with any number of callers.                                  *)

\* mtx2 and mtx3 each admit one caller to the code they guard, on every way
\* in and out of the handlers.
LocksGuard ==
  \A c \in Callers : /\ pc[c] \in StartPC <=> mtx3 = c
                     /\ pc[c] \in StopPC <=> mtx2 = c

\* A caller in join() waits for the thread that its own Start created, although
\* a Stop may have erased that thread from the maps and ids are reused.
JoinsOwnThread ==
  \A c \in Callers : At(c, "join") /\ Live(tid[c]) => rlabel[tid[c]] = arg[c]

\* A Stop returns, unless the process dies, even while a Start holds mtx3.
StopReturns ==
  \A c \in Callers : At(c, "stop_lock") ~> \/ pc[c] \notin {"stop_lock"} \cup StopPC
                                         \/ crash # "none"

\* A thread whose strategy is offline ends, unless the strategy is put online
\* again before the thread looks or the process dies.
StoppedRunnerEnds ==
  \A t \in ThreadIds :
    Live(t) ~> ~Live(t) \/ rlabel[t] \in active \/ crash # "none"
=============================================================================
