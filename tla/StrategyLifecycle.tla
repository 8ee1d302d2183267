------------------------- MODULE StrategyLifecycle -------------------------
(***************************************************************************)
(* What the robot promises about the life of a strategy, with no threads,  *)
(* locks or maps: a strategy is put online and taken offline, at most one  *)
(* runner trades for a label, a runner is launched only for a label that   *)
(* is online and retires only once its label is offline, and the process   *)
(* may die, after which nothing happens any more.                          *)
(***************************************************************************)
CONSTANTS Labels,   \* strategy labels
          Runners   \* identities of the threads that run strategies

VARIABLES online,   \* labels that are online
          running,  \* <<label, runner>> pairs that are trading
          alive     \* the process has not died

vars == <<online, running, alive>>

TypeOK == /\ online \subseteq Labels
          /\ running \subseteq Labels \X Runners
          /\ alive \in BOOLEAN

Init == online = {} /\ running = {} /\ alive = TRUE

\* The label of strategy l enters the set of online strategies.
GoOnline(l) == /\ online' = online \cup {l}
               /\ UNCHANGED <<running, alive>>

GoOffline(l) == /\ online' = online \ {l}
                /\ UNCHANGED <<running, alive>>

\* A runner starts to trade for l, for which nobody trades yet.
Launch(l, r) == /\ l \in online
                /\ \A p \in running : p[1] # l /\ p[2] # r
                /\ running' = running \cup {<<l, r>>}
                /\ UNCHANGED <<online, alive>>

\* A runner retires, because its strategy is offline.
Retire(l, r) == /\ <<l, r>> \in running
                /\ l \notin online
                /\ running' = running \ {<<l, r>>}
                /\ UNCHANGED <<online, alive>>

\* Nothing of it is persisted.
Die == alive' = FALSE /\ online' = {} /\ running' = {}

Next == /\ alive = TRUE
        /\ \/ \E l \in Labels : GoOnline(l) \/ GoOffline(l)
           \/ \E l \in Labels, r \in Runners : Launch(l, r) \/ Retire(l, r)
           \/ Die

Spec == Init /\ [][Next]_vars
=============================================================================
