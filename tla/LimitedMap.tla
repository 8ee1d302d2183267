----------------------------- MODULE LimitedMap -----------------------------
(***************************************************************************)
(* types::MapLimitedSize: an ordered map of at most N entries in which an  *)
(* insertion makes room first and looks for the key afterwards.  A map is  *)
(* a function on a finite set of keys, which are natural numbers (times).  *)
(***************************************************************************)
EXTENDS Naturals, FiniteSets

CONSTANT N  \* max_size; the code has 60

\* With room for one entry only, an insertion would evict the newest entry.
ASSUME NAssumption == N \in Nat /\ N >= 2

Empty == [k \in {} |-> k]

IsFirst(S, k) == k \in S /\ \A j \in S : k <= j
IsLast(S, k) == k \in S /\ \A j \in S : j <= k
First(S) == CHOOSE k \in S : IsFirst(S, k)
Last(m) == CHOOSE k \in DOMAIN m : IsLast(DOMAIN m, k)

\* The n newest keys of S.
Newest(S, n) == {k \in S : Cardinality({j \in S : k <= j}) <= n}

\* while (size() >= max_size) erase(begin())
Evict(m) == [k \in Newest(DOMAIN m, N - 1) |-> m[k]]

\* Mutants: the entry that exists is replaced; the newest entries are evicted.
Insert_Assign(m, k, v) ==
  [j \in DOMAIN Evict(m) \cup {k} |-> IF j = k THEN v ELSE m[j]]
Insert_EvictsNewest(m, k, v) ==
  LET kept == {j \in DOMAIN m : Cardinality({i \in DOMAIN m : i <= j}) <= N - 1}
  IN [j \in kept \cup {k} |-> IF j \in kept THEN m[j] ELSE v]

\* insert keeps the value of a key that has survived the eviction.
Insert(m, k, v) ==
  LET kept == Evict(m)
  IN [j \in DOMAIN kept \cup {k} |-> IF j \in DOMAIN kept THEN kept[j] ELSE v]
=============================================================================
