---------------------------- MODULE QuoteWindow -----------------------------
(***************************************************************************)
(* What an indicator promises to the signals that read it: a window over   *)
(* the quotes of its contract, at most N of them.  A quote enters once, at *)
(* a time later than every time in the window, with the indicator's        *)
(* modifier applied once; it never changes; and it leaves only as the      *)
(* oldest one, when there are N.                                           *)
(***************************************************************************)
EXTENDS Naturals, FiniteSets

CONSTANTS Indicators,  \* labels of indicators
          Values,      \* values of quotes
          Modifier,    \* Modifier[i][v]: the value indicator i makes of v
          Times,       \* time stamps
          N            \* size of a window

VARIABLES window,      \* window[i]: a function from times to values
          received     \* received[i]: times and values, before modification

vars == <<window, received>>

Init == /\ window = [i \in Indicators |-> [t \in {} |-> t]]
        /\ received = [i \in Indicators |-> {}]

Receive(i, t, v) == /\ received' = [received EXCEPT ![i] = @ \cup {<<t, v>>}]
                    /\ UNCHANGED window

Full(i) == Cardinality(DOMAIN window[i]) = N
Oldest(i, t) == t \in DOMAIN window[i] /\ \A u \in DOMAIN window[i] : t <= u

\* The quotes at times in gone leave, and the quote received at t enters.
Change(i, gone, t, v) ==
  /\ <<t, v>> \in received[i]
  /\ \A u \in DOMAIN window[i] : u < t
  /\ window' = [window EXCEPT ![i] = [u \in (DOMAIN @ \ gone) \cup {t} |->
                                        IF u = t THEN Modifier[i][v] ELSE @[u]]]
  /\ UNCHANGED received

Enter(i, t, v) == ~Full(i) /\ Change(i, {}, t, v)
Slide(i, u, t, v) == Full(i) /\ Oldest(i, u) /\ Change(i, {u}, t, v)

Leave(i, u) == /\ Full(i) /\ Oldest(i, u)
               /\ window' = [window EXCEPT ![i] = [t \in DOMAIN @ \ {u} |-> @[t]]]
               /\ UNCHANGED received

Next == \E i \in Indicators, t \in Times, v \in Values :
          \/ Receive(i, t, v)
          \/ Enter(i, t, v)
          \/ \E u \in Times : Slide(i, u, t, v) \/ Leave(i, u)

Spec == Init /\ [][Next]_vars
=============================================================================
