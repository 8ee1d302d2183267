---------------------------- MODULE SourcesProofs ----------------------------
(***************************************************************************)
(* Proofs about Sources, HttpRequest and HttpSources.                      *)
(***************************************************************************)
EXTENDS HttpSources, FiniteSetTheorems, SequenceTheorems, TLAPS

-----------------------------------------------------------------------------
(* The operators of the libraries.                                         *)

(* A non-empty set of naturals has a least element, which Min returns. *)
LEMMA MinElement ==
  ASSUME NEW S, S \subseteq Nat, S # {}
  PROVE  Min(S) \in S /\ \A k \in S : Min(S) <= k
<1>1. \E x \in S : \A y \in S : ~(<<y, x>> \in OpToRel(<, Nat))
  BY NatLessThanWellFounded, WFMin
<1>2. PICK x \in S : \A y \in S : ~(<<y, x>> \in OpToRel(<, Nat))
  BY <1>1
<1>3. \A y \in S : ~(y < x)
  BY <1>2 DEF OpToRel
<1>4. \A y \in S : x <= y
  BY <1>3
<1> QED
  BY <1>4 DEF Min

(* SetToSeq puts members of a finite set in a sequence. *)
LEMMA SetToSeqMembers ==
  ASSUME NEW S, IsFiniteSet(S)
  PROVE  Cardinality(S) \in Nat /\ SetToSeq(S) \in [1..Cardinality(S) -> S]
<1>1. \E f \in [1..Cardinality(S) -> S] : IsInjective(f)
  BY FS_CardinalityType DEF ExistsBijection, Bijection, Injection, IsInjective
<1> QED
  BY <1>1, FS_CardinalityType DEF SetToSeq

-----------------------------------------------------------------------------
(* Splitting and joining a path.                                           *)

(* Induction up to N, for a set. *)
LEMMA UpTo ==
  ASSUME NEW N \in Nat, NEW P, 0 \in P, \A n \in 1..N : n - 1 \in P => n \in P
  PROVE  \A n \in 0..N : n \in P
<1> DEFINE bad == {n \in 0..N : n \notin P}
<1>1. SUFFICES ASSUME bad # {} PROVE FALSE
  OBVIOUS
<1>2. bad \subseteq Nat
  OBVIOUS
<1>3. Min(bad) \in bad /\ \A k \in bad : Min(bad) <= k
  BY <1>1, <1>2, MinElement
<1>4. PICK m \in bad : \A k \in bad : m <= k
  BY <1>3
<1>5. m \in 1..N
  BY <1>4
<1>6. m - 1 \in 0..N /\ ~(m <= m - 1)
  BY <1>5
<1>7. m - 1 \in P
  BY <1>4, <1>6
<1> QED
  BY <1>4, <1>5, <1>7

(* A recursive function over 0..N. *)
Recursive(f, n, D, first, step) ==
  /\ f \in [0..n -> D] /\ f[0] = first
  /\ \A k \in 1..n : f[k] = step[k][f[k - 1]]
(* It exists: one up to n - 1 is extended with its next value. *)
LEMMA RecursionExists ==
  ASSUME NEW N \in Nat, NEW D, NEW first \in D, NEW step \in [1..N -> [D -> D]]
  PROVE  \E f : Recursive(f, N, D, first, step)
<1> DEFINE P == {n \in 0..N : \E f : Recursive(f, n, D, first, step)}
<1>1. 0 \in P
  <2> DEFINE f == [k \in 0..0 |-> first]
  <2>1. f \in [0..0 -> D] /\ f[0] = first /\ 1..0 = {}
    OBVIOUS
  <2>2. Recursive(f, 0, D, first, step)
    BY <2>1 DEF Recursive
  <2> HIDE DEF f
  <2> QED
    BY <2>2
<1>2. ASSUME NEW n \in 1..N, n - 1 \in P PROVE n \in P
  <2>1. PICK f : Recursive(f, n - 1, D, first, step)
    BY <1>2
  <2> DEFINE g == [k \in 0..n |-> IF k = n THEN step[n][f[n - 1]] ELSE f[k]]
  <2>2. f[n - 1] \in D
    BY <2>1 DEF Recursive
  <2>3. g \in [0..n -> D] /\ g[0] = first
    BY <2>1, <2>2 DEF Recursive
  <2>4. ASSUME NEW k \in 1..n PROVE g[k] = step[k][g[k - 1]]
    BY <2>1, <2>4 DEF Recursive
  <2>5. Recursive(g, n, D, first, step)
    BY <2>3, <2>4 DEF Recursive
  <2> HIDE DEF g
  <2> QED
    BY <2>5
<1> HIDE DEF P
<1>3. \A n \in 0..N : n \in P
  BY <1>1, <1>2, UpTo
<1>4. N \in P
  BY <1>3
<1> QED
  BY <1>4 DEF P

(* A text is appended to with its last symbol apart. *)
LEMMA ConcatAppend ==
  ASSUME NEW S, NEW w \in Seq(S), NEW l \in Seq(S), NEW x \in S
  PROVE  w \o Append(l, x) = Append(w \o l, x) /\ w \o l \in Seq(S)
  OBVIOUS

(* What Stringify has written after n elements. *)
Written(elems) ==
  LET written[n \in 0..Len(elems)] ==
        IF n = 0 THEN << >> ELSE written[n - 1] \o Append(elems[n], "/")
  IN written

(* Its recursion has a solution: each element is written behind the ones before, then a
   slash. *)
LEMMA WrittenSteps ==
  ASSUME NEW S, "/" \in S, NEW elems \in Seq(Seq(S))
  PROVE  /\ Written(elems) \in [0..Len(elems) -> Seq(S)]
         /\ Written(elems)[0] = << >>
         /\ \A n \in 1..Len(elems) :
              Written(elems)[n] = Written(elems)[n - 1] \o Append(elems[n], "/")
<1> DEFINE N == Len(elems)
           step == [n \in 1..N |-> [w \in Seq(S) |-> w \o Append(elems[n], "/")]]
           body(f) == [n \in 0..N |-> IF n = 0 THEN << >> ELSE f[n - 1] \o Append(elems[n], "/")]
<1>1. N \in Nat /\ \A n \in 1..N : elems[n] \in Seq(S)
  OBVIOUS
<1>2. \A w \in Seq(S), n \in 1..N : w \o Append(elems[n], "/") \in Seq(S)
  BY <1>1
<1>3. step \in [1..N -> [Seq(S) -> Seq(S)]]
  BY <1>2
<1>4. \A w \in Seq(S), n \in 1..N : step[n][w] = w \o Append(elems[n], "/")
  OBVIOUS
<1> HIDE DEF step, N
<1>14. << >> \in Seq(S)
  BY EmptySeq
<1>5. PICK f : Recursive(f, N, Seq(S), << >>, step)
  BY <1>1, <1>3, <1>14, RecursionExists
<1>6. f \in [0..N -> Seq(S)] /\ f[0] = << >> /\ \A n \in 1..N : f[n] = step[n][f[n - 1]]
  BY <1>5 DEF Recursive
<1>7. ASSUME NEW n \in 1..N PROVE f[n] = f[n - 1] \o Append(elems[n], "/")
  <2>1. n - 1 \in 0..N
    BY <1>1
  <2>2. f[n - 1] \in Seq(S)
    BY <1>6, <2>1
  <2> QED
    BY <1>4, <1>6, <2>2
<1>8. f = body(f)
  <2>1. ASSUME NEW n \in 0..N PROVE f[n] = body(f)[n]
    <3>1. CASE n = 0
      BY <1>1, <1>6, <3>1
    <3>2. CASE n # 0
      <4>1. n \in 1..N
        BY <1>1, <3>2
      <4> QED
        BY <1>7, <3>2, <4>1
    <3> QED
      BY <3>1, <3>2
  <2>2. f = [n \in 0..N |-> f[n]]
    BY <1>6
  <2> QED
    BY <2>1, <2>2
<1>9. Written(elems) = body(Written(elems))
  BY <1>8 DEF Written, N
<1> DEFINE g == Written(elems)
<1> HIDE DEF g
<1>10. g = body(g)
  BY <1>9 DEF g
<1>11. g[0] = << >> /\ \A n \in 1..N : g[n] = g[n - 1] \o Append(elems[n], "/")
  <2>1. \A n \in 0..N : g[n] = body(g)[n]
    BY <1>10
  <2>2. g[0] = << >>
    BY <1>1, <2>1
  <2>3. ASSUME NEW n \in 1..N PROVE g[n] = g[n - 1] \o Append(elems[n], "/")
    <3>1. n \in 0..N /\ n # 0
      BY <1>1
    <3> QED
      BY <2>1, <3>1
  <2> QED
    BY <2>2, <2>3
<1>13. \A n \in 0..N : g[n] \in Seq(S)
  <2> DEFINE P == {n \in 0..N : g[n] \in Seq(S)}
  <2>1. 0 \in P
    <3>1. g[0] \in Seq(S)
      BY <1>14, <1>11
    <3>2. 0 \in 0..N
      BY <1>1
    <3> QED
      BY <3>1, <3>2
  <2>2. ASSUME NEW n \in 1..N, n - 1 \in P PROVE n \in P
    <3>1. g[n - 1] \in Seq(S) /\ n \in 0..N
      BY <1>1, <2>2
    <3> QED
      BY <1>2, <1>11, <3>1
  <2> HIDE DEF P
  <2>3. \A n \in 0..N : n \in P
    BY <1>1, <2>1, <2>2, UpTo
  <2> QED
    BY <2>3 DEF P
<1>12. g \in [0..N -> Seq(S)]
  BY <1>10, <1>13
<1> QED
  BY <1>11, <1>12 DEF g, N

(* What is written of the first k elements depends on them only. *)
LEMMA WrittenAgrees ==
  ASSUME NEW S, "/" \in S, NEW v \in Seq(Seq(S)), NEW w \in Seq(Seq(S)), NEW m \in Nat,
         m <= Len(v), m <= Len(w), \A k \in 1..m : v[k] = w[k]
  PROVE  Written(v)[m] = Written(w)[m]
<1> DEFINE P == {n \in 0..m : Written(v)[n] = Written(w)[n]}
<1>1. Len(v) \in Nat /\ Len(w) \in Nat
  OBVIOUS
<1>2. 0 \in P
  <2>1. Written(v)[0] = << >>
    BY WrittenSteps
  <2>2. Written(w)[0] = << >>
    BY WrittenSteps
  <2> QED
    BY <2>1, <2>2
<1>3. ASSUME NEW n \in 1..m, n - 1 \in P PROVE n \in P
  <2>1. n \in 1..Len(v) /\ n \in 1..Len(w) /\ v[n] = w[n] /\ n \in 0..m
    BY <1>1
  <2>2. /\ Written(v)[n] = Written(v)[n - 1] \o Append(v[n], "/")
        /\ Written(w)[n] = Written(w)[n - 1] \o Append(w[n], "/")
    BY <2>1, WrittenSteps
  <2>3. Written(v)[n - 1] = Written(w)[n - 1]
    BY <1>3
  <2> QED
    BY <2>1, <2>2, <2>3
<1> HIDE DEF P
<1>4. \A n \in 0..m : n \in P
  BY <1>2, <1>3, UpTo
<1>5. m \in P
  BY <1>4
<1> QED
  BY <1>5 DEF P

(* All that is written of elements. *)
Joined(elems) == Written(elems)[Len(elems)]

(* With one more, empty element there is one more slash. *)
LEMMA JoinedOpens ==
  ASSUME NEW S, "/" \in S, NEW w \in Seq(Seq(S))
  PROVE  Joined(Append(w, << >>)) = Append(Joined(w), "/")
<1> DEFINE v == Append(w, << >>)
           m == Len(w)
<1>1. << >> \in Seq(S) /\ m \in Nat
  BY EmptySeq
<1>2. v \in Seq(Seq(S)) /\ Len(v) = m + 1 /\ v[m + 1] = << >> /\ \A k \in 1..m : v[k] = w[k]
  BY <1>1, AppendProperties
<1> HIDE DEF v, m
<1>3. m \in 1..Len(v) \/ m = 0
  BY <1>1, <1>2
<1>4. Written(v)[m] = Written(w)[m]
  <2>1. m = Len(w) /\ m <= Len(w) /\ m <= Len(v)
    BY <1>1, <1>2 DEF m
  <2> QED
    BY <1>1, <1>2, <2>1, WrittenAgrees
<1>5. Written(v)[m + 1] = Written(v)[m] \o Append(v[m + 1], "/")
  <2>1. m + 1 \in 1..Len(v) /\ (m + 1) - 1 = m
    BY <1>1, <1>2
  <2>2. Written(v)[m + 1] = Written(v)[(m + 1) - 1] \o Append(v[m + 1], "/")
    BY <1>2, <2>1, WrittenSteps
  <2> QED
    BY <2>1, <2>2
<1>6. Written(w)[m] \in Seq(S)
  <2>1. m \in 0..Len(w)
    BY <1>1 DEF m
  <2>2. Written(w) \in [0..Len(w) -> Seq(S)]
    BY WrittenSteps
  <2> QED
    BY <2>1, <2>2
<1>7. Written(w)[m] \o Append(<< >>, "/") = Append(Written(w)[m], "/")
  BY <1>6
<1> QED
  BY <1>2, <1>4, <1>5, <1>7 DEF Joined, v, m

(* A symbol more in the last element is written before its slash. *)
LEMMA JoinedGrows ==
  ASSUME NEW S, "/" \in S, NEW w \in Seq(Seq(S)), w # << >>, NEW c \in S, NEW q \in Seq(S),
         Joined(w) = Append(q, "/")
  PROVE  Joined([w EXCEPT ![Len(w)] = Append(@, c)]) = Append(Append(q, c), "/")
<1> DEFINE m == Len(w)
           l == w[m]
           v == [w EXCEPT ![m] = Append(l, c)]
           b == Written(w)[m - 1]
<1>1. m \in Nat /\ m \in 1..m /\ m - 1 \in 0..m /\ m - 1 \in Nat /\ m - 1 <= m
  <2>1. m \in Nat \ {0}
    BY EmptySeq
  <2> QED
    BY <2>1
<1>2. l \in Seq(S) /\ Append(l, c) \in Seq(S)
  BY <1>1, ElementOfSeq, AppendProperties
<1>3. v \in Seq(Seq(S)) /\ Len(v) = m /\ v[m] = Append(l, c) /\ \A k \in 1..m - 1 : v[k] = w[k]
  BY <1>1, <1>2, ExceptSeq
<1>4. b \in Seq(S)
  BY <1>1, WrittenSteps
<1>5. Written(w)[m] = b \o Append(l, "/")
  BY <1>1, WrittenSteps
<1>6. Written(v)[m] = Written(v)[m - 1] \o Append(v[m], "/")
  BY <1>1, <1>3, WrittenSteps
<1> HIDE DEF v, m
<1>7. Written(v)[m - 1] = b
  BY <1>1, <1>3, WrittenAgrees DEF m
<1> HIDE DEF b, l
<1>8. b \o Append(l, "/") = Append(b \o l, "/") /\ b \o l \in Seq(S)
  BY <1>2, <1>4, ConcatAppend
<1>9. Append(b \o l, "/") = Append(q, "/")
  BY <1>5, <1>8 DEF Joined, m
<1>10. b \o l = q
  <2>1. PICK p \in Seq(S) : p = b \o l
    BY <1>8
  <2>2. Append(p, "/") = Append(q, "/")
    BY <1>9, <2>1
  <2>3. p = q
    BY <2>2, AppendInjective
  <2> QED
    BY <2>1, <2>3
<1>11. b \o Append(Append(l, c), "/") = Append(b \o Append(l, c), "/")
  BY <1>2, <1>4, ConcatAppend
<1>12. b \o Append(l, c) = Append(q, c)
  BY <1>2, <1>4, <1>10, ConcatAppend
<1>13. Joined(v) = Append(Append(q, c), "/")
  BY <1>3, <1>6, <1>7, <1>11, <1>12 DEF Joined
<1> QED
  BY <1>13 DEF v, l, m

(* What splitIntoWords has made of the first n symbols. *)
Split(line, delim) ==
  LET words[n \in 0..Len(line)] ==
        IF n = 0 THEN << << >> >>
        ELSE LET before == words[n - 1]
             IN IF line[n] = delim THEN Append(before, << >>)
                ELSE [before EXCEPT ![Len(before)] = Append(@, line[n])]
  IN words
Lists(S) == Seq(Seq(S)) \ {<< >>}

(* With a symbol more in its last word, a list of words is one still. *)
LEMMA ListGrows ==
  ASSUME NEW S, NEW w \in Lists(S), NEW c \in S
  PROVE  /\ Append(w, << >>) \in Lists(S)
         /\ [w EXCEPT ![Len(w)] = Append(@, c)] \in Lists(S)
<1> DEFINE m == Len(w)
           v == [w EXCEPT ![m] = Append(w[m], c)]
<1>1. w \in Seq(Seq(S)) /\ m \in Nat \ {0} /\ << >> \in Seq(S)
  BY EmptySeq DEF Lists
<1>2. Append(w, << >>) \in Lists(S)
  <2>1. Append(w, << >>) \in Seq(Seq(S)) /\ Len(Append(w, << >>)) = m + 1
    BY <1>1, AppendProperties
  <2> QED
    BY <1>1, <2>1 DEF Lists
<1>3. m \in 1..m /\ w[m] \in Seq(S) /\ Append(w[m], c) \in Seq(S)
  BY <1>1, ElementOfSeq, AppendProperties
<1>4. v \in Seq(Seq(S)) /\ Len(v) = m
  BY <1>1, <1>3, ExceptSeq
<1>5. v \in Lists(S)
  BY <1>1, <1>4 DEF Lists
<1> QED
  BY <1>2, <1>5

(* Its recursion has a solution, so that each word list is the one before with the next symbol. *)
LEMMA SplitSteps ==
  ASSUME NEW S, NEW line \in Seq(S), NEW delim
  PROVE  /\ \A n \in 0..Len(line) : Split(line, delim)[n] \in Lists(S)
         /\ Split(line, delim)[0] = << << >> >>
         /\ \A n \in 1..Len(line) :
              LET before == Split(line, delim)[n - 1]
              IN Split(line, delim)[n] =
                   IF line[n] = delim THEN Append(before, << >>)
                   ELSE [before EXCEPT ![Len(before)] = Append(@, line[n])]
<1> DEFINE N == Len(line)
           D == Lists(S)
           more(n, w) == IF line[n] = delim THEN Append(w, << >>)
                         ELSE [w EXCEPT ![Len(w)] = Append(@, line[n])]
           first == << << >> >>
           step == [n \in 1..N |-> [w \in D |-> more(n, w)]]
           body(f) == [n \in 0..N |-> IF n = 0 THEN first ELSE more(n, f[n - 1])]
<1>1. N \in Nat /\ \A n \in 1..N : line[n] \in S
  OBVIOUS
<1>2. \A w \in D, n \in 1..N : more(n, w) \in D
  BY <1>1, ListGrows
<1>3. first \in D
  BY EmptySeq DEF Lists
<1> HIDE DEF N, D
<1>13. Split(line, delim) = CHOOSE g : g = body(g)
  BY DEF Split, N
<1> HIDE DEF more, first
<1>4. step \in [1..N -> [D -> D]]
  BY <1>2
<1>5. \A w \in D, n \in 1..N : step[n][w] = more(n, w)
  OBVIOUS
<1> HIDE DEF step
<1>6. PICK f : Recursive(f, N, D, first, step)
  BY <1>1, <1>3, <1>4, RecursionExists
<1>7. f \in [0..N -> D] /\ f[0] = first /\ \A n \in 1..N : f[n] = step[n][f[n - 1]]
  BY <1>6 DEF Recursive
<1>8. ASSUME NEW n \in 1..N PROVE f[n] = more(n, f[n - 1])
  <2>1. n - 1 \in 0..N
    BY <1>1
  <2>2. f[n - 1] \in D
    BY <1>7, <2>1
  <2> QED
    BY <1>5, <1>7, <2>2
<1>9. f = body(f)
  <2>1. ASSUME NEW n \in 0..N PROVE f[n] = body(f)[n]
    <3>1. CASE n = 0
      BY <1>1, <1>7, <3>1
    <3>2. CASE n # 0
      <4>1. n \in 1..N
        BY <1>1, <3>2
      <4> QED
        BY <1>8, <3>2, <4>1
    <3> QED
      BY <3>1, <3>2
  <2>2. f = [n \in 0..N |-> f[n]]
    BY <1>7
  <2> QED
    BY <2>1, <2>2
<1> DEFINE g == Split(line, delim)
<1>10. g = body(g)
  BY <1>9, <1>13
<1> HIDE DEF g
<1>11. g[0] = first /\ \A n \in 1..N : g[n] = more(n, g[n - 1])
  <2>1. \A n \in 0..N : g[n] = body(g)[n]
    BY <1>10
  <2>2. g[0] = first
    BY <1>1, <2>1
  <2>3. ASSUME NEW n \in 1..N PROVE g[n] = more(n, g[n - 1])
    <3>1. n \in 0..N /\ n # 0
      BY <1>1
    <3> QED
      BY <2>1, <3>1
  <2> QED
    BY <2>2, <2>3
<1>12. \A n \in 0..N : g[n] \in D
  <2> DEFINE P == {n \in 0..N : g[n] \in D}
  <2>1. 0 \in P
    BY <1>1, <1>3, <1>11
  <2>2. ASSUME NEW n \in 1..N, n - 1 \in P PROVE n \in P
    <3>1. g[n - 1] \in D /\ n \in 0..N
      BY <1>1, <2>2
    <3> QED
      BY <1>2, <1>11, <3>1
  <2> HIDE DEF P
  <2>3. \A n \in 0..N : n \in P
    BY <1>1, <2>1, <2>2, UpTo
  <2> QED
    BY <2>3 DEF P
<1> QED
  BY <1>11, <1>12 DEF g, N, D, more, first

(* Splitting a path at its slashes and writing a slash after each piece gives the path
   with a slash behind it. *)
LEMMA JoinedSplit ==
  ASSUME NEW S, "/" \in S, NEW line \in Seq(S)
  PROVE  \A n \in 0..Len(line) :
           Joined(Split(line, "/")[n]) = Append(SubSeq(line, 1, n), "/")
<1> DEFINE N == Len(line)
           g == Split(line, "/")
           P == {n \in 0..N : Joined(g[n]) = Append(SubSeq(line, 1, n), "/")}
<1>1. N \in Nat /\ \A n \in 1..N : line[n] \in S
  OBVIOUS
<1>2. \A n \in 0..N : g[n] \in Seq(Seq(S)) /\ g[n] # << >>
  BY SplitSteps DEF Lists
<1>3. g[0] = << << >> >>
  BY SplitSteps
<1>4. ASSUME NEW n \in 1..N
      PROVE  g[n] = IF line[n] = "/" THEN Append(g[n - 1], << >>)
                    ELSE [g[n - 1] EXCEPT ![Len(g[n - 1])] = Append(@, line[n])]
  BY SplitSteps
<1> HIDE DEF g
<1>5. 0 \in P
  <2>1. Joined(<< >>) = << >>
    BY WrittenSteps, EmptySeq DEF Joined
  <2>2. Append(<< >>, << >>) = << << >> >> /\ << >> \in Seq(Seq(S))
    BY EmptySeq
  <2>3. Joined(<< << >> >>) = Append(<< >>, "/")
    BY <2>1, <2>2, JoinedOpens
  <2>4. SubSeq(line, 1, 0) = << >>
    OBVIOUS
  <2> QED
    BY <1>1, <1>3, <2>3, <2>4
<1>6. ASSUME NEW n \in 1..N, n - 1 \in P PROVE n \in P
  <2> DEFINE w == g[n - 1]
             q == SubSeq(line, 1, n - 1)
             c == line[n]
  <2>1. n - 1 \in 0..N /\ n \in 0..N /\ w \in Seq(Seq(S)) /\ w # << >>
    BY <1>1, <1>2
  <2>2. Joined(w) = Append(q, "/")
    BY <1>6
  <2>3. q \in Seq(S) /\ c \in S /\ SubSeq(line, 1, n) = Append(q, c)
    BY <1>1
  <2>4. CASE c = "/"
    <3>1. g[n] = Append(w, << >>)
      BY <1>4, <2>4
    <3>2. Joined(g[n]) = Append(Joined(w), "/")
      BY <2>1, <3>1, JoinedOpens
    <3> QED
      BY <2>1, <2>2, <2>3, <2>4, <3>2
  <2>5. CASE c # "/"
    <3>1. g[n] = [w EXCEPT ![Len(w)] = Append(@, c)]
      BY <1>4, <2>5
    <3> HIDE DEF w, q, c
    <3>2. w \in Seq(Seq(S)) /\ w # << >> /\ c \in S /\ q \in Seq(S) /\ Joined(w) = Append(q, "/")
      BY <2>1, <2>2, <2>3
    <3>3. Joined([w EXCEPT ![Len(w)] = Append(@, c)]) = Append(Append(q, c), "/")
      BY <3>2, JoinedGrows
    <3>4. Joined(g[n]) = Append(Append(q, c), "/")
      BY <3>1, <3>3
    <3> QED
      BY <2>1, <2>3, <3>4
  <2> QED
    BY <2>4, <2>5
<1> HIDE DEF P
<1>7. \A n \in 0..N : n \in P
  BY <1>1, <1>5, <1>6, UpTo
<1> QED
  BY <1>7 DEF P, g

(* So the elements of a path, empty ones included, are written as the path. *)
LEMMA PathReturns ==
  ASSUME NEW S, "/" \in S, NEW path \in Seq(S), path # << >>
  PROVE  Stringify(Elements(path)) = path
<1> DEFINE N == Len(path)
<1>1. N \in Nat /\ N \in 0..N /\ SubSeq(path, 1, N) = path
  OBVIOUS
<1>2. Elements(path) = Split(path, "/")[N]
  BY DEF Elements, Words, Split
<1>3. Joined(Elements(path)) = Append(path, "/")
  BY <1>1, <1>2, JoinedSplit
<1>4. Stringify(Elements(path)) = Front(Joined(Elements(path)))
  BY DEF Stringify, Joined, Written
<1>5. Front(Append(path, "/")) = path
  BY <1>1, AppendProperties DEF Front
<1> QED
  BY <1>3, <1>4, <1>5

(* A ticker with a hyphen has a word before and one after it. *)
LEMMA HyphenSplits ==
  ASSUME NEW S, NEW t \in Seq(S), NEW k \in 1..Len(t), t[k] = "-"
  PROVE  /\ Words(t, "-") \in Seq(Seq(S)) /\ Words(t, "-")[1] \in Seq(S)
         /\ Words(t, "-")[2] \in Seq(S)
<1> DEFINE N == Len(t)
           g == Split(t, "-")
           P == {n \in 0..N : n >= k => Len(g[n]) >= 2}
<1>1. N \in Nat /\ k \in Nat \ {0} /\ N \in 0..N /\ N >= k /\ t # << >>
  OBVIOUS
<1>2. \A n \in 0..N : g[n] \in Seq(Seq(S)) /\ g[n] # << >>
  BY SplitSteps DEF Lists
<1>3. ASSUME NEW n \in 1..N
      PROVE  g[n] = IF t[n] = "-" THEN Append(g[n - 1], << >>)
                    ELSE [g[n - 1] EXCEPT ![Len(g[n - 1])] = Append(@, t[n])]
  BY SplitSteps
<1>4. Words(t, "-") = g[N]
  BY <1>1 DEF Words, Split
<1> HIDE DEF g
<1>5. 0 \in P
  BY <1>1
<1>6. ASSUME NEW n \in 1..N, n - 1 \in P PROVE n \in P
  <2> DEFINE w == g[n - 1]
  <2>1. n - 1 \in 0..N /\ n \in 0..N /\ w \in Seq(Seq(S)) /\ w # << >>
    BY <1>1, <1>2
  <2>2. Len(w) \in Nat /\ Len(w) >= 1
    BY <2>1, EmptySeq
  <2>3. CASE t[n] = "-"
    <3>1. << >> \in Seq(S) /\ g[n] = Append(w, << >>)
      BY <1>3, <2>3, EmptySeq
    <3>2. Len(g[n]) = Len(w) + 1
      BY <2>1, <3>1, AppendProperties
    <3> QED
      BY <2>1, <2>2, <3>2
  <2>4. CASE t[n] # "-"
    <3>1. n # k
      BY <2>4
    <3>2. n >= k => n - 1 >= k
      BY <1>1, <3>1
    <3>3. g[n] = [w EXCEPT ![Len(w)] = Append(@, t[n])]
      BY <1>3, <2>4
    <3>4. Len(g[n]) = Len(w)
      BY <2>1, <3>3
    <3> QED
      BY <1>6, <2>1, <3>2, <3>4
  <2> QED
    BY <2>3, <2>4
<1> HIDE DEF P
<1>7. \A n \in 0..N : n \in P
  BY <1>1, <1>5, <1>6, UpTo
<1>8. g[N] \in Seq(Seq(S)) /\ Len(g[N]) >= 2
  BY <1>1, <1>2, <1>7 DEF P
<1>9. 1 \in 1..Len(g[N]) /\ 2 \in 1..Len(g[N])
  BY <1>8
<1>10. g[N][1] \in Seq(S) /\ g[N][2] \in Seq(S)
  BY <1>8, <1>9, ElementOfSeq
<1> QED
  BY <1>4, <1>8, <1>10

-----------------------------------------------------------------------------
(* What is asked.                                                          *)

(* One text after the other. *)
LEMMA ConcatLonger ==
  ASSUME NEW S, NEW a \in Seq(S), NEW b \in Seq(S)
  PROVE  a \o b \in Seq(S) /\ Len(a \o b) = Len(a) + Len(b) /\ Len(a) \in Nat /\ Len(b) \in Nat
  BY ConcatProperties

(* Every query is a text, so what is sent for it is what was built. *)
LEMMA QueriesReturn ==
  \A path \in {GetBigMapKeysQuery(f) : f \in Range(Factories)} \cup {QuoteQuery(t) : t \in Tickers} :
    Stringify(Elements(path)) = path
<1> DEFINE Sure == {"/", "-", "https:", "api.tzkt.io", "v1", "contracts", "storage", "bigmaps",
                    "token_to_exchange", "keys", "api.exchange.coinbase.com", "products", "ticker"}
<1>1. ASSUME NEW f \in Range(Factories)
      PROVE  Stringify(Elements(GetBigMapKeysQuery(f))) = GetBigMapKeysQuery(f)
  <2> DEFINE S == Sure \cup {f}
             path == GetBigMapKeysQuery(f)
             tail == <<"contracts", "/", f, "/", "bigmaps", "/", "token_to_exchange", "/", "keys">>
  <2>1. "/" \in S /\ Tzkt \in Seq(S) /\ Len(Tzkt) = 7 /\ tail \in Seq(S)
    BY DEF Tzkt
  <2>2. path = Tzkt \o tail
    BY DEF GetBigMapKeysQuery
  <2> HIDE DEF Sure, S, tail, path
  <2>3. Tzkt \o tail \in Seq(S) /\ Len(Tzkt \o tail) = 7 + Len(tail) /\ Len(tail) \in Nat
    BY <2>1, ConcatLonger
  <2>4. path \in Seq(S) /\ path # << >>
    BY <2>2, <2>3
  <2> QED
    BY <2>1, <2>4, PathReturns DEF path
<1>2. ASSUME NEW t \in Tickers PROVE Stringify(Elements(QuoteQuery(t))) = QuoteQuery(t)
  <2> DEFINE S == Sure \cup Range(t)
             path == QuoteQuery(t)
             contracts == <<"contracts", "/">>
             storage == <<"/", "storage">>
             hyphen == <<"-">>
             ticker == <<"/", "ticker">>
  <2>1. "/" \in S /\ t \in Seq(S)
    BY TextAssumption, SeqMonotonic
  <2>2. Tzkt \in Seq(S) /\ Len(Tzkt) = 7 /\ Coinbase \in Seq(S) /\ Len(Coinbase) = 7
    BY DEF Tzkt, Coinbase
  <2>3. contracts \in Seq(S) /\ storage \in Seq(S) /\ hyphen \in Seq(S) /\ ticker \in Seq(S)
    OBVIOUS
  <2>4. IsCoinbase(t) => \E k \in 1..Len(t) : t[k] = "-"
    BY <2>1 DEF IsCoinbase, Range
  <2> HIDE DEF Sure, S
  <2>5. path \in Seq(S) /\ path # << >>
    <3>1. CASE IsCoinbase(t)
      <4> DEFINE w1 == Words(t, "-")[1]
                 w2 == Words(t, "-")[2]
                 a == Coinbase \o w1
                 b == a \o hyphen
                 c == b \o w2
      <4>1. w1 \in Seq(S) /\ w2 \in Seq(S)
        BY <2>1, <2>4, <3>1, HyphenSplits
      <4>2. path = c \o ticker
        BY <3>1 DEF QuoteQuery, ProductQuery
      <4> HIDE DEF w1, w2, path, hyphen, ticker
      <4>3. a \in Seq(S) /\ Len(a) >= 7
        <5>1. a \in Seq(S) /\ Len(a) = 7 + Len(w1) /\ Len(w1) \in Nat
          BY <2>2, <4>1, ConcatLonger
        <5> QED
          BY <5>1
      <4> HIDE DEF a
      <4>4. b \in Seq(S) /\ Len(b) >= 7
        BY <2>3, <4>3, ConcatLonger
      <4> HIDE DEF b
      <4>5. c \in Seq(S) /\ Len(c) >= 7
        BY <4>1, <4>4, ConcatLonger
      <4> HIDE DEF c
      <4>6. path \in Seq(S) /\ Len(path) >= 7
        BY <2>3, <4>2, <4>5, ConcatLonger
      <4> QED
        BY <4>6
    <3>2. CASE ~IsCoinbase(t)
      <4> DEFINE a == Tzkt \o contracts
                 b == a \o t
      <4>1. path = b \o storage
        BY <3>2 DEF QuoteQuery, GetStorageQuery
      <4> HIDE DEF path, contracts, storage
      <4>2. a \in Seq(S) /\ Len(a) >= 7
        <5>1. a \in Seq(S) /\ Len(a) = 7 + Len(contracts) /\ Len(contracts) \in Nat
          BY <2>2, <2>3, ConcatLonger
        <5> QED
          BY <5>1
      <4> HIDE DEF a
      <4>3. b \in Seq(S) /\ Len(b) >= 7
        BY <2>1, <4>2, ConcatLonger
      <4> HIDE DEF b
      <4>4. path \in Seq(S) /\ Len(path) >= 7
        BY <2>3, <4>1, <4>3, ConcatLonger
      <4> QED
        BY <4>4
    <3> QED
      BY <3>1, <3>2
  <2> HIDE DEF path
  <2> QED
    BY <2>1, <2>5, PathReturns DEF path
<1> QED
  BY <1>1, <1>2

-----------------------------------------------------------------------------
(* Documents and what the code reads in them.                              *)

(* A dictionary of two entries. *)
LEMMA EntriesValues ==
  ASSUME NEW k1, NEW k2, NEW n1, NEW n2, k1 # k2
  PROVE  /\ DOMAIN Entries(k1, n1, k2, n2) = {<<k1>>, <<k2>>}
         /\ Entries(k1, n1, k2, n2)[<<k1>>] = n1
         /\ Entries(k1, n1, k2, n2)[<<k2>>] = n2
  BY DEF Entries

(* The reply of Coinbase gives its price or, for a number, no quote. *)
LEMMA CoinbaseAnswer ==
  ASSUME NEW t \in Tickers, IsCoinbase(t), NEW p \in Prices[t], NEW doc \in QuoteDocuments(t, p)
  PROVE  CoinbaseQuote(Doc(doc)) \in {None, Doc(p)}
<1> DEFINE e(n) == Entries("price", n, "time", Str(<<"time">>))
<1>1. \A n : e(n)[<<"price">>] = n /\ DOMAIN e(n) = {<<"price">>, <<"time">>}
  BY EntriesValues
<1>2. Numeric(p)
  BY SourcesAssumption DEF WellFormed
<1>3. doc = Dict(e(Str(p))) \/ doc = Dict(e(Integer(p)))
  BY DEF QuoteDocuments, TickerDocument
<1> HIDE DEF e
<1>4. CASE doc = Dict(e(Str(p)))
  <2>1. doc[2][<<"price">>] = Str(p) /\ Has(doc, <<"price">>, "string")
    BY <1>1, <1>4 DEF Has, Holds, Dict, Str
  <2>2. FromString(doc[2][<<"price">>][2]) = Doc(p)
    BY <1>2, <2>1 DEF FromString, Str
  <2> QED
    BY <2>1, <2>2 DEF CoinbaseQuote, Doc, None, Thrown
<1>5. CASE doc = Dict(e(Integer(p)))
  <2>1. ~Has(doc, <<"price">>, "string")
    BY <1>1, <1>5 DEF Has, Holds, Dict, Integer
  <2> QED
    BY <2>1 DEF CoinbaseQuote, Doc, None, Thrown
<1> QED
  BY <1>3, <1>4, <1>5

(* The reply of tzkt gives the price of the side, from its pools. *)
LEMMA QuipuswapAnswer ==
  ASSUME NEW t \in Tickers, ~IsCoinbase(t), NEW p \in Prices[t], NEW doc \in QuoteDocuments(t, p),
         NEW side
  PROVE  QuipuswapQuote(Doc(doc), side) = Doc(Price(side, p))
<1> DEFINE e(a, b) == Entries("token_pool", a, "tez_pool", b)
           s(a, b) == Entry("storage", Dict(e(a, b)))
<1>1. \A a, b : /\ e(a, b)[<<"token_pool">>] = a /\ e(a, b)[<<"tez_pool">>] = b
                /\ DOMAIN e(a, b) = {<<"token_pool">>, <<"tez_pool">>}
  BY EntriesValues
<1>2. \A a, b : s(a, b)[<<"storage">>] = Dict(e(a, b)) /\ DOMAIN s(a, b) = {<<"storage">>}
  BY DEF Entry
<1>3. p = <<p[1], p[2]>> /\ Numeric(p[1]) /\ Numeric(p[2])
  BY SourcesAssumption DEF WellFormed
<1>4. PICK a, b : /\ doc = Dict(s(a, b))
                  /\ \/ a = Str(p[1]) /\ b = Str(p[2])
                     \/ a = Integer(p[1]) /\ b = Integer(p[2])
  BY DEF QuoteDocuments, StorageDocument
<1> HIDE DEF e, s
<1>5. FromJson(a) = Doc(p[1]) /\ FromJson(b) = Doc(p[2])
  BY <1>3, <1>4 DEF FromJson, FromString, Str, Integer, Holds
<1>6. /\ Has(doc, <<"storage">>, "dict") /\ doc[2][<<"storage">>][2] = e(a, b)
  BY <1>2, <1>4 DEF Has, Holds, Dict
<1>7. Doc(doc) \notin {None, Thrown} /\ Doc(doc)[2] = doc
  BY DEF Doc, None, Thrown
<1>8. Thrown \notin {Doc(p[1]), Doc(p[2])} /\ Doc(p[1])[2] = p[1] /\ Doc(p[2])[2] = p[2]
  BY DEF Doc, Thrown
<1>9. Price(side, <<p[1], p[2]>>) = Price(side, p)
  BY <1>3
<1> QED
  BY <1>1, <1>5, <1>6, <1>7, <1>8, <1>9 DEF QuipuswapQuote

(* The other documents give no quote. *)
LEMMA OddQuotes ==
  ASSUME NEW doc \in OddReplies, NEW side
  PROVE  CoinbaseQuote(Doc(doc)) \in {None, Thrown} /\ QuipuswapQuote(Doc(doc), side) = Thrown
<1>1. Doc(doc) \notin {None, Thrown} /\ Doc(doc)[2] = doc
  BY DEF Doc, None, Thrown
<1>2. Has(doc, <<"price">>, "string") => FromString(doc[2][<<"price">>][2]) = Thrown
  BY OddAssumption DEF FromString
<1>3. CoinbaseQuote(Doc(doc)) \in {None, Thrown}
  BY <1>1, <1>2 DEF CoinbaseQuote
<1>4. QuipuswapQuote(Doc(doc), side) = Thrown
  BY <1>1, OddAssumption DEF QuipuswapQuote
<1> QED
  BY <1>3, <1>4

(* Of a list of entries, checkFactoryForToken returns the key of the ticker, if any. *)
LEMMA FactoryAnswer ==
  ASSUME NEW l \in Listings, NEW f, NEW ticker
  PROVE  \/ CheckFactory(KeysDocument(l, f), ticker) = {Doc(Null)}
         \/ ticker \in DOMAIN l /\ CheckFactory(KeysDocument(l, f), ticker) = {Doc(l[ticker].key)}
<1> DEFINE D == {u \in DOMAIN l : l[u].factory = f}
           entry(t) == Entries("key", l[t].key, "value", Str(t))
           S == {Dict(entry(t)) : t \in D}
           q == SetToSeq(S)
           node == Array(q)
           hits == {k \in DOMAIN q : Holds(q[k], "dict") => Names(q[k], ticker)}
<1>1. IsFiniteSet(D)
  BY ListedAssumption, FS_Subset
<1>2. IsFiniteSet(S)
  <2> DEFINE m == [t \in D |-> Dict(entry(t))]
  <2>1. m \in Surjection(D, S)
    BY DEF Surjection
  <2> QED
    BY <1>1, <2>1, FS_Surjection
<1>3. Cardinality(S) \in Nat /\ q \in [1..Cardinality(S) -> S]
  BY <1>2, SetToSeqMembers
<1>4. ASSUME NEW t PROVE entry(t)[<<"key">>] = l[t].key /\ entry(t)[<<"value">>] = Str(t)
  BY DEF Entries
<1>5. node[2] = q /\ Holds(node, "array") /\ KeysDocument(l, f) = node
  BY DEF Array, Holds, KeysDocument
<1> HIDE DEF entry, q, node
<1>6. CASE hits = {}
  BY <1>5, <1>6 DEF CheckFactory
<1>7. CASE hits # {}
  <2> DEFINE k == Min(hits)
  <2>1. k \in hits
    <3>1. hits \subseteq Nat
      BY <1>3
    <3> HIDE DEF hits
    <3> QED
      BY <1>7, <3>1, MinElement DEF k
  <2> HIDE DEF k
  <2>2. k \in DOMAIN q /\ q[k] \in S
    BY <1>3, <2>1
  <2>3. PICK t \in D : q[k] = Dict(entry(t))
    BY <2>2
  <2>4. Holds(q[k], "dict") /\ q[k][2] = entry(t)
    BY <2>3 DEF Holds, Dict
  <2>5. Names(q[k], ticker) /\ Str(t) = Str(ticker)
    BY <1>4, <2>1, <2>4 DEF Names
  <2>6. t = ticker
    BY <2>5 DEF Str
  <2>7. HasKey(q[k], ticker)
    <3>1. <<"key">> \in DOMAIN entry(t)
      BY DEF entry, Entries
    <3> QED
      BY <2>4, <2>5, <3>1 DEF HasKey
  <2>8. CheckFactory(node, ticker) = {Doc(q[k][2][<<"key">>])}
    BY <1>5, <1>7, <2>7 DEF CheckFactory, k
  <2> QED
    BY <1>4, <1>5, <2>4, <2>6, <2>8
<1> QED
  BY <1>6, <1>7

(* The other documents name no token. *)
LEMMA OddFactory ==
  ASSUME NEW doc \in OddReplies, NEW o \in Owners
  PROVE  CheckFactory(doc, TickerOf[o]) \subseteq {Thrown, Doc(Null)}
<1> DEFINE ticker == TickerOf[o]
           hits == {k \in DOMAIN doc[2] : Holds(doc[2][k], "dict") => Names(doc[2][k], ticker)}
<1>1. CASE ~Holds(doc, "array") \/ hits = {}
  BY <1>1 DEF CheckFactory
<1>2. CASE Holds(doc, "array") /\ hits # {}
  <2>1. Min(hits) \in DOMAIN doc[2]
    <3>1. hits \subseteq Nat /\ hits \subseteq DOMAIN doc[2]
      BY <1>2, OddAssumption
    <3> HIDE DEF hits
    <3> QED
      BY <1>2, <3>1, MinElement
  <2>2. ~HasKey(doc[2][Min(hits)], ticker)
    BY <1>2, <2>1, OddAssumption DEF Range
  <2> QED
    BY <1>2, <2>2 DEF CheckFactory
<1> QED
  BY <1>1, <1>2

-----------------------------------------------------------------------------
(* The inductive invariant of Sources.                                     *)

(* A strategy asks factories while contracts are missing, and trades when none is. *)
PhaseInv ==
  /\ phase \in {"off", "init", "window", "rules", "died"} /\ active \in BOOLEAN
  /\ factory \in DOMAIN Factories /\ next \in 1..Len(Indicators) + 1
  /\ phase = "init" => Missing # {}
  /\ phase \in {"window", "rules"} => Missing = {}

(* What a market has now was shown since the window was opened. *)
MarketInv ==
  /\ listing \in Listings
  /\ market = [t \in Tickers |-> market[t]] /\ shown = [t \in Tickers |-> shown[t]]
  /\ \A t \in Tickers : market[t] \in shown[t] /\ shown[t] \subseteq Prices[t]

(* A contract is as new, or says what the listing says of its ticker. *)
Settled(c, key) == Usable(key) /\ c = TokenOf(key)
ContractInv ==
  /\ contract = [o \in Owners |-> contract[o]]
  /\ \A o \in Owners :
       contract[o] = Unset \/ (/\ TickerOf[o] \in DOMAIN listing
                               /\ Settled(contract[o], listing[TickerOf[o]].key))

(* The value of an indicator at a price of its market, and what an answer gives it. *)
Value(i, p) == IF IsCoinbase(TickerOf[i]) THEN p ELSE Price(SideOf[i], p)
Quote(i, d) == IF IsCoinbase(TickerOf[i]) THEN CoinbaseQuote(d) ELSE QuipuswapQuote(d, SideOf[i])
QuoteInv ==
  /\ mdata = [i \in Range(Indicators) |-> mdata[i]]
  /\ \A i \in Range(Indicators) :
       mdata[i] = None \/ \E p \in shown[TickerOf[i]] : mdata[i] = Doc(Value(i, p))

IInv == PhaseInv /\ MarketInv /\ ContractInv /\ QuoteInv /\ CommandsNameTokens

(* What the steps need of the constants of a strategy. *)
LEMMA Constants ==
  /\ 1 \in DOMAIN Factories /\ DOMAIN Factories = 1..Len(Factories) /\ Len(Factories) \in Nat
  /\ Len(Indicators) \in Nat /\ 1 \in 1..Len(Indicators) + 1
  /\ \A k \in 1..Len(Indicators) : Indicators[k] \in Range(Indicators)
  /\ \A r \in Range(Rules) : r \in Owners
  /\ \A i \in Range(Indicators) : TickerOf[i] \in Tickers
  BY SourcesAssumption DEF Range, Owners, Tickers

(* The places of Order are those of the indicators and then those of the rules. *)
LEMMA OrderPlaces ==
  /\ DOMAIN Order \subseteq Nat
  /\ \A k \in DOMAIN Order : Order[k] \in Owners
  /\ \A r \in Range(Rules) : \E k \in DOMAIN Order : Order[k] = r /\ ~(k <= Len(Indicators))
<1>1. Indicators \in Seq(Owners) /\ Rules \in Seq(Owners)
  BY SourcesAssumption, SeqMonotonic DEF Owners
<1>2. /\ Order \in Seq(Owners) /\ Len(Order) = Len(Indicators) + Len(Rules)
      /\ \A k \in 1..Len(Indicators) + Len(Rules) :
           Order[k] = IF k <= Len(Indicators) THEN Indicators[k] ELSE Rules[k - Len(Indicators)]
  BY <1>1, ConcatProperties DEF Order
<1>3. DOMAIN Order = 1..Len(Indicators) + Len(Rules) /\ Len(Indicators) \in Nat /\ Len(Rules) \in Nat
  BY <1>1, <1>2, LenProperties
<1>4. \A k \in DOMAIN Order : Order[k] \in Owners
  BY <1>2, <1>3, ElementOfSeq
<1>5. ASSUME NEW r \in Range(Rules)
      PROVE  \E k \in DOMAIN Order : Order[k] = r /\ ~(k <= Len(Indicators))
  <2>1. PICK j \in 1..Len(Rules) : Rules[j] = r
    BY <1>1, LenProperties DEF Range
  <2>2. Len(Indicators) + j \in DOMAIN Order /\ ~(Len(Indicators) + j <= Len(Indicators))
    BY <1>3
  <2>3. Order[Len(Indicators) + j] = r
    BY <1>2, <1>3, <2>1, <2>2
  <2> QED
    BY <2>2, <2>3
<1> QED
  BY <1>3, <1>4, <1>5

(* A key without a token leaves the contract as new; listed keys have one or none. *)
LEMMA KeysOfTokens ==
  /\ TokenOf(Null) = Unset /\ ~Usable(Null)
  /\ \A l \in Listings : \A t \in DOMAIN l :
       Usable(l[t].key) \/ TokenOf(l[t].key) = Unset
  /\ \A key : Usable(key) => TokenOf(key).set /\ TokenOf(key).standard # "none"
  /\ ~Unset.set
<1>1. TokenOf(Null) = Unset /\ ~Usable(Null) /\ ~Unset.set
  BY DEF TokenOf, Usable, Null, Holds, Has, Unset
<1>2. ASSUME NEW l \in Listings, NEW t \in DOMAIN l
      PROVE  Usable(l[t].key) \/ TokenOf(l[t].key) = Unset
  <2> DEFINE key == l[t].key
  <2>1. Holds(key, "dict") /\ <<"address">> \in DOMAIN key[2] => Has(key, <<"address">>, "string")
    BY ListedAssumption
  <2> HIDE DEF key
  <2> QED
    BY <2>1 DEF TokenOf, Usable, key
<1>3. ASSUME NEW key, Usable(key) PROVE TokenOf(key).set /\ TokenOf(key).standard # "none"
  BY <1>3 DEF TokenOf, Usable, Has, Holds
<1> QED
  BY <1>1, <1>2, <1>3

(* The invariant holds before anything is started. *)
LEMMA InitIInv == Init => IInv
<1> SUFFICES ASSUME Init PROVE IInv
  OBVIOUS
<1>1. PhaseInv
  BY Constants DEF Init, PhaseInv
<1>2. MarketInv
  BY DEF Init, MarketInv
<1>3. ContractInv
  BY DEF Init, ContractInv
<1>4. QuoteInv
  BY DEF Init, QuoteInv, NoQuotes
<1>5. CommandsNameTokens
  BY DEF Init, CommandsNameTokens
<1> QED
  BY <1>1, <1>2, <1>3, <1>4, <1>5 DEF IInv

(* A window opens with no quotes and the prices of its moment. *)
LEMMA WindowOpens ==
  ASSUME MarketInv, OpenWindow, UNCHANGED <<listing, market>>
  PROVE  MarketInv' /\ QuoteInv' /\ next' = 1
<1>1. MarketInv'
  BY DEF MarketInv, OpenWindow
<1>2. QuoteInv'
  BY DEF QuoteInv, OpenWindow, NoQuotes
<1> QED
  BY <1>1, <1>2 DEF OpenWindow

(* A step that leaves its variables alone does not disturb a part of the invariant. *)
LEMMA KeepsMarket == MarketInv /\ UNCHANGED world => MarketInv'
  BY DEF MarketInv, world
(* The quotes. *)
LEMMA KeepsQuotes == QuoteInv /\ UNCHANGED <<mdata, shown>> => QuoteInv'
  BY DEF QuoteInv
(* The contracts. *)
LEMMA KeepsContracts == ContractInv /\ UNCHANGED <<contract, listing>> => ContractInv'
  BY DEF ContractInv
(* The commands. *)
LEMMA KeepsCommands == CommandsNameTokens /\ UNCHANGED <<command, listing>> => CommandsNameTokens'
  BY DEF CommandsNameTokens
(* The contracts that are missing. *)
LEMMA KeepsMissing == UNCHANGED contract => Missing' = Missing
  BY DEF Missing

-----------------------------------------------------------------------------
(* The steps of Sources.                                                   *)

(* Starting goes straight to the window when no contract is missing, and asks otherwise. *)
LEMMA StartStep == ASSUME IInv, Start PROVE IInv'
<1>1. MarketInv /\ QuoteInv /\ PhaseInv /\ UNCHANGED <<listing, market>>
  BY DEF IInv, Start
<1>2. CASE Missing = {}
  <2>1. OpenWindow /\ phase' = "window"
    BY <1>2 DEF Start
  <2>2. MarketInv' /\ QuoteInv' /\ next' = 1
    BY <1>1, <2>1, WindowOpens
  <2>3. PhaseInv'
    BY <1>1, <1>2, <2>1, <2>2, Constants, KeepsMissing DEF Start, PhaseInv
  <2> QED
    BY <2>2, <2>3, KeepsContracts, KeepsCommands DEF Start, IInv
<1>3. CASE Missing # {}
  <2>1. PhaseInv'
    BY <1>1, <1>3, Constants, KeepsMissing DEF Start, PhaseInv
  <2> QED
    BY <1>3, <2>1, KeepsMarket, KeepsQuotes, KeepsContracts, KeepsCommands DEF Start, IInv, world
<1> QED
  BY <1>2, <1>3

(* A new cycle opens a new window. *)
LEMMA NextCycleStep == ASSUME IInv, NextCycle PROVE IInv'
<1>1. MarketInv /\ QuoteInv /\ PhaseInv /\ OpenWindow /\ UNCHANGED <<listing, market>>
  BY DEF IInv, NextCycle
<1>2. MarketInv' /\ QuoteInv' /\ next' = 1
  BY <1>1, WindowOpens
<1>3. PhaseInv'
  BY <1>1, <1>2, Constants, KeepsMissing DEF NextCycle, PhaseInv
<1> QED
  BY <1>2, <1>3, KeepsContracts, KeepsCommands DEF NextCycle, IInv

(* Steps of the strategy that touch neither contracts nor quotes. *)
LEMMA PhaseStep ==
  ASSUME IInv, Stop \/ NextRound \/ CloseWindow \/ Crash PROVE IInv'
<1>1. UNCHANGED <<factory, contract, mdata, command, world>>
  BY DEF Stop, NextRound, CloseWindow, Crash
<1>2. PhaseInv'
  BY <1>1, Constants, KeepsMissing DEF Stop, NextRound, CloseWindow, Crash, PhaseInv, IInv
<1> QED
  BY <1>1, <1>2, KeepsMarket, KeepsQuotes, KeepsContracts, KeepsCommands DEF IInv, world

(* A trade finds its contract settled, with the token that is listed. *)
LEMMA TradeStep == ASSUME IInv, NEW r \in Range(Rules), Trade(r) PROVE IInv'
<1> DEFINE key == listing[TickerOf[r]].key
<1>1. Missing = {} /\ r \in Owners /\ PhaseInv /\ ContractInv /\ listing \in Listings
  BY Constants DEF Trade, IInv, PhaseInv, MarketInv
<1>2. contract[r].set
  BY <1>1, OrderPlaces DEF Missing
<1>3. TickerOf[r] \in DOMAIN listing /\ Usable(key) /\ contract[r] = TokenOf(key)
  BY <1>1, <1>2, KeysOfTokens DEF ContractInv, Settled
<1>4. ~IsCoinbase(TickerOf[r])
  BY <1>1, <1>3, ListedAssumption
<1>5. command' = <<"command", SideOf[r], TokenOf(key).standard, TokenOf(key).token>>
  BY <1>3, <1>4, KeysOfTokens DEF Trade, MakeCommand
<1>6. /\ Holds(key, "string") => TokenOf(key).standard = "FA1_2" /\ TokenOf(key).token = key[2]
      /\ ~Holds(key, "string") => /\ TokenOf(key).standard = "FA2"
                                  /\ TokenOf(key).token = key[2][<<"address">>][2]
  <2> HIDE DEF key
  <2> QED
    BY <1>3 DEF TokenOf, Usable, Has, Holds
<1>7. CommandsNameTokens'
  <2>1. listing' = listing
    BY DEF Trade, world
  <2>2. command' = IF Holds(key, "string") THEN <<"command", SideOf[r], "FA1_2", key[2]>>
                   ELSE <<"command", SideOf[r], "FA2", key[2][<<"address">>][2]>>
    BY <1>5, <1>6
  <2> QED
    BY <1>3, <2>1, <2>2 DEF CommandsNameTokens
<1>8. PhaseInv'
  <2>1. command' # Thrown
    BY <1>5 DEF Thrown
  <2> QED
    BY <1>1, <2>1, KeepsMissing DEF Trade, PhaseInv
<1> QED
  BY <1>7, <1>8, KeepsMarket, KeepsQuotes, KeepsContracts DEF Trade, IInv, world

(* A market that moves shows its new price and keeps those before. *)
LEMMA MoveStep == ASSUME IInv, NEW t \in Tickers, NEW p, Move(t, p) PROVE IInv'
<1>1. MarketInv'
  BY DEF IInv, MarketInv, Move
<1>2. \A u \in Tickers : shown[u] \subseteq shown'[u]
  BY DEF IInv, MarketInv, Move
<1>3. QuoteInv'
  BY <1>2, Constants DEF IInv, QuoteInv, Move, process
<1>4. PhaseInv'
  BY KeepsMissing DEF IInv, PhaseInv, Move, process
<1> QED
  BY <1>1, <1>3, <1>4, KeepsContracts, KeepsCommands DEF Move, IInv, process

(* What the initialisation learns from a response: nothing, that this factory does not
   know the ticker, or the key that the exchange lists for it. *)
LEMMA FactoryResponse ==
  ASSUME IInv, phase = "init", NEW d \in Responses, NEW o \in Owners, NEW ticker, ticker = TickerOf[o],
         NEW key \in IF d \in {None, Thrown} THEN {Thrown} ELSE CheckFactory(d[2], ticker)
  PROVE  \/ key \in {Thrown, Doc(Null)}
         \/ ticker \in DOMAIN listing /\ key = Doc(listing[ticker].key)
<1>1. listing \in Listings
  BY DEF IInv, MarketInv
<1>2. CASE d \in {None, Thrown}
  BY <1>2
<1>3. CASE d \notin {None, Thrown}
  <2>1. PICK doc \in Answers : d = Doc(doc)
    BY <1>3 DEF Responses
  <2>2. d[2] = doc
    BY <2>1 DEF Doc
  <2>3. doc \in OddReplies \/ doc = KeysDocument(listing, Factories[factory])
    BY DEF Answers
  <2> QED
    BY <1>1, <1>3, <2>2, <2>3, OddFactory, FactoryAnswer
<1> QED
  BY <1>2, <1>3

(* A settled contract is not missing any more, and no other contract changes. *)
LEMMA SettleMissing ==
  ASSUME ContractInv, NEW k \in Missing, NEW c,
         contract' = [contract EXCEPT ![Order[k]] = c], c.set
  PROVE  Missing' = Missing \ {k}
<1>1. k \in DOMAIN Order /\ \A j \in DOMAIN Order : Order[j] \in Owners
  BY OrderPlaces DEF Missing
<1>2. \A j \in DOMAIN Order : contract'[Order[j]] = IF j = k THEN c ELSE contract[Order[j]]
  BY <1>1, SourcesAssumption DEF ContractInv
<1> QED
  BY <1>1, <1>2 DEF Missing

(* Settling one contract: the phase follows from the contracts that are still missing. *)
LEMMA SettleStep ==
  ASSUME IInv, phase = "init", NEW node,
         LET o == Order[Min(Missing)]
         IN /\ Settle(o, node)
            /\ node = Null \/ (TickerOf[o] \in DOMAIN listing /\ node = listing[TickerOf[o]].key),
         UNCHANGED <<active, command, listing, market>>
  PROVE  IInv'
<1> DEFINE k == Min(Missing)
           o == Order[k]
<1>1. k \in Missing /\ o \in Owners
  BY MinElement, OrderPlaces DEF IInv, PhaseInv, Missing
<1> HIDE DEF k
<1>2. Settle(o, node) /\ (node = Null \/ (TickerOf[o] \in DOMAIN listing /\ node = listing[TickerOf[o]].key))
  BY DEF k
<1>3. contract' = [contract EXCEPT ![o] = TokenOf(node)] /\ factory' = 1
  BY <1>2 DEF Settle
<1>4. TokenOf(node) = Unset \/ (TickerOf[o] \in DOMAIN listing /\ Settled(TokenOf(node), listing[TickerOf[o]].key))
  BY <1>2, KeysOfTokens DEF IInv, MarketInv, Settled
<1>5. ContractInv'
  BY <1>1, <1>3, <1>4 DEF IInv, ContractInv
<1>6. CommandsNameTokens'
  BY KeepsCommands DEF IInv
<1>7. CASE ~Usable(node)
  <2>1. phase' = "off" /\ UNCHANGED <<next, mdata, shown>>
    BY <1>2, <1>7 DEF Settle
  <2> QED
    BY <1>3, <1>5, <1>6, <2>1, Constants, KeepsMarket, KeepsQuotes DEF IInv, PhaseInv, world
<1>8. CASE Usable(node)
  <2>1. Missing' = Missing \ {k}
    BY <1>1, <1>3, <1>8, KeysOfTokens, SettleMissing DEF IInv
  <2>2. IsFiniteSet(Missing)
    <3>1. IsFiniteSet(1..Len(Order))
      BY SourcesAssumption, SeqMonotonic, ConcatProperties, FS_Interval DEF Owners, Order
    <3>2. DOMAIN Order = 1..Len(Order)
      BY SourcesAssumption, SeqMonotonic, ConcatProperties, LenProperties DEF Owners, Order
    <3> QED
      BY <3>1, <3>2, FS_Subset DEF Missing
  <2>3. CASE Cardinality(Missing) = 1
    <3>1. Missing' = {}
      BY <1>1, <2>1, <2>2, <2>3, FS_Singleton
    <3>2. phase' = "window" /\ OpenWindow
      BY <1>2, <1>8, <2>3 DEF Settle
    <3>3. MarketInv' /\ QuoteInv' /\ next' = 1
      BY <3>2, WindowOpens DEF IInv
    <3> QED
      BY <1>3, <1>5, <1>6, <3>1, <3>2, <3>3, Constants DEF IInv, PhaseInv
  <2>4. CASE Cardinality(Missing) # 1
    <3>1. Missing' # {}
      <4>1. Missing # {k}
        BY <2>4, FS_Singleton
      <4> QED
        BY <1>1, <2>1, <4>1
    <3>2. UNCHANGED <<phase, next, mdata, shown>>
      BY <1>2, <1>8, <2>4 DEF Settle
    <3> QED
      BY <1>3, <1>5, <1>6, <3>1, <3>2, Constants, KeepsMarket, KeepsQuotes DEF IInv, PhaseInv, world
  <2> QED
    BY <2>3, <2>4
<1> QED
  BY <1>7, <1>8

(* A response of a factory ends the start, moves on to the next factory, or settles. *)
LEMMA AskFactoryStep == ASSUME IInv, NEW d \in Responses, AskFactory(d) PROVE IInv'
<1> DEFINE o == Order[Min(Missing)]
           keys == IF d \in {None, Thrown} THEN {Thrown} ELSE CheckFactory(d[2], TickerOf[o])
<1>1. phase = "init" /\ UNCHANGED <<active, command, listing, market>>
  BY DEF AskFactory
<1> DEFINE outcome(k) ==
      CASE k = Thrown -> /\ phase' = "off" /\ factory' = 1
                         /\ UNCHANGED <<contract, next, mdata, shown>>
        [] k = Doc(Null) /\ factory < Len(Factories) ->
             factory' = factory + 1 /\ UNCHANGED <<phase, contract, next, mdata, shown>>
        [] OTHER -> Settle(o, k[2])
<1> HIDE DEF outcome
<1>0. PICK key \in keys : outcome(key)
  BY DEF AskFactory, outcome
<1>2. \/ key \in {Thrown, Doc(Null)}
      \/ TickerOf[o] \in DOMAIN listing /\ key = Doc(listing[TickerOf[o]].key)
  <2>1. o \in Owners
    BY <1>1, MinElement, OrderPlaces DEF IInv, PhaseInv, Missing
  <2> QED
    BY <1>0, <1>1, <2>1, FactoryResponse
<1> USE DEF outcome
<1>3. outcome(key)
  BY <1>0
<1> HIDE DEF o, keys
<1>4. CASE key = Thrown
  <2>1. phase' = "off" /\ factory' = 1 /\ UNCHANGED <<contract, next, mdata, shown>>
    BY <1>3, <1>4 DEF Doc, Thrown
  <2>2. PhaseInv'
    BY <1>1, <2>1, Constants DEF IInv, PhaseInv
  <2> QED
    BY <1>1, <2>1, <2>2, KeepsMarket, KeepsQuotes, KeepsContracts, KeepsCommands DEF IInv, world
<1>5. CASE key = Doc(Null) /\ factory < Len(Factories)
  <2>1. factory' = factory + 1 /\ UNCHANGED <<phase, contract, next, mdata, shown>>
    BY <1>3, <1>5 DEF Doc, Thrown
  <2>2. PhaseInv'
    BY <1>1, <1>5, <2>1, Constants, KeepsMissing DEF IInv, PhaseInv
  <2> QED
    BY <1>1, <2>1, <2>2, KeepsMarket, KeepsQuotes, KeepsContracts, KeepsCommands DEF IInv, world
<1>6. CASE key # Thrown /\ ~(key = Doc(Null) /\ factory < Len(Factories))
  <2>1. Settle(o, key[2])
    BY <1>3, <1>6
  <2>2. key[2] = Null \/ (TickerOf[o] \in DOMAIN listing /\ key[2] = listing[TickerOf[o]].key)
    BY <1>2, <1>6 DEF Doc
  <2> QED
    BY <1>1, <2>1, <2>2, SettleStep DEF o
<1> QED
  BY <1>4, <1>5, <1>6

(* A response to a request for a quote: a value of the market of this moment or none. *)
LEMMA QuoteResponse ==
  ASSUME IInv, phase = "window", next <= Len(Indicators), NEW d \in Responses
  PROVE  LET i == Indicators[next]
         IN Quote(i, d) \in {None, Thrown, Doc(Value(i, market[TickerOf[i]]))}
<1> DEFINE i == Indicators[next]
           t == TickerOf[i]
<1>1. i \in Range(Indicators) /\ t \in Tickers /\ market[t] \in Prices[t]
  BY Constants DEF IInv, PhaseInv, MarketInv
<1> HIDE DEF i
<1>2. CASE d \in {None, Thrown}
  <2>2. CoinbaseQuote(d) = d
    BY <1>2 DEF CoinbaseQuote
  <2>3. QuipuswapQuote(d, SideOf[i]) = Thrown
    BY <1>2 DEF QuipuswapQuote
  <2> QED
    BY <1>2, <2>2, <2>3 DEF Quote, i
<1>3. CASE d \notin {None, Thrown}
  <2>1. PICK doc \in Answers : d = Doc(doc)
    BY <1>3 DEF Responses
  <2>2. doc \in OddReplies \/ doc \in QuoteDocuments(t, market[t])
    BY DEF Answers, i
  <2>3. CASE doc \in OddReplies
    BY <2>1, <2>3, OddQuotes DEF Quote
  <2>4. CASE doc \in QuoteDocuments(t, market[t])
    <3>1. CASE IsCoinbase(t)
      <4>1. CoinbaseQuote(Doc(doc)) \in {None, Doc(market[t])}
        BY <1>1, <2>4, <3>1, CoinbaseAnswer
      <4> QED
        BY <2>1, <3>1, <4>1 DEF Quote, Value, i
    <3>2. CASE ~IsCoinbase(t)
      <4>1. QuipuswapQuote(Doc(doc), SideOf[i]) = Doc(Price(SideOf[i], market[t]))
        BY <1>1, <2>4, <3>2, QuipuswapAnswer
      <4> QED
        BY <2>1, <3>2, <4>1 DEF Quote, Value, i
    <3> QED
      BY <3>1, <3>2
  <2> QED
    BY <2>2, <2>3, <2>4
<1> QED
  BY <1>2, <1>3 DEF i

(* A response to a quote request adds a quote of this moment, nothing, or ends all. *)
LEMMA AskQuoteStep == ASSUME IInv, NEW d \in Responses, AskQuote(d) PROVE IInv'
<1> DEFINE i == Indicators[next]
           t == TickerOf[i]
<1>1. phase = "window" /\ next <= Len(Indicators) /\ UNCHANGED <<active, factory, contract, command, world>>
  BY DEF AskQuote
<1>2. Quote(i, d) \in {None, Thrown, Doc(Value(i, market[t]))}
  BY <1>1, QuoteResponse
<1>3. i \in Range(Indicators) /\ t \in Tickers /\ market[t] \in shown[t]
  BY <1>1, Constants DEF IInv, PhaseInv, MarketInv
<1>4. IF Quote(i, d) = Thrown THEN phase' = "died" /\ UNCHANGED <<next, mdata>>
      ELSE next' = next + 1 /\ Keep(i, Quote(i, d)) /\ UNCHANGED phase
  BY DEF AskQuote, Quote
<1> HIDE DEF i
<1>5. PhaseInv'
  BY <1>1, <1>4, Constants, KeepsMissing DEF IInv, PhaseInv
<1>6. QuoteInv'
  <2>1. CASE Quote(i, d) = Thrown
    BY <1>1, <1>4, <2>1, KeepsQuotes DEF IInv, world
  <2>2. CASE Quote(i, d) # Thrown
    <3>1. mdata' = [mdata EXCEPT ![i] = IF @ = None THEN Quote(i, d) ELSE @] /\ shown' = shown
      BY <1>1, <1>4, <2>2 DEF Keep, world
    <3> QED
      BY <1>2, <1>3, <2>2, <3>1 DEF IInv, QuoteInv
  <2> QED
    BY <2>1, <2>2
<1> QED
  BY <1>1, <1>5, <1>6, KeepsMarket, KeepsContracts, KeepsCommands DEF IInv, world

-----------------------------------------------------------------------------
(* The theorems about Sources.                                             *)

(* The invariant is inductive. *)
LEMMA SourcesStep == IInv /\ [Next]_vars => IInv'
<1> SUFFICES ASSUME IInv, [Next]_vars PROVE IInv'
  OBVIOUS
<1>1. CASE UNCHANGED vars
  BY <1>1, KeepsMissing, KeepsMarket, KeepsQuotes, KeepsContracts, KeepsCommands
     DEF IInv, PhaseInv, vars, process, world
<1>2. CASE Internal
  BY <1>2, StartStep, NextCycleStep, PhaseStep, TradeStep, MoveStep DEF Internal
<1>3. CASE Crash
  BY <1>3, PhaseStep
<1>4. CASE Asking /\ \E d \in Responses : AskFactory(d) \/ AskQuote(d)
  BY <1>4, AskFactoryStep, AskQuoteStep
<1> QED
  BY <1>1, <1>2, <1>3, <1>4 DEF Next

(* The inductive invariant of Sources holds in every behaviour. *)
THEOREM SourcesInvariant == Spec => []IInv
  BY InitIInv, SourcesStep, PTL DEF Spec

(* QuoteInv says what QuotesOfWindow says. *)
LEMMA QuotesFromInvariant == IInv => QuotesOfWindow
<1> SUFFICES ASSUME IInv, NEW i \in Range(Indicators), mdata[i] # None
             PROVE  LET t == TickerOf[i]
                        value(p) == IF IsCoinbase(t) THEN p ELSE Price(SideOf[i], p)
                    IN \E p \in shown[t] : mdata[i] = Doc(value(p))
  BY DEF QuotesOfWindow
<1> QED
  BY DEF IInv, QuoteInv, Value

(* What has the type of the model follows from what it says. *)
LEMMA TypeFromInvariant == IInv => TypeOK
<1> SUFFICES ASSUME IInv PROVE TypeOK
  OBVIOUS
<1>1. ASSUME NEW o \in Owners
      PROVE  DOMAIN contract[o] = DOMAIN Unset /\ (contract[o].standard = "none" <=> ~contract[o].set)
  <2>1. CASE contract[o] = Unset
    BY <2>1 DEF Unset
  <2>2. CASE contract[o] # Unset
    <3>1. PICK key : contract[o] = TokenOf(key) /\ Usable(key)
      BY <2>2 DEF IInv, ContractInv, Settled
    <3>2. DOMAIN TokenOf(key) = DOMAIN Unset
      BY DEF TokenOf, Unset
    <3> QED
      BY <3>1, <3>2, KeysOfTokens
  <2> QED
    BY <2>1, <2>2
<1>2. ASSUME NEW i \in Range(Indicators), mdata[i] # None
      PROVE  /\ mdata[i][1] = "doc"
             /\ \A d \in Range(mdata[i][2]) :
                  IF IsCoinbase(TickerOf[i]) THEN d \in DigitSet ELSE Numeric(d)
  <2>1. PICK p \in shown[TickerOf[i]] : mdata[i] = Doc(Value(i, p))
    BY <1>2 DEF IInv, QuoteInv
  <2>2. mdata[i][1] = "doc" /\ mdata[i][2] = Value(i, p)
    BY <2>1 DEF Doc
  <2>3. WellFormed(TickerOf[i], p)
    BY <2>1, Constants, SourcesAssumption DEF IInv, MarketInv
  <2>4. CASE IsCoinbase(TickerOf[i])
    BY <2>2, <2>3, <2>4 DEF Value, WellFormed, Numeric
  <2>5. CASE ~IsCoinbase(TickerOf[i])
    <3>1. \/ Value(i, p) = <<p[1], p[2]>>
          \/ Value(i, p) = <<p[2], p[1]>>
      BY <2>3, <2>5 DEF Value, Price, WellFormed
    <3>2. Numeric(p[1]) /\ Numeric(p[2])
      BY <2>3, <2>5 DEF WellFormed
    <3>3. \A a, b : Range(<<a, b>>) = {a, b}
      BY DEF Range
    <3> QED
      BY <2>2, <2>5, <3>1, <3>2, <3>3
  <2> QED
    BY <2>4, <2>5
<1> QED
  BY <1>1, <1>2 DEF TypeOK, IInv, PhaseInv

(* The types of Sources. *)
THEOREM SourcesTypeCorrect == Spec => []TypeOK
  BY SourcesInvariant, TypeFromInvariant, PTL

(* The quote of an indicator is a price that its market had in this window. *)
THEOREM QuotesAreOfWindow == Spec => []QuotesOfWindow
  BY SourcesInvariant, QuotesFromInvariant, PTL

(* A command names the token that the exchange lists for the ticker of its rule. *)
THEOREM CommandsAreListed == Spec => []CommandsNameTokens
<1>1. IInv => CommandsNameTokens
  BY DEF IInv
<1> QED
  BY <1>1, SourcesInvariant, PTL

-----------------------------------------------------------------------------
(* One request, through a handler that keeps what is left in it.           *)

(* The members of the handler; whatever its method was, libcurl sends GET. *)
CurlInv ==
  /\ DOMAIN curl = {"method", "verb", "code", "body", "headers", "type"}
  /\ curl = [f \in DOMAIN curl |-> curl[f]]
  /\ curl.verb = "Get"

(* What has come when a transfer is reported to be a success. *)
LEMMA TransferBodies ==
  ASSUME NEW text, text \in Seq(Range(text)), NEW cuts, cuts \subseteq 0..Len(text) - 1,
         NEW x \in Transfers(text, cuts)
  PROVE  /\ x.code \in Codes
         /\ x.code = "OK" => /\ << >> \o x.body = x.body
                             /\ \/ x.body \in {text, Page}
                                \/ \E n \in 0..Len(text) - 1 : x.body = SubSeq(text, 1, n)
<1> DEFINE P == {"<", "html", ">"}
<1>1. SubSeq(text, 1, Len(text)) = text /\ SubSeq(Page, 1, 3) = Page /\ Page \in Seq(P)
  <2>1. Page \in Seq(P)
    BY DEF Page
  <2>2. Len(Page) = 3
    BY DEF Page
  <2> QED
    BY <2>1, <2>2, SubSeqFull
<1>2. /\ x.code \in Codes
      /\ x.code = "OK" => \/ x.body \in {text, Page}
                          \/ \E n \in 0..Len(text) - 1 : x.body = SubSeq(text, 1, n)
  <2>2. {"OK", "known", "unknown"} = Codes
    BY DEF Codes
  <2>3. CASE x \in {Transfer("OK", hs, text, Len(text)) : hs \in Headers}
    <3>1. PICK hs \in Headers : x = Transfer("OK", hs, text, Len(text))
      BY <2>3
    <3>2. x.code = "OK" /\ x.body = SubSeq(text, 1, Len(text))
      BY <3>1 DEF Transfer
    <3> QED
      BY <1>1, <2>2, <3>2
  <2>4. CASE x \in UNION {BrokenOff(text, n) : n \in cuts}
    <3>1. PICK n \in cuts : x \in BrokenOff(text, n)
      BY <2>4
    <3>2. x.code \in {"OK", "known"} /\ x.body = SubSeq(text, 1, n)
      <4>1. CASE x = Transfer("OK", <<"Content-Type: json">>, text, n)
        BY <4>1 DEF Transfer
      <4>2. CASE x = Transfer("OK", <<"Content-Type: text">>, text, n)
        BY <4>2 DEF Transfer
      <4>3. CASE x = Transfer("known", <<"Content-Type: json">>, text, n)
        BY <4>3 DEF Transfer
      <4> QED
        BY <3>1, <4>1, <4>2, <4>3 DEF BrokenOff
    <3> QED
      BY <2>2, <3>2
  <2>6. CASE x = Transfer("known", <<"Content-Type: pdf">>, text, Len(text))
    BY <2>2, <2>6 DEF Transfer
  <2>7. CASE x = Transfer("unknown", << >>, text, 0)
    BY <2>2, <2>7 DEF Transfer
  <2>8. CASE x = Transfer("OK", <<"Content-Type: text">>, Page, 3)
    <3>1. x.code = "OK" /\ x.body = SubSeq(Page, 1, 3)
      BY <2>8 DEF Transfer
    <3> QED
      BY <1>1, <2>2, <3>1
  <2> QED
    <3> DEFINE A == {Transfer("OK", hs, text, Len(text)) : hs \in Headers}
               B == UNION {BrokenOff(text, n) : n \in cuts}
               C == {Transfer("known", <<"Content-Type: pdf">>, text, Len(text)),
                     Transfer("unknown", << >>, text, 0),
                     Transfer("OK", <<"Content-Type: text">>, Page, 3)}
    <3>1. Transfers(text, cuts) = A \cup B \cup C
      BY DEF Transfers
    <3> HIDE DEF A, B, C
    <3>2. x \in A \/ x \in B \/ x \in C
      BY <3>1
    <3> QED
      BY <2>3, <2>4, <2>6, <2>7, <2>8, <3>2 DEF A, B, C
<1>3. ASSUME NEW n \in 0..Len(text) - 1
      PROVE  << >> \o SubSeq(text, 1, n) = SubSeq(text, 1, n)
  <2>1. \A k \in 1..n : text[k] \in Range(text)
    BY LenProperties DEF Range
  <2>2. SubSeq(text, 1, n) \in Seq(Range(text))
    BY <2>1, SubSeqProperties
  <2> QED
    BY <2>2, ConcatEmptySeq
<1>4. << >> \o text = text /\ << >> \o Page = Page
  BY <1>1, ConcatEmptySeq
<1> QED
  BY <1>2, <1>3, <1>4

(* A reply is read as the document that was sent when all of it came, and as none
   otherwise, whatever the handler held before. *)
LEMMA RequestReplies ==
  ASSUME CurlInv, NEW path, NEW doc, Codec({doc}), NEW cuts, Request(path, doc, cuts)
  PROVE  /\ CurlInv'
         /\ asked' = <<Stringify(Elements(path)), "Get">>
         /\ \/ sent' = <<doc, TRUE>> /\ DocumentOf(reply') = Doc(doc)
            \/ sent' = <<doc, FALSE>> /\ DocumentOf(reply') \in {None, Thrown}
<1> DEFINE text == Serialise(doc)
           C == cuts \cap 0..Len(text) - 1
<1>1. PICK x \in Transfers(text, C) : /\ Implement(path, x)
                                      /\ sent' = <<doc, x.code = "OK" /\ x.body = text>>
  BY DEF Request
<1>2. /\ text \in Seq(Range(text)) /\ Parse(text) = Doc(doc) /\ Parse(Page) = Thrown
      /\ \A n \in 0..Len(text) - 1 : Parse(SubSeq(text, 1, n)) = Thrown
  BY DEF Codec
<1> HIDE DEF text
<1>3. /\ x.code \in Codes
      /\ x.code = "OK" => /\ << >> \o x.body = x.body
                          /\ \/ x.body \in {text, Page}
                             \/ \E n \in 0..Len(text) - 1 : x.body = SubSeq(text, 1, n)
  BY <1>1, <1>2, TransferBodies
<1> DEFINE c == PerformRequest(SetMethod(curl), x)
<1>4. /\ DOMAIN c = DOMAIN curl /\ c = [f \in DOMAIN c |-> c[f]] /\ c.verb = "Get"
      /\ c.code = x.code
      /\ c.body = << >> \o x.body
      /\ x.code = "OK" => c.type \in {"Json", "Text"}
  BY DEF CurlInv, PerformRequest, SetMethod, SetResponseType, Receive, ClearBuffers
<1>5. /\ asked' = <<Stringify(Elements(path)), c.verb>>
      /\ \/ c.code = "OK" /\ curl' = [c EXCEPT !.headers = << >>, !.body = << >>]
                          /\ reply' = Body(c)
         \/ c.code # "OK" /\ curl' = c /\ reply' = IF c.code = "known" THEN None ELSE Thrown
  BY <1>1 DEF Implement
<1> HIDE DEF c
<1>6. CurlInv'
  BY <1>4, <1>5 DEF CurlInv
<1>7. /\ \A node : DocumentOf(Doc(node)) = Doc(node)
      /\ DocumentOf(None) = None /\ DocumentOf(Thrown) = Thrown
      /\ \A t : DocumentOf(Text(t)) = Parse(t)
  BY DEF DocumentOf, Doc, None, Thrown, Text
<1>8. CASE x.code = "OK"
  <2>1. c.body = x.body /\ reply' = Body(c) /\ c.type \in {"Json", "Text"}
    BY <1>3, <1>4, <1>5, <1>8
  <2>2. Parse(x.body) = IF x.body = text THEN Doc(doc) ELSE Thrown
    BY <1>2, <1>3, <1>8
  <2>3. Body(c) = IF c.type = "Text" THEN Text(x.body) ELSE Parse(x.body)
    BY <2>1 DEF Body
  <2>4. DocumentOf(reply') = Parse(x.body)
    BY <1>7, <2>1, <2>2, <2>3
  <2> QED
    BY <1>1, <1>4, <1>5, <1>6, <1>8, <2>2, <2>4
<1>9. CASE x.code # "OK"
  <2>1. reply' \in {None, Thrown}
    BY <1>4, <1>5, <1>9
  <2>2. sent' = <<doc, FALSE>>
    BY <1>1, <1>9
  <2> QED
    BY <1>4, <1>5, <1>6, <1>7, <2>1, <2>2
<1> QED
  BY <1>8, <1>9

-----------------------------------------------------------------------------
(* A strategy over the handler.                                            *)

(* What a server answers in a state of the invariant is a document of the instance. *)
LEMMA AnswersAreDocuments ==
  ASSUME IInv, phase = "init" \/ (phase = "window" /\ next <= Len(Indicators)),
         NEW doc \in Answers
  PROVE  doc \in Documents
<1>1. CASE doc \in OddReplies
  BY <1>1 DEF Documents
<1>2. CASE doc \notin OddReplies /\ phase = "init"
  <2>1. doc = KeysDocument(listing, Factories[factory])
    BY <1>2 DEF Answers
  <2>2. listing \in Listings /\ Factories[factory] \in Range(Factories)
    BY DEF IInv, PhaseInv, MarketInv, Range
  <2> QED
    BY <2>1, <2>2 DEF Documents
<1>3. CASE doc \notin OddReplies /\ phase # "init"
  <2> DEFINE t == TickerOf[Indicators[next]]
  <2>1. t \in Tickers /\ market[t] \in Prices[t]
    BY <1>3, Constants DEF IInv, PhaseInv, MarketInv
  <2>2. doc \in QuoteDocuments(t, market[t])
    BY <1>3 DEF Answers
  <2> HIDE DEF t
  <2> QED
    BY <2>1, <2>2 DEF Documents
<1> QED
  BY <1>1, <1>2, <1>3

(* A request of the strategy, and what comes of it. *)
LEMMA AskReplies ==
  ASSUME IInv, CurlInv, NEW doc \in Answers, HttpAskFactory(doc) \/ HttpAskQuote(doc)
  PROVE  /\ CurlInv'
         /\ \E path \in {GetBigMapKeysQuery(f) : f \in Range(Factories)}
                          \cup {QuoteQuery(t) : t \in Tickers} :
              asked' = <<Stringify(Elements(path)), "Get">>
         /\ \/ sent' = <<doc, TRUE>> /\ DocumentOf(reply') = Doc(doc)
            \/ sent' = <<doc, FALSE>> /\ DocumentOf(reply') \in {None, Thrown}
         /\ AskFactory(DocumentOf(reply')) \/ AskQuote(DocumentOf(reply'))
<1> DEFINE cuts == Cuts(Len(Serialise(doc)))
<1>1. phase = "init" \/ (phase = "window" /\ next <= Len(Indicators))
  BY DEF HttpAskFactory, HttpAskQuote
<1>2. Codec({doc})
  BY <1>1, AnswersAreDocuments, CodecAssumption DEF Codec
<1>3. \E path \in {GetBigMapKeysQuery(f) : f \in Range(Factories)}
                    \cup {QuoteQuery(t) : t \in Tickers} : Request(path, doc, cuts)
  <2>1. CASE HttpAskFactory(doc)
    <3>1. Request(GetBigMapKeysQuery(Factories[factory]), doc, cuts)
      BY <2>1 DEF HttpAskFactory
    <3>2. Factories[factory] \in Range(Factories)
      BY DEF IInv, PhaseInv, Range
    <3> QED
      BY <3>1, <3>2
  <2>2. CASE HttpAskQuote(doc)
    <3>1. Request(QuoteQuery(TickerOf[Indicators[next]]), doc, cuts) /\ next <= Len(Indicators)
      BY <2>2 DEF HttpAskQuote
    <3>2. TickerOf[Indicators[next]] \in Tickers
      BY <3>1, Constants DEF IInv, PhaseInv
    <3> QED
      BY <3>1, <3>2
  <2> QED
    BY <2>1, <2>2
<1>4. PICK path \in {GetBigMapKeysQuery(f) : f \in Range(Factories)}
                      \cup {QuoteQuery(t) : t \in Tickers} : Request(path, doc, cuts)
  BY <1>3
<1> HIDE DEF cuts
<1>5. /\ CurlInv' /\ asked' = <<Stringify(Elements(path)), "Get">>
      /\ \/ sent' = <<doc, TRUE>> /\ DocumentOf(reply') = Doc(doc)
         \/ sent' = <<doc, FALSE>> /\ DocumentOf(reply') \in {None, Thrown}
  BY <1>2, <1>4, RequestReplies
<1>6. AskFactory(DocumentOf(reply')) \/ AskQuote(DocumentOf(reply'))
  BY DEF HttpAskFactory, HttpAskQuote
<1> QED
  BY <1>4, <1>5, <1>6

(* Each step of the composition is a step of Sources. *)
LEMMA StepImplements ==
  ASSUME IInv, CurlInv, [HttpNext]_<<http, vars>> PROVE [Next]_vars
<1>1. CASE UNCHANGED <<http, vars>>
  BY <1>1
<1>2. CASE Internal \/ Crash
  BY <1>2 DEF Next
<1>3. CASE Asking /\ \E doc \in Answers : HttpAskFactory(doc) \/ HttpAskQuote(doc)
  <2>1. PICK doc \in Answers : HttpAskFactory(doc) \/ HttpAskQuote(doc)
    BY <1>3
  <2>2. /\ DocumentOf(reply') \in {Doc(doc), None, Thrown}
        /\ AskFactory(DocumentOf(reply')) \/ AskQuote(DocumentOf(reply'))
    BY <2>1, AskReplies
  <2>3. PICK d : d = DocumentOf(reply')
    OBVIOUS
  <2>4. d \in Responses
    BY <2>2, <2>3 DEF Responses
  <2>5. AskFactory(d) \/ AskQuote(d)
    BY <2>2, <2>3
  <2> QED
    BY <1>3, <2>4, <2>5 DEF Next
<1> QED
  BY <1>1, <1>2, <1>3 DEF HttpNext

HInv == IInv /\ CurlInv /\ RepliesWhole /\ AsksServed

(* The invariant of the composition holds before the first request. *)
LEMMA InitHInv == Begin => HInv
<1> SUFFICES ASSUME HttpInit, Init PROVE HInv
  BY DEF Begin
<1>1. CurlInv
  BY DEF HttpInit, CurlInv
<1>2. RepliesWhole
  BY DEF HttpInit, RepliesWhole
<1>3. AsksServed
  BY DEF HttpInit, AsksServed
<1> QED
  BY <1>1, <1>2, <1>3, InitIInv DEF HInv

(* The invariant of the composition is inductive. *)
LEMMA HttpStep == HInv /\ [HttpNext]_<<http, vars>> => HInv'
<1> SUFFICES ASSUME HInv, [HttpNext]_<<http, vars>> PROVE HInv'
  OBVIOUS
<1>1. IInv'
  BY StepImplements, SourcesStep DEF HInv
<1>2. CASE UNCHANGED http
  BY <1>1, <1>2 DEF HInv, CurlInv, RepliesWhole, AsksServed, http
<1>3. CASE Asking /\ \E doc \in Answers : HttpAskFactory(doc) \/ HttpAskQuote(doc)
  <2>1. PICK doc \in Answers : HttpAskFactory(doc) \/ HttpAskQuote(doc)
    BY <1>3
  <2>2. /\ CurlInv'
        /\ \/ sent' = <<doc, TRUE>> /\ DocumentOf(reply') = Doc(doc)
           \/ sent' = <<doc, FALSE>> /\ DocumentOf(reply') \in {None, Thrown}
    BY <2>1, AskReplies DEF HInv
  <2>3. RepliesWhole'
    <3>1. PICK r, s : r = reply' /\ s = sent'
      OBVIOUS
    <3>2. \/ s = <<doc, TRUE>> /\ DocumentOf(r) = Doc(doc)
          \/ s = <<doc, FALSE>> /\ DocumentOf(r) \in {None, Thrown}
      BY <2>2, <3>1
    <3>3. IF s[2] THEN DocumentOf(r) = Doc(s[1]) ELSE DocumentOf(r) \in {None, Thrown}
      <4>1. CASE s = <<doc, TRUE>> /\ DocumentOf(r) = Doc(doc)
        <5>1. s[1] = doc /\ s[2] = TRUE
          BY <4>1
        <5> QED
          BY <4>1, <5>1
      <4>2. CASE s = <<doc, FALSE>> /\ DocumentOf(r) \in {None, Thrown}
        <5>1. s[2] = FALSE
          BY <4>2
        <5> QED
          BY <4>2, <5>1
      <4> QED
        BY <3>2, <4>1, <4>2
    <3> QED
      BY <3>1, <3>3 DEF RepliesWhole
  <2>4. AsksServed'
    <3> DEFINE paths == {GetBigMapKeysQuery(f) : f \in Range(Factories)}
                          \cup {QuoteQuery(t) : t \in Tickers}
    <3>1. PICK path \in paths : asked' = <<Stringify(Elements(path)), "Get">>
      BY <2>1, AskReplies DEF HInv
    <3>2. Stringify(Elements(path)) = path
      BY QueriesReturn
    <3>3. PICK url : url \in paths /\ asked' = <<url, "Get">>
      BY <3>1, <3>2
    <3> HIDE DEF paths
    <3>4. \E u \in paths : asked' = <<u, "Get">>
      BY <3>3
    <3> QED
      BY <3>4 DEF AsksServed, paths
  <2> QED
    BY <1>1, <2>2, <2>3, <2>4 DEF HInv
<1> QED
  BY <1>2, <1>3 DEF HttpNext

(* The types, the handler and the replies, in every behaviour of the composition. *)
THEOREM HttpInvariant == HttpSpec => []HInv
  BY InitHInv, HttpStep, PTL DEF HttpSpec

(* A reply is the document that was sent, or none. *)
THEOREM RepliesAreWhole == HttpSpec => []RepliesWhole
<1>1. HInv => RepliesWhole
  BY DEF HInv
<1> QED
  BY <1>1, HttpInvariant, PTL

(* What a request sends is a GET to the address that its query built. *)
THEOREM RequestsAreServed == HttpSpec => []AsksServed
<1>1. HInv => AsksServed
  BY DEF HInv
<1> QED
  BY <1>1, HttpInvariant, PTL

(* Sources over its handler behaves like Sources over servers that answer each request. *)
THEOREM HttpImplementsSources == HttpSpec => ImplementsSources
<1>1. Begin => Init
  BY DEF Begin
<1>2. HInv /\ [HttpNext]_<<http, vars>> => [Next]_vars
  BY StepImplements DEF HInv
<1> QED
  BY <1>1, <1>2, HttpInvariant, PTL DEF HttpSpec, Spec, ImplementsSources

(* So what Sources promises holds over the handler too: the types, quotes of the open
   window, and commands with listed tokens. *)
THEOREM HttpKeepsPromises == HttpSpec => [](TypeOK /\ QuotesOfWindow /\ CommandsNameTokens)
<1>1. HInv => TypeOK /\ QuotesOfWindow /\ CommandsNameTokens
  BY TypeFromInvariant, QuotesFromInvariant DEF HInv, IInv
<1> QED
  BY <1>1, HttpInvariant, PTL
=============================================================================
