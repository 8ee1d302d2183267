--------------------------- MODULE DialogueProofs ---------------------------
(***************************************************************************)
(* Theorems about Dialogue, for any chats, labels, keys and bounds, and    *)
(* whatever the flags of the forms hold when the process starts.           *)
(***************************************************************************)
EXTENDS Dialogue, SequenceTheorems, WellFoundedInduction, TLAPS

-----------------------------------------------------------------------------
(* The tree of the configuration.                                          *)

Sections == [name : Names, holds : Contents, deep : BOOLEAN]

\* What a tree of sections is.
LEMMA TreeFacts ==
  ASSUME NEW t, IsTree(t)
  PROVE  /\ t \in Seq(Sections) /\ Len(t) \in Nat /\ DOMAIN t = 1..Len(t)
         /\ \A i \in DOMAIN t : t[i] \in Sections
         /\ \A i, j \in DOMAIN t : t[i].name = t[j].name => i = j
<1>1. t \in Seq(Sections) /\ \A i, j \in DOMAIN t : t[i].name = t[j].name => i = j
  BY DEF IsTree, Sections
<1> HIDE DEF Sections
<1> QED
  BY <1>1

\* The key's section has a name, whatever the contracts are called.
LEMMA KeySectionIsName == KeySection \in Names
  BY DEF Names

\* A section as the code makes it.
LEMMA SectionIn ==
  ASSUME NEW n \in Names, NEW c \in Contents
  PROVE  /\ Section(n, c) \in Sections /\ ~Section(n, c).deep
         /\ Section(n, c).name = n /\ Section(n, c).holds = c
BY DEF Section, Sections

\* Nothing in memory is a tree.
LEMMA EmptyTree == IsTree(<< >>) /\ Writable(<< >>) /\ DOMAIN << >> = {}
BY DEF IsTree, Writable

\* A set of numbers has a least one: the section that stops a write is the first deep one.
LEMMA Smallest ==
  ASSUME NEW T \in SUBSET Nat, T # {}
  PROVE  \E m \in T : \A n \in T : m <= n
<1> DEFINE R == {ss \in Nat \X Nat : ss[1] < ss[2]}
<1>1. R = OpToRel(<, Nat)
  BY Zenon DEF OpToRel
<1>2. IsWellFoundedOn(R, Nat)
  BY <1>1, NatLessThanWellFounded, Zenon
<1>3. \E x \in T : \A y \in T : ~(<<y, x>> \in R)
  <2> HIDE DEF R
  <2> QED
    BY <1>2, WFMin
<1>4. \A x, y \in T : ~(<<y, x>> \in R) => x <= y
  OBVIOUS
<1> QED
  BY <1>3, <1>4

\* A tree that cannot be written has a first section that is deep.
LEMMA FirstDeep ==
  ASSUME NEW t, IsTree(t), ~Writable(t)
  PROVE  \E d \in DOMAIN t : t[d].deep /\ \A j \in 1..d - 1 : ~t[j].deep
<1> DEFINE D == {i \in DOMAIN t : t[i].deep}
<1>0. Len(t) \in Nat /\ DOMAIN t = 1..Len(t)
  BY TreeFacts
<1>1. D \in SUBSET Nat /\ D # {}
  BY <1>0 DEF Writable
<1>2. PICK d \in D : \A i \in D : d <= i
  <2> HIDE DEF D
  <2> QED
    BY <1>1, Smallest
<1> QED
  BY <1>0, <1>2

\* put_child leaves a tree, every other section at its place.
LEMMA PutTree ==
  ASSUME NEW t, IsTree(t), NEW s \in Sections
  PROVE  /\ IsTree(Put(t, s))
         /\ \A i \in DOMAIN t : /\ i \in DOMAIN Put(t, s)
                                /\ Put(t, s)[i] = IF t[i].name = s.name THEN s ELSE t[i]
         /\ \E i \in DOMAIN Put(t, s) : Put(t, s)[i] = s
<1> DEFINE r == [i \in DOMAIN t |-> IF t[i].name = s.name THEN s ELSE t[i]]
<1>0. /\ t \in Seq(Sections) /\ Len(t) \in Nat /\ DOMAIN t = 1..Len(t)
      /\ \A i \in DOMAIN t : t[i] \in Sections
      /\ \A i, j \in DOMAIN t : t[i].name = t[j].name => i = j
  BY TreeFacts
<1>1. CASE \E i \in DOMAIN t : t[i].name = s.name
  <2>1. Put(t, s) = r
    BY <1>1 DEF Put
  <2>2. r \in [1..Len(t) -> Sections]
    BY <1>0
  <2>3. r \in Seq(Sections) /\ DOMAIN r = 1..Len(t)
    BY <1>0, <2>2
  <2>4. \A i \in DOMAIN t : r[i].name = t[i].name
    OBVIOUS
  <2>5. IsTree(r)
    BY <1>0, <2>3, <2>4 DEF IsTree, Sections
  <2> QED
    BY <1>0, <1>1, <2>1, <2>3, <2>5
<1>2. CASE ~\E i \in DOMAIN t : t[i].name = s.name
  <2>1. Put(t, s) = Append(t, s)
    BY <1>2 DEF Put
  <2>2. /\ Append(t, s) \in Seq(Sections) /\ Len(Append(t, s)) = Len(t) + 1
        /\ \A i \in 1..Len(t) : Append(t, s)[i] = t[i]
        /\ Append(t, s)[Len(t) + 1] = s
    BY <1>0, AppendProperties
  <2>3. DOMAIN Append(t, s) = 1..(Len(t) + 1)
    BY <1>0, <2>2
  <2>4. IsTree(Append(t, s))
    BY <1>0, <1>2, <2>2, <2>3 DEF IsTree, Sections
  <2> QED
    BY <1>0, <1>2, <2>1, <2>2, <2>3, <2>4
<1> QED
  BY <1>1, <1>2

\* What is left of a tree when a part at its end is cut off.
LEMMA FrontTree ==
  ASSUME NEW t, IsTree(t), NEW n \in 0..Len(t)
  PROVE  /\ IsTree(SubSeq(t, 1, n)) /\ Len(SubSeq(t, 1, n)) = n
         /\ \A i \in 1..n : SubSeq(t, 1, n)[i] = t[i]
<1>0. /\ t \in Seq(Sections) /\ Len(t) \in Nat /\ DOMAIN t = 1..Len(t)
      /\ \A i, j \in DOMAIN t : t[i].name = t[j].name => i = j
  BY TreeFacts
<1>1. /\ SubSeq(t, 1, n) \in Seq(Sections) /\ Len(SubSeq(t, 1, n)) = n
      /\ \A i \in 1..n : SubSeq(t, 1, n)[i] = t[i]
  BY <1>0
<1> QED
  BY <1>0, <1>1 DEF IsTree, Sections

\* ... and its last section gets another content.
LEMMA CutTree ==
  ASSUME NEW t, IsTree(t), NEW n \in 1..Len(t), NEW c \in Contents
  PROVE  LET w == Append(SubSeq(t, 1, n - 1), Section(t[n].name, c))
         IN  /\ IsTree(w) /\ Len(w) = n /\ ~w[n].deep
             /\ \A i \in 1..n - 1 : w[i] = t[i]
<1> DEFINE f == SubSeq(t, 1, n - 1)
           s == Section(t[n].name, c)
           w == Append(f, s)
<1>0. /\ Len(t) \in Nat /\ DOMAIN t = 1..Len(t) /\ t[n] \in Sections
      /\ \A i, j \in DOMAIN t : t[i].name = t[j].name => i = j
  BY TreeFacts
<1>1. s \in Sections /\ ~s.deep /\ s.name = t[n].name
  BY <1>0, SectionIn DEF Sections
<1>2. IsTree(f) /\ Len(f) = n - 1 /\ \A i \in 1..n - 1 : f[i] = t[i]
  BY <1>0, FrontTree
<1>3. f \in Seq(Sections)
  BY <1>2, TreeFacts
<1> HIDE DEF f, s
<1>4. /\ w \in Seq(Sections) /\ Len(w) = n /\ DOMAIN w = 1..n
      /\ \A i \in 1..n - 1 : w[i] = t[i]
      /\ w[n] = s
  BY <1>0, <1>1, <1>2, <1>3, AppendProperties
<1>5. \A i \in 1..n : w[i].name = t[i].name
  BY <1>0, <1>1, <1>4
<1>6. IsTree(w)
  BY <1>0, <1>4, <1>5 DEF IsTree, Sections
<1> QED
  BY <1>1, <1>4, <1>6 DEF f, s

\* What is written of a tree: all of it, or what stands before its first deep node.
LEMMA WrittenTree ==
  ASSUME NEW t, IsTree(t)
  PROVE  /\ IsTree(Written(t)) /\ Writable(Written(t))
         /\ \A i \in DOMAIN t : (\A j \in 1..i : ~t[j].deep) => t[i] \in Range(Written(t))
<1>0. /\ Len(t) \in Nat /\ DOMAIN t = 1..Len(t)
      /\ \A i \in DOMAIN t : t[i] \in Sections
  BY TreeFacts
<1>1. CASE Writable(t)
  BY <1>1 DEF Written, Range
<1>2. CASE ~Writable(t)
  <2> DEFINE First(i) == t[i].deep /\ \A j \in 1..i - 1 : ~t[j].deep
             d == CHOOSE i \in DOMAIN t : First(i)
             w == Written(t)
  <2>1. d \in DOMAIN t /\ First(d)
    BY <1>2, FirstDeep
  <2>2. w = IF t[d].holds = "nothing" THEN SubSeq(t, 1, d - 1)
            ELSE Append(SubSeq(t, 1, d - 1), Section(t[d].name, t[d].holds))
    BY <1>2 DEF Written
  <2> HIDE DEF d, w
  <2>3. \A i \in DOMAIN t : (\A j \in 1..i : ~t[j].deep) => i \in 1..d - 1
    BY <1>0, <2>1
  <2>4. /\ IsTree(w) /\ Len(w) \in {d - 1, d}
        /\ \A i \in 1..d - 1 : w[i] = t[i]
        /\ Len(w) = d => ~w[d].deep
    <3>1. t[d].holds \in Contents
      BY <1>0, <2>1 DEF Sections
    <3>2. CASE t[d].holds = "nothing"
      <4>1. d - 1 \in 0..Len(t) /\ w = SubSeq(t, 1, d - 1)
        BY <1>0, <2>1, <2>2, <3>2
      <4> QED
        BY <1>0, <2>1, <4>1, FrontTree
    <3>3. CASE t[d].holds # "nothing"
      <4>1. d \in 1..Len(t) /\ w = Append(SubSeq(t, 1, d - 1), Section(t[d].name, t[d].holds))
        BY <1>0, <2>1, <2>2, <3>3
      <4> QED
        BY <3>1, <4>1, CutTree
    <3> QED
      BY <3>2, <3>3
  <2>5. DOMAIN w = 1..Len(w)
    BY <2>4, TreeFacts
  <2>6. Writable(w)
    BY <1>0, <2>1, <2>4, <2>5 DEF Writable
  <2>7. \A i \in 1..d - 1 : t[i] \in Range(w)
    BY <1>0, <2>1, <2>4, <2>5 DEF Range
  <2> QED
    BY <2>3, <2>4, <2>6, <2>7 DEF w
<1> QED
  BY <1>1, <1>2

\* What a write that is cut off leaves is a content as well.
LEMMA ContentsIn ==
  /\ \A c \in Contents : CutOff(c) \in Contents
  /\ Keys \subseteq Contents /\ "contract" \in Contents
BY DEF Contents, KeyTexts, CutOff

\* A write that does not end leaves a tree as well.
LEMMA CutsTree ==
  ASSUME NEW w, IsTree(w), Writable(w), NEW c \in Cuts(w)
  PROVE  IsTree(c) /\ Writable(c)
<1>0. /\ Len(w) \in Nat /\ DOMAIN w = 1..Len(w)
      /\ \A i \in DOMAIN w : w[i] \in Sections /\ ~w[i].deep
  BY TreeFacts DEF Writable
<1>1. ASSUME NEW n \in 0..Len(w), c = SubSeq(w, 1, n) PROVE IsTree(c) /\ Writable(c)
  <2>1. IsTree(c) /\ Len(c) = n /\ \A i \in 1..n : c[i] = w[i]
    BY <1>1, FrontTree
  <2>2. DOMAIN c = 1..n
    BY <2>1, TreeFacts
  <2> QED
    BY <1>0, <1>1, <2>1, <2>2 DEF Writable
<1>2. ASSUME NEW n \in 1..Len(w),
             c = Append(SubSeq(w, 1, n - 1), Section(w[n].name, CutOff(w[n].holds)))
      PROVE  IsTree(c) /\ Writable(c)
  <2>1. CutOff(w[n].holds) \in Contents
    BY <1>0, <1>2, ContentsIn DEF Sections
  <2>2. /\ IsTree(c) /\ Len(c) = n /\ ~c[n].deep
        /\ \A i \in 1..n - 1 : c[i] = w[i]
    BY <1>2, <2>1, CutTree
  <2>3. DOMAIN c = 1..n
    BY <2>2, TreeFacts
  <2>4. \A i \in 1..n : ~c[i].deep
    BY <1>0, <1>2, <2>2
  <2> QED
    BY <2>2, <2>3, <2>4 DEF Writable
<1> QED
  BY <1>1, <1>2 DEF Cuts

-----------------------------------------------------------------------------
(* The configuration.                                                      *)

\* Sections are in a tree, before all that cannot be written.
InTree(ss, t) == \A s \in ss : \E i \in DOMAIN t : t[i] = s /\ \A j \in 1..i : ~t[j].deep

\* So it is in memory while the process lives; and only the key's section has a key.
ConfigOK ==
  /\ ConfigTypeOK /\ ConfigDurable
  /\ \A s \in kept : s.holds \in Keys => s.name = KeySection
  /\ up => InTree(kept, conf)

\* What leaves the configuration alone keeps it in order.
LEMMA ConfigKept ==
  ASSUME ConfigOK, UNCHANGED config, up' => up
  PROVE  ConfigOK'
BY DEF ConfigOK, ConfigTypeOK, ConfigDurable, InTree, config

\* A file that was read is a tree with all that is in the file.
LEMMA FileInTree ==
  ASSUME ConfigTypeOK, kept \subseteq Range(file)
  PROVE  InTree(kept, file)
<1>1. Len(file) \in Nat /\ DOMAIN file = 1..Len(file) /\ Writable(file)
  BY TreeFacts DEF ConfigTypeOK
<1> QED
  BY <1>1 DEF InTree, Range, Writable

\* A key that the robot has to keep is the only one in the file.
LEMMA KeyInFile ==
  ASSUME ConfigOK, NEW s \in kept, s.holds \in Keys, NEW k \in KeysIn(file)
  PROVE  k = s.holds
<1>1. PICK i \in DOMAIN file : file[i] = s
  BY DEF ConfigOK, ConfigDurable, Range
<1>2. PICK j \in DOMAIN file : file[j].name = KeySection /\ k = file[j].holds
  BY DEF KeysIn
<1>3. i = j
  BY <1>1, <1>2, TreeFacts DEF ConfigOK, ConfigTypeOK
<1> QED
  BY <1>1, <1>2, <1>3

\* What is read of a tree.
LEMMA LoadedTypes ==
  ASSUME NEW t, IsTree(t)
  PROVE  KeysIn(t) \subseteq KeyTexts /\ Listed(t) \subseteq Names \ {KeySection}
<1>1. \A i \in DOMAIN t : t[i] \in Sections
  BY TreeFacts
<1> QED
  BY <1>1 DEF KeysIn, Listed, Sections

\* Loading the file keeps the configuration in order: a kept key is the only one there.
LEMMA LoadKeeps ==
  ASSUME ConfigOK, LoadFromIni
  PROVE  ConfigOK'
<1>1. /\ conf' = file /\ UNCHANGED <<file, kept>>
      /\ tpk' \in KeysIn(file) \/ UNCHANGED tpk
      /\ offered' \subseteq offered \cup Listed(file)
  BY DEF LoadFromIni
<1>2. ConfigTypeOK'
  BY <1>1, LoadedTypes DEF ConfigOK, ConfigTypeOK
<1>3. ConfigDurable'
  BY <1>1, KeyInFile DEF ConfigOK, ConfigDurable
<1>4. InTree(kept', conf')
  BY <1>1, FileInTree DEF ConfigOK, ConfigDurable, InTree
<1> QED
  BY <1>1, <1>2, <1>3, <1>4 DEF ConfigOK

\* So does the first load of a process.
LEMMA LoadFirstKeeps ==
  ASSUME ConfigOK, LoadFirst
  PROVE  ConfigOK'
<1>1. /\ conf' = file /\ UNCHANGED <<file, kept>>
      /\ tpk' \in KeysIn(file) \cup {None}
      /\ offered' \subseteq Listed(file)
  BY DEF LoadFirst
<1>2. ConfigTypeOK'
  BY <1>1, LoadedTypes DEF ConfigOK, ConfigTypeOK
<1>3. ConfigDurable'
  BY <1>1, KeyInFile DEF ConfigOK, ConfigDurable
<1>4. InTree(kept', conf')
  BY <1>1, FileInTree DEF ConfigOK, ConfigDurable, InTree
<1> QED
  BY <1>1, <1>2, <1>3, <1>4 DEF ConfigOK

\* The process ends outside of a write.
LEMMA GoneKeeps ==
  ASSUME ConfigOK, Gone, UNCHANGED <<file, kept>>, ~up'
  PROVE  ConfigOK'
BY EmptyTree DEF ConfigOK, ConfigTypeOK, ConfigDurable, Gone

\* ... or in one.
LEMMA EndInWriteKeeps ==
  ASSUME ConfigOK, NEW trees, \A t \in trees : IsTree(t), EndInWrite(trees), ~up'
  PROVE  ConfigOK'
<1>1. PICK t \in trees : file' \in Cuts(Written(t))
  BY DEF EndInWrite
<1>2. IsTree(file') /\ Writable(file')
  BY <1>1, WrittenTree, CutsTree
<1>3. kept' = {} /\ conf' = << >> /\ tpk' = None /\ offered' = {}
  BY DEF EndInWrite, Gone
<1> QED
  BY <1>2, <1>3, EmptyTree DEF ConfigOK, ConfigTypeOK, ConfigDurable

\* A tree that has what is to be kept leaves it in the file when it is written.
LEMMA SaveKeeps ==
  ASSUME ConfigOK, NEW t, IsTree(t), Save(t), tpk' \in KeyTexts \cup {None},
         InTree(kept', t),
         \A s \in kept' : s.holds \in Keys => s.name = KeySection /\ tpk' \in {s.holds, None}
  PROVE  ConfigOK'
<1>1. conf' = t /\ file' = Written(t) /\ UNCHANGED offered
  BY DEF Save
<1>2. ConfigTypeOK'
  BY <1>1, WrittenTree DEF ConfigOK, ConfigTypeOK
<1>3. kept' \subseteq Range(file')
  <2>1. \A s \in kept' : \E i \in DOMAIN t : t[i] = s /\ \A j \in 1..i : ~t[j].deep
    BY DEF InTree
  <2> QED
    BY <1>1, <2>1, WrittenTree
<1> QED
  BY <1>1, <1>2, <1>3 DEF ConfigOK, ConfigDurable, InTree

\* One section is put into the tree.
LEMMA PutKeeps ==
  ASSUME ConfigOK, up, NEW s \in Sections, ~s.deep,
         kept' = Keep(s, Writable(Put(conf, s)))
  PROVE  InTree(kept', Put(conf, s))
<1> DEFINE t == Put(conf, s)
<1>0. /\ Len(conf) \in Nat /\ DOMAIN conf = 1..Len(conf) /\ IsTree(conf)
      /\ \A i, j \in DOMAIN conf : conf[i].name = conf[j].name => i = j
  BY TreeFacts DEF ConfigOK, ConfigTypeOK
<1>1. /\ IsTree(t)
      /\ \A i \in DOMAIN conf : /\ i \in DOMAIN t
                               /\ t[i] = IF conf[i].name = s.name THEN s ELSE conf[i]
      /\ \E i \in DOMAIN t : t[i] = s
  BY <1>0, PutTree
<1>2. Len(t) \in Nat /\ DOMAIN t = 1..Len(t)
  BY <1>1, TreeFacts
<1> DEFINE At(x) == \E i \in DOMAIN t : t[i] = x /\ \A j \in 1..i : ~t[j].deep
<1>3. ASSUME NEW y \in kept
      PROVE  At(IF y.name = s.name THEN s ELSE y)
  <2>1. PICK i \in DOMAIN conf : conf[i] = y /\ \A j \in 1..i : ~conf[j].deep
    BY <1>3 DEF ConfigOK, InTree
  <2>2. \A j \in 1..i : ~t[j].deep
    BY <1>0, <1>1, <2>1
  <2> QED
    BY <1>1, <2>1, <2>2
<1>4. Writable(t) => At(s)
  BY <1>1, <1>2 DEF Writable
<1> HIDE DEF t, At
<1>5. \A x \in kept' : At(x)
  <2> SUFFICES ASSUME NEW x \in kept' PROVE At(x)
    OBVIOUS
  <2>1. CASE x \in kept /\ x.name # s.name
    BY <1>3, <2>1
  <2>2. CASE x = s /\ Writable(t)
    BY <1>4, <2>2
  <2>3. CASE x = s /\ \E y \in kept : y.name = s.name
    BY <1>3, <2>3
  <2> QED
    BY <2>1, <2>2, <2>3 DEF Keep, t
<1> QED
  BY <1>5 DEF InTree, At, t

\* A node of a path is put into the tree: what stands before its section stays.
LEMMA PutDeepKeeps ==
  ASSUME ConfigOK, up, NEW s \in Sections, kept' = KeepBefore(s.name)
  PROVE  InTree(kept', Put(conf, s))
<1> DEFINE t == Put(conf, s)
<1>0. /\ Len(conf) \in Nat /\ DOMAIN conf = 1..Len(conf) /\ IsTree(conf)
      /\ \A i, j \in DOMAIN conf : conf[i].name = conf[j].name => i = j
  BY TreeFacts DEF ConfigOK, ConfigTypeOK
<1>1. \A i \in DOMAIN conf : /\ i \in DOMAIN t
                            /\ t[i] = IF conf[i].name = s.name THEN s ELSE conf[i]
  BY <1>0, PutTree
<1> HIDE DEF t
<1>2. ASSUME NEW x \in kept'
      PROVE  \E i \in DOMAIN t : t[i] = x /\ \A j \in 1..i : ~t[j].deep
  <2>1. x \in kept
    BY <1>2 DEF KeepBefore
  <2>2. PICK i \in DOMAIN conf : /\ conf[i].name = x.name
                               /\ \A j \in 1..i : conf[j].name # s.name
    BY <1>2 DEF KeepBefore
  <2>3. PICK k \in DOMAIN conf : conf[k] = x /\ \A j \in 1..k : ~conf[j].deep
    BY <2>1 DEF ConfigOK, InTree
  <2>4. k = i
    BY <1>0, <2>2, <2>3
  <2>5. i \in 1..i /\ \A j \in 1..i : j \in DOMAIN conf
    BY <1>0
  <2>6. \A j \in 1..i : t[j] = conf[j]
    BY <1>1, <2>2, <2>5
  <2> QED
    BY <1>1, <2>3, <2>4, <2>5, <2>6
<1> QED
  BY <1>2 DEF InTree, t

\* A contract, or the node that its path leads to, is put under the first part of its label.
LEMMA ContractTree ==
  ASSUME NEW l \in Contracts, NEW t, IsTree(t), NEW r \in WithContract(t, l)
  PROVE  /\ FirstPart[l] = l => /\ Section(l, "contract") \in Sections
                              /\ r = Put(t, Section(l, "contract"))
         /\ FirstPart[l] # l => \E s \in Sections : s.name = FirstPart[l] /\ r = Put(t, s)
         /\ IsTree(r)
<1>1. FirstPart[l] \in Names
  BY ConfigAssumption DEF Names
<1>2. CASE FirstPart[l] = l
  <2>1. Section(l, "contract") \in Sections /\ r = Put(t, Section(l, "contract"))
    BY <1>1, <1>2, SectionIn, ContentsIn DEF WithContract
  <2> QED
    BY <1>2, <2>1, PutTree
<1>3. CASE FirstPart[l] # l
  <2>1. PICK h \in Left(t, FirstPart[l]) :
          r = Put(t, [name |-> FirstPart[l], holds |-> h, deep |-> TRUE])
    BY <1>3 DEF WithContract
  <2>2. \A i \in DOMAIN t : t[i].holds \in Contents
    BY TreeFacts DEF Sections
  <2>3. h \in Contents
    BY <2>2 DEF Left, Held, Contents
  <2>4. [name |-> FirstPart[l], holds |-> h, deep |-> TRUE] \in Sections
    BY <1>1, <2>3 DEF Sections
  <2>5. IsTree(r)
    BY <2>1, <2>4, PutTree
  <2> QED
    BY <1>3, <2>1, <2>4, <2>5
<1> QED
  BY <1>2, <1>3

\* Storing a contract, whatever its label.
LEMMA UpdateContractKeeps ==
  ASSUME ConfigOK, up, NEW l \in Contracts, UpdateContract(l)
  PROVE  ConfigOK'
<1>1. PICK t \in WithContract(conf, l) : Save(t)
  BY DEF UpdateContract
<1>2. IsTree(conf) /\ IsTree(t) /\ conf' = t
  BY <1>1, ContractTree DEF ConfigOK, ConfigTypeOK, Save
<1>3. CASE FirstPart[l] = l
  <2> DEFINE s == Section(l, "contract")
  <2>1. s \in Sections /\ t = Put(conf, s) /\ ~s.deep /\ s.holds \notin Keys
    BY <1>2, <1>3, ContractTree, ConfigAssumption DEF Section
  <2>2. kept' = Keep(s, Writable(Put(conf, s)))
    BY <1>2, <1>3, <2>1 DEF UpdateContract
  <2> HIDE DEF s
  <2>3. InTree(kept', t)
    BY <1>1, <2>1, <2>2, PutKeeps
  <2>4. \A x \in kept' : x.holds \in Keys => x \in kept
    BY <2>1, <2>2 DEF Keep
  <2>5. \A x \in kept' : x.holds \in Keys => x.name = KeySection /\ tpk' \in {x.holds, None}
    BY <2>4 DEF ConfigOK, ConfigDurable, UpdateContract
  <2> QED
    BY <1>1, <1>2, <2>3, <2>5, SaveKeeps DEF UpdateContract, ConfigOK, ConfigTypeOK
<1>4. CASE FirstPart[l] # l
  <2>1. PICK s \in Sections : s.name = FirstPart[l] /\ t = Put(conf, s)
    BY <1>2, <1>4, ContractTree
  <2>2. kept' = KeepBefore(s.name)
    BY <1>4, <2>1 DEF UpdateContract
  <2>3. InTree(kept', t)
    BY <2>1, <2>2, PutDeepKeeps
  <2>4. kept' \subseteq kept
    BY <2>2 DEF KeepBefore
  <2>5. \A x \in kept' : x.holds \in Keys => x.name = KeySection /\ tpk' \in {x.holds, None}
    BY <2>4 DEF ConfigOK, ConfigDurable, UpdateContract
  <2> QED
    BY <1>1, <1>2, <2>3, <2>5, SaveKeeps DEF UpdateContract, ConfigOK, ConfigTypeOK
<1> QED
  BY <1>3, <1>4

\* The tree with a new key.
LEMMA KeyTree ==
  ASSUME NEW t, IsTree(t), NEW key \in Keys
  PROVE  IsTree(WithKey(t, key))
BY KeySectionIsName, ContentsIn, SectionIn, PutTree DEF WithKey

\* Storing a key.
LEMMA UpdateKeyKeeps ==
  ASSUME ConfigOK, up, NEW key \in Keys, UpdateKey(key)
  PROVE  ConfigOK'
<1> DEFINE s == Section(KeySection, key)
<1>1. /\ s \in Sections /\ ~s.deep /\ s.name = KeySection /\ s.holds = key
  BY SectionIn, KeySectionIsName, ContentsIn
<1>2. Save(Put(conf, s)) /\ tpk' = key /\ kept' = Keep(s, Writable(conf'))
  BY DEF UpdateKey, WithKey
<1> HIDE DEF s
<1>3. conf' = Put(conf, s) /\ IsTree(Put(conf, s))
  BY <1>1, <1>2, PutTree DEF Save, ConfigOK, ConfigTypeOK
<1>4. InTree(kept', Put(conf, s))
  BY <1>1, <1>2, <1>3, PutKeeps
<1>5. \A x \in kept' : x.holds \in Keys => x.name = KeySection /\ tpk' \in {x.holds, None}
  <2>1. \A x \in kept' : x = s \/ (x \in kept /\ x.name # KeySection)
    BY <1>1, <1>2 DEF Keep
  <2> QED
    BY <1>1, <1>2, <2>1 DEF ConfigOK
<1>6. tpk' \in KeyTexts \cup {None}
  BY <1>2 DEF KeyTexts
<1> QED
  BY <1>2, <1>3, <1>4, <1>5, <1>6, SaveKeeps

-----------------------------------------------------------------------------
(* The questions of a dialogue in their order.                             *)

QuestionsFor == [
  indicator |-> {"addIndicator_Ticker", "addIndicator_TradeSide",
                 "addIndicator_ModifierType", "addIndicator_ModifierValue"},
  signal    |-> {"addSignal_Indicators", "addSignal_SignalType", "addSignal_Relation"},
  rule      |-> {"addRule_TradingTicker", "addRule_TradeSide", "addRule_SignalLabel",
                 "addRule_SignalValue", "addRule_OrderQuantity", "addRule_Slippage"},
  strategy  |-> {"addStrategy"},
  contract  |-> {"addContract_TickerQS", "addContract_TickerCB"}]

\* The forms that are emptied when their object is registered.
Emptied == {"indicator", "signal", "strategy", "contract"}

\* What has been answered before a question of such a form is asked.
Given == [
  addIndicator_Ticker |-> {"label"},
  addIndicator_TradeSide |-> {"label", "ticker"},
  addIndicator_ModifierType |-> {"label", "ticker", "side"},
  addIndicator_ModifierValue |-> {"label", "ticker", "side"},
  addSignal_Indicators |-> {"label"},
  addSignal_SignalType |-> {"label", "picks"},
  addSignal_Relation |-> {"label", "picks", "type"},
  addStrategy |-> {"label"},
  addContract_TickerQS |-> {"label"},
  addContract_TickerCB |-> {"label", "qs"}]

\* Every question belongs to one form at most.
LEMMA OneForm ==
  ASSUME NEW k \in Kinds, NEW e \in QuestionsFor[k]
  PROVE  /\ e \in Questions \ (Menus \cup {"none", "stopUI_Farewell", "replaceTezosPrivateKey",
                                           "removeIndicator", "removeSignal", "removeRule",
                                           "removeStrategy", "stopStrategy", "startStrategy"})
         /\ \A j \in Kinds : e \in QuestionsFor[j] => j = k
BY DEF QuestionsFor, Questions, Kinds, Menus

-----------------------------------------------------------------------------
(* Why an object is never registered half answered.                        *)

\* Either the flags of a form are answers that were given ...
Settled(k) == /\ form[k].set \subseteq answered[k]
              /\ "label" \in form[k].set => form[k].label \in LabelsOf[k]

\* ... or no object was registered since the process began, and a chat that is
\* asked a question has answered the ones before it.
InOrder(k) ==
  \A u \in Users : asks[u] \in QuestionsFor[k] => Given[asks[u]] \subseteq answered[k]
Fresh(k) == InOrder(k) /\ ("label" \in answered[k] => form[k].label \in LabelsOf[k])

Whole(k) == Settled(k) \/ Fresh(k)

\* The form of a rule has a label when a chat is asked about the rest.
RuleNamed ==
  \A u \in Users : asks[u] \in QuestionsFor["rule"] => form["rule"].label \in Rules

Wholes == RuleNamed /\ \A k \in Emptied : Whole(k)

\* The types in parts.
ChatOK == up \in BOOLEAN /\ asks \in [Users -> Questions] /\ prompts \in [Users -> SUBSET Kinds]
FormOK ==
  /\ IsFamily(form) /\ IsFamily(answered)
  /\ \A k \in Kinds : /\ form[k] \in [label : LabelsOf[k] \cup {None}, set : SUBSET Fields[k]]
                      /\ answered[k] \subseteq Fields[k]
PicksOK == /\ picks \in [signal : Seq(Indicators), strategy : Seq(Rules)]
           /\ modifier \in {"empty", "none", "add"} /\ trigger \in Signals \cup {None}

Inv == ChatOK /\ FormOK /\ PicksOK /\ ConfigOK /\ C!TypeOK /\ Wholes

LEMMA InvTypes == Inv => TypeOK
  BY DEF Inv, ChatOK, FormOK, PicksOK, ConfigOK, TypeOK

-----------------------------------------------------------------------------
(* What a step leaves alone.                                               *)

SameForm(k) == form'[k] = form[k] /\ answered'[k] = answered[k]
SameQuestions(k) == \A u \in Users : asks'[u] \in QuestionsFor[k] => asks'[u] = asks[u]

LEMMA WholeKept ==
  ASSUME NEW k \in Emptied, Whole(k), SameForm(k), SameQuestions(k)
  PROVE  Whole(k)'
BY DEF Settled, Fresh, InOrder, Whole, SameForm, SameQuestions

LEMMA WholeCleared ==
  ASSUME NEW k, form'[k] = Cleared
  PROVE  Whole(k)'
BY DEF Whole, Settled, Cleared

\* Answers are flags and history at once; the label is not one of them.
LEMMA WholeFilled ==
  ASSUME NEW k \in Emptied, Whole(k), NEW field, field # "label",
         form'[k].label = form[k].label,
         form'[k].set = form[k].set \cup {field},
         answered'[k] = answered[k] \cup {field},
         \A u \in Users : asks'[u] \in QuestionsFor[k] =>
            \/ asks'[u] = asks[u]
            \/ asks[u] \in QuestionsFor[k] /\ Given[asks'[u]] \subseteq Given[asks[u]] \cup {field}
  PROVE  Whole(k)'
BY DEF Settled, Fresh, InOrder, Whole

LEMMA WholeLabelled ==
  ASSUME NEW k \in Emptied, Whole(k), NEW l \in LabelsOf[k],
         form'[k].label = l,
         form'[k].set = form[k].set \cup {"label"},
         answered'[k] = answered[k] \cup {"label"},
         \A u \in Users : asks'[u] \in QuestionsFor[k] =>
            asks'[u] = asks[u] \/ Given[asks'[u]] \subseteq {"label"}
  PROVE  Whole(k)'
BY DEF Settled, Fresh, InOrder, Whole

\* A chat is asked something that is no question of the form.
LEMMA AskedElse ==
  ASSUME asks \in [Users -> Questions], NEW u \in Users, NEW e,
         asks' = [asks EXCEPT ![u] = e], NEW k, e \notin QuestionsFor[k]
  PROVE  SameQuestions(k)
BY DEF SameQuestions

LEMMA AskedNothing ==
  ASSUME NEW k, UNCHANGED asks
  PROVE  SameQuestions(k)
BY DEF SameQuestions

LEMMA FormsKept ==
  ASSUME FormOK, UNCHANGED <<form, answered>>
  PROVE  FormOK' /\ \A k : SameForm(k)
BY DEF FormOK, SameForm, IsFamily

LEMMA PicksKept == PicksOK /\ UNCHANGED <<picks, modifier, trigger>> => PicksOK'
  BY DEF PicksOK
LEMMA RegistryKept == C!TypeOK /\ UNCHANGED registry => C!TypeOK'
  BY DEF registry, C!TypeOK, C!IsRegistry, C!RuleObjects, C!StrategyObjects

\* A step that changes no form keeps them whole if it asks no question of theirs.
LEMMA WholesKept ==
  ASSUME Wholes, \A k \in Kinds : SameForm(k) /\ SameQuestions(k)
  PROVE  Wholes'
<1>1. \A k \in Emptied : Whole(k)'
  BY WholeKept DEF Wholes, Emptied, Kinds
<1>2. RuleNamed'
  BY DEF Wholes, RuleNamed, SameForm, SameQuestions, Kinds
<1> QED
  BY <1>1, <1>2 DEF Wholes

-----------------------------------------------------------------------------
(* Menus and configuration.                                                *)

\* Menus, commands and the key: no form, no registry, and no question of a form.
LEMMA MenuInv ==
  ASSUME Inv, NEW u \in Users, NEW e \in Questions, \A k \in Kinds : e \notin QuestionsFor[k],
         asks' = [asks EXCEPT ![u] = e] \/ UNCHANGED asks,
         UNCHANGED prompts \/ \E k \in Kinds : prompts' = [prompts EXCEPT ![u] = @ \cup {k}],
         up' \in BOOLEAN, UNCHANGED <<forms, registry>>, ConfigOK'
  PROVE  Inv'
<1>1. ChatOK'
  BY DEF Inv, ChatOK
<1>2. FormOK' /\ \A k : SameForm(k)
  BY FormsKept DEF Inv, forms
<1>3. \A k \in Kinds : SameQuestions(k)
  BY AskedElse, AskedNothing DEF Inv, ChatOK
<1> QED
  BY <1>1, <1>2, <1>3, WholesKept, PicksKept, RegistryKept DEF Inv, forms

-----------------------------------------------------------------------------
(* Answers.                                                                *)

LEMMA FilledForm ==
  ASSUME FormOK, NEW k \in Kinds, NEW field \in Fields[k], Fill(k, {field})
  PROVE  /\ FormOK' /\ \A j \in Kinds \ {k} : SameForm(j)
         /\ form'[k].label = form[k].label
         /\ form'[k].set = form[k].set \cup {field}
         /\ answered'[k] = answered[k] \cup {field}
<1> DEFINE f == [form[k] EXCEPT !.set = @ \cup {field}]
<1>1. /\ form' = [form EXCEPT ![k] = f]
      /\ answered' = [answered EXCEPT ![k] = @ \cup {field}]
  BY DEF Fill
<1>2. /\ f \in [label : LabelsOf[k] \cup {None}, set : SUBSET Fields[k]]
      /\ f.label = form[k].label /\ f.set = form[k].set \cup {field}
  BY DEF FormOK
<1> HIDE DEF f
<1>3. form'[k] = f /\ answered'[k] = answered[k] \cup {field} /\ \A j \in Kinds \ {k} : SameForm(j)
  BY <1>1 DEF FormOK, IsFamily, SameForm
<1>4. IsFamily(form)' /\ IsFamily(answered)'
  BY <1>1 DEF FormOK, IsFamily
<1> QED
  BY <1>2, <1>3, <1>4 DEF FormOK, SameForm

LEMMA LabelledForm ==
  ASSUME FormOK, NEW u, NEW k \in Kinds, NEW l \in LabelsOf[k], Labels(u, k, l),
         "label" \in Fields[k]
  PROVE  /\ FormOK' /\ \A j \in Kinds \ {k} : SameForm(j)
         /\ form'[k].label = l
         /\ form'[k].set = form[k].set \cup {"label"}
         /\ answered'[k] = answered[k] \cup {"label"}
<1> DEFINE f == [label |-> l, set |-> form[k].set \cup {"label"}]
<1>1. /\ form' = [form EXCEPT ![k] = f]
      /\ answered' = [answered EXCEPT ![k] = @ \cup {"label"}]
  BY DEF Labels
<1>2. /\ f \in [label : LabelsOf[k] \cup {None}, set : SUBSET Fields[k]]
      /\ f.label = l /\ f.set = form[k].set \cup {"label"}
  BY DEF FormOK
<1> HIDE DEF f
<1>3. form'[k] = f /\ answered'[k] = answered[k] \cup {"label"} /\ \A j \in Kinds \ {k} : SameForm(j)
  BY <1>1 DEF FormOK, IsFamily, SameForm
<1>4. IsFamily(form)' /\ IsFamily(answered)'
  BY <1>1 DEF FormOK, IsFamily
<1> QED
  BY <1>2, <1>3, <1>4 DEF FormOK, SameForm

\* The next question of a chat.
LEMMA Asks ==
  ASSUME ChatOK, NEW u \in Users, NEW k \in Kinds, NEW next \in QuestionsFor[k], Ask(u, next)
  PROVE  /\ asks' \in [Users -> Questions] /\ UNCHANGED prompts
         /\ \A j \in Kinds \ {k} : SameQuestions(j)
         /\ \A v \in Users : asks'[v] = asks[v] \/ (v = u /\ asks'[v] = next)
<1>1. next \in Questions /\ \A j \in Kinds \ {k} : next \notin QuestionsFor[j]
  BY OneForm
<1>2. asks' = [asks EXCEPT ![u] = next] /\ UNCHANGED prompts
  BY DEF Ask
<1>3. \A j \in Kinds \ {k} : SameQuestions(j)
  BY <1>1, <1>2, AskedElse DEF ChatOK
<1>4. \A v \in Users : asks'[v] = IF v = u THEN next ELSE asks[v]
  BY <1>2 DEF ChatOK
<1>5. asks' \in [Users -> Questions]
  BY <1>1, <1>2 DEF ChatOK
<1> QED
  BY <1>2, <1>3, <1>4, <1>5

\* A rule keeps its label through the other answers.
LEMMA RuleStillNamed ==
  ASSUME RuleNamed, form'["rule"].label = form["rule"].label,
         \A v \in Users : asks'[v] \in QuestionsFor["rule"] =>
           \E w \in Users : asks[w] \in QuestionsFor["rule"]
  PROVE  RuleNamed'
BY DEF RuleNamed

\* The usual step: one field, and the next question of the same form.
LEMMA StepInv ==
  ASSUME Inv, NEW u \in Users, NEW k \in Kinds, NEW event \in QuestionsFor[k],
         NEW next \in QuestionsFor[k], NEW field \in Fields[k], field # "label",
         k \in Emptied => Given[next] \subseteq Given[event] \cup {field},
         Step(u, event, k, field, next)
  PROVE  Inv'
<1>1. /\ FormOK' /\ \A j \in Kinds \ {k} : SameForm(j)
      /\ form'[k].label = form[k].label
      /\ form'[k].set = form[k].set \cup {field}
      /\ answered'[k] = answered[k] \cup {field}
  BY FilledForm DEF Inv, Step
<1>2. /\ asks' \in [Users -> Questions] /\ UNCHANGED prompts
      /\ \A j \in Kinds \ {k} : SameQuestions(j)
      /\ \A v \in Users : asks'[v] = asks[v] \/ (v = u /\ asks'[v] = next)
  BY Asks DEF Inv, Step
<1>3. asks[u] = event
  BY DEF Step, Asked
<1>4. \A j \in Emptied : Whole(j)'
  <2>1. ASSUME NEW j \in Emptied, j # k PROVE Whole(j)'
    BY <1>1, <1>2, <2>1, WholeKept DEF Inv, Wholes, Emptied, Kinds
  <2>2. ASSUME k \in Emptied PROVE Whole(k)'
    BY <1>1, <1>2, <1>3, <2>2, WholeFilled DEF Inv, Wholes
  <2> QED
    BY <2>1, <2>2
<1>5. RuleNamed'
  <2>1. CASE k = "rule"
    BY <1>1, <1>2, <1>3, <2>1, RuleStillNamed DEF Inv, Wholes
  <2>2. CASE k # "rule"
    BY <1>1, <1>2, <2>2 DEF Inv, Wholes, RuleNamed, SameForm, SameQuestions, Kinds
  <2> QED
    BY <2>1, <2>2
<1>6. ChatOK' /\ PicksOK' /\ ConfigOK' /\ C!TypeOK'
  BY <1>2, PicksKept, ConfigKept, RegistryKept DEF Inv, Step, ChatOK
<1> QED
  BY <1>1, <1>4, <1>5, <1>6 DEF Inv, Wholes

\* A label, and the first question of the form.
LEMMA LabelInv ==
  ASSUME Inv, NEW u \in Users, NEW k \in Kinds, NEW l \in LabelsOf[k], Labels(u, k, l),
         NEW next \in QuestionsFor[k], Ask(u, next) \/ UNCHANGED chat,
         k \in Emptied => Given[next] = {"label"},
         UNCHANGED <<up, picks, modifier, trigger, registry>>, ConfigOK'
  PROVE  Inv'
<1>0. "label" \in Fields[k]
  BY DEF Fields, Kinds
<1>1. /\ FormOK' /\ \A j \in Kinds \ {k} : SameForm(j)
      /\ form'[k].label = l
      /\ form'[k].set = form[k].set \cup {"label"}
      /\ answered'[k] = answered[k] \cup {"label"}
  BY <1>0, LabelledForm DEF Inv
<1>2. /\ asks' \in [Users -> Questions] /\ UNCHANGED prompts
      /\ \A j \in Kinds \ {k} : SameQuestions(j)
      /\ \A v \in Users : asks'[v] = asks[v] \/ (v = u /\ asks'[v] = next)
  <2>1. CASE Ask(u, next)
    BY <2>1, Asks DEF Inv
  <2>2. CASE UNCHANGED chat
    BY <2>2, AskedNothing DEF chat, Inv, ChatOK
  <2> QED
    BY <2>1, <2>2
<1>3. \A j \in Emptied : Whole(j)'
  <2>1. ASSUME NEW j \in Emptied, j # k PROVE Whole(j)'
    BY <1>1, <1>2, <2>1, WholeKept DEF Inv, Wholes, Emptied, Kinds
  <2>2. ASSUME k \in Emptied PROVE Whole(k)'
    BY <1>1, <1>2, <2>2, WholeLabelled DEF Inv, Wholes
  <2> QED
    BY <2>1, <2>2
<1>4. RuleNamed'
  <2>1. CASE k = "rule"
    BY <1>1, <2>1 DEF RuleNamed, LabelsOf
  <2>2. CASE k # "rule"
    BY <1>1, <1>2, <2>2 DEF Inv, Wholes, RuleNamed, SameForm, SameQuestions, Kinds
  <2> QED
    BY <2>1, <2>2
<1>5. ChatOK' /\ PicksOK' /\ C!TypeOK'
  BY <1>2, PicksKept, RegistryKept DEF Inv, ChatOK
<1> QED
  BY <1>1, <1>3, <1>4, <1>5 DEF Inv, Wholes

-----------------------------------------------------------------------------
(* The process begins and ends.                                            *)

LEMMA MenuFacts ==
  \A e \in Menus \cup {"none", "stopUI_Farewell", "replaceTezosPrivateKey", "removeIndicator",
                       "removeSignal", "removeRule", "removeStrategy", "stopStrategy",
                       "startStrategy"} :
    e \in Questions /\ \A k \in Kinds : e \notin QuestionsFor[k]
BY DEF Menus, Questions, QuestionsFor, Kinds

\* No chat has a question and nothing was answered.
LEMMA NothingAsked ==
  ASSUME asks = [u \in Users |-> "none"], answered = [k \in Kinds |-> {}]
  PROVE  Wholes
<1>1. \A k \in Kinds : "none" \notin QuestionsFor[k]
  BY MenuFacts
<1>2. \A k \in Emptied : Fresh(k)
  BY <1>1 DEF Fresh, InOrder, Emptied, Kinds
<1>3. RuleNamed
  BY <1>1 DEF RuleNamed, Kinds
<1> QED
  BY <1>2, <1>3 DEF Wholes, Whole

LEMMA GarbageForm ==
  ASSUME NEW g \in Garbage
  PROVE  /\ g = [k \in Kinds |-> g[k]]
         /\ \A k \in Kinds : g[k] \in [label : LabelsOf[k] \cup {None}, set : SUBSET Fields[k]]
BY DEF Garbage, Cleared

\* Nothing is left of the answers.
LEMMA NoAnswersInv ==
  ASSUME Inv, NoAnswers, form' \in Garbage, up' \in BOOLEAN, ConfigOK', C!TypeOK'
  PROVE  Inv'
<1>1. asks' = [u \in Users |-> "none"] /\ answered' = [k \in Kinds |-> {}]
  BY DEF NoAnswers
<1>2. ChatOK'
  BY <1>1, MenuFacts DEF NoAnswers, Inv, ChatOK
<1>3. Wholes'
  <2>1. \A k \in Kinds : "none" \notin QuestionsFor[k]
    BY MenuFacts
  <2>2. \A k \in Emptied : Fresh(k)'
    BY <1>1, <2>1 DEF Fresh, InOrder, Emptied, Kinds
  <2>3. RuleNamed'
    BY <1>1, <2>1 DEF RuleNamed, Kinds
  <2> QED
    BY <2>2, <2>3 DEF Wholes, Whole
<1>4. FormOK'
  BY <1>1, GarbageForm DEF FormOK, IsFamily
<1>5. PicksOK'
  <2>1. << >> \in Seq(Indicators) /\ << >> \in Seq(Rules)
    OBVIOUS
  <2> QED
    BY <2>1 DEF NoAnswers, PicksOK
<1> QED
  BY <1>2, <1>3, <1>4, <1>5 DEF Inv

LEMMA EmptyRegistry ==
  ASSUME NEW L, NEW O
  PROVE  C!IsRegistry(<< >>, L, O) /\ DOMAIN << >> = {}
BY DEF C!IsRegistry

LEMMA NoObjectsTypes ==
  ASSUME C!TypeOK, NoObjects
  PROVE  C!TypeOK'
BY EmptyRegistry DEF NoObjects, C!TypeOK

LEMMA EndInv ==
  ASSUME Inv, NoForms, C!TypeOK', up' = FALSE, ConfigOK'
  PROVE  Inv'
<1>1. form' \in Garbage
  BY DEF NoForms, Garbage
<1> QED
  BY <1>1, NoAnswersInv DEF NoForms

-----------------------------------------------------------------------------
(* What the Controller does to the registries.                             *)

LEMMA RegistryWith ==
  ASSUME NEW L, NEW O, NEW f, C!IsRegistry(f, L, O), NEW l \in L, NEW o \in O
  PROVE  C!IsRegistry(C!With(f, l, o), L, O)
BY DEF C!IsRegistry, C!With

LEMMA RegistryWithout ==
  ASSUME NEW L, NEW O, NEW f, C!IsRegistry(f, L, O), NEW l
  PROVE  C!IsRegistry(C!Without(f, l), L, O)
BY DEF C!IsRegistry, C!Without, C!Restrict

LEMMA AddIndicatorTypes ==
  ASSUME C!TypeOK, NEW l \in Indicators, NEW m, C!AddIndicator(l, m)
  PROVE  C!TypeOK'
BY DEF C!AddIndicator, C!TypeOK, C!engineVars

LEMMA RemoveIndicatorTypes ==
  ASSUME C!TypeOK, NEW l, C!RemoveIndicator(l)
  PROVE  C!TypeOK'
<1>1. CASE C!Die("end_erased")
  BY <1>1, EmptyRegistry DEF C!Die, C!TypeOK
<1>2. CASE ~C!Die("end_erased")
  BY <1>2 DEF C!RemoveIndicator, C!TypeOK, C!engineVars
<1> QED
  BY <1>1, <1>2

LEMMA AddSignalTypes ==
  ASSUME C!TypeOK, NEW l \in Signals, NEW inds \in Seq(Indicators), C!AddSignal(l, inds)
  PROVE  C!TypeOK'
BY RegistryWith DEF C!AddSignal, C!TypeOK, C!engineVars

LEMMA AddRuleTypes ==
  ASSUME C!TypeOK, NEW l \in Rules, NEW s, C!AddRule(l, s)
  PROVE  C!TypeOK'
<1>1. [signal |-> s, inds |-> signals[s]] \in C!RuleObjects
  BY DEF C!AddRule, C!TypeOK, C!IsRegistry, C!RuleObjects
<1> QED
  BY <1>1, RegistryWith DEF C!AddRule, C!TypeOK, C!engineVars

\* The indicators of a set of rules are indicators.
LEMMA IndsOfType ==
  ASSUME C!TypeOK, NEW rs \in SUBSET DOMAIN rules
  PROVE  C!IndsOf(rs) \subseteq Indicators
<1>1. ASSUME NEW r \in rs PROVE C!Range(rules[r].inds) \subseteq Indicators
  BY <1>1, RangeOfSeq DEF C!TypeOK, C!IsRegistry, C!RuleObjects, C!Range, Range
<1> QED
  BY <1>1 DEF C!IndsOf

LEMMA AddStrategyTypes ==
  ASSUME C!TypeOK, NEW l \in Strategies, NEW taps, C!AddStrategy(l, taps)
  PROVE  C!TypeOK'
<1> DEFINE chosen == C!Range(taps) \cap DOMAIN rules
<1>1. chosen \subseteq Rules /\ C!IndsOf(chosen) \subseteq Indicators
  BY IndsOfType DEF C!TypeOK, C!IsRegistry
<1>2. [rules |-> chosen, inds |-> C!IndsOf(chosen)] \in C!StrategyObjects
  BY <1>1 DEF C!StrategyObjects
<1>3. C!IsRegistry(strategies', Strategies, C!StrategyObjects)
  BY <1>2, RegistryWith DEF C!AddStrategy, C!TypeOK
<1>4. DOMAIN strategies \subseteq DOMAIN strategies'
  BY DEF C!AddStrategy, C!With
<1> QED
  BY <1>3, <1>4 DEF C!AddStrategy, C!TypeOK, C!engineVars

\* Removing a signal, a rule or a strategy, and Stop and Start.
LEMMA CommandTypes ==
  ASSUME C!TypeOK, running = None, NEW l,
         \/ C!RemoveSignal(l) \/ C!RemoveRule(l) \/ C!RemoveStrategy(l)
         \/ C!StopStrategy(l) \/ C!StartStrategy(l)
  PROVE  C!TypeOK'
<1> USE DEF C!engineVars
<1>1. CASE C!RemoveSignal(l)
  BY <1>1, RegistryWithout DEF C!RemoveSignal, C!TypeOK
<1>2. CASE C!RemoveRule(l)
  BY <1>2, RegistryWithout DEF C!RemoveRule, C!TypeOK, C!IsRegistry
<1>3. CASE C!RemoveStrategy(l)
  BY <1>3, RegistryWithout DEF C!RemoveStrategy, C!TypeOK, C!Without, C!Restrict
<1>4. CASE C!StopStrategy(l)
  BY <1>4 DEF C!StopStrategy, C!TypeOK
<1>5. CASE C!StartStrategy(l)
  BY <1>5 DEF C!StartStrategy, C!TypeOK
<1> QED
  BY <1>1, <1>2, <1>3, <1>4, <1>5

LEMMA CommandInv ==
  ASSUME Inv, C!TypeOK', Removed
  PROVE  Inv'
<1>1. CASE UNCHANGED <<up, restarts, chat, forms, config>>
  <2>1. ChatOK' /\ \A k \in Kinds : SameQuestions(k)
    BY <1>1, AskedNothing DEF Inv, ChatOK, chat
  <2>2. FormOK' /\ \A k : SameForm(k)
    BY <1>1, FormsKept DEF Inv, forms
  <2> QED
    BY <1>1, <2>1, <2>2, WholesKept, PicksKept, ConfigKept DEF Inv, forms
<1>2. CASE up' = FALSE /\ NoForms /\ Gone /\ UNCHANGED <<file, kept>>
  BY <1>2, GoneKeeps, EndInv DEF Inv
<1> QED
  BY <1>1, <1>2 DEF Removed

-----------------------------------------------------------------------------
(* The last answers.                                                       *)

\* An object is registered, and its form emptied.
LEMMA ClearedForm ==
  ASSUME FormOK, NEW k \in Kinds,
         form' = [form EXCEPT ![k] = Cleared], answered' = [answered EXCEPT ![k] = {}]
  PROVE  /\ FormOK' /\ \A j \in Kinds \ {k} : SameForm(j)
         /\ form'[k] = Cleared
<1>1. IsFamily(form)' /\ IsFamily(answered)'
  BY DEF FormOK, IsFamily
<1>2. form'[k] = Cleared /\ answered'[k] = {} /\ \A j \in Kinds \ {k} : SameForm(j)
  BY DEF FormOK, IsFamily, SameForm
<1>3. Cleared \in [label : LabelsOf[k] \cup {None}, set : SUBSET Fields[k]]
  BY DEF Cleared
<1> QED
  BY <1>1, <1>2, <1>3 DEF FormOK, SameForm

\* The last answer of a form that is emptied: its object is registered, or not.
LEMMA LastInv ==
  ASSUME Inv, NEW k \in Emptied, NEW last \in Fields[k], last # "label",
         \/ /\ form' = [form EXCEPT ![k] = Cleared]
            /\ answered' = [answered EXCEPT ![k] = {}]
         \/ Fill(k, {last}),
         UNCHANGED <<up, chat>>, PicksOK', ConfigOK', C!TypeOK'
  PROVE  Inv'
<1>0. k \in Kinds /\ k # "rule"
  BY DEF Emptied, Kinds
<1>1. ChatOK' /\ UNCHANGED asks /\ \A j \in Kinds : SameQuestions(j)
  BY AskedNothing DEF Inv, ChatOK, chat
<1>2. FormOK' /\ \A j \in Kinds \ {k} : SameForm(j)
  BY <1>0, FilledForm, ClearedForm DEF Inv
<1>3. Whole(k)'
  <2>1. CASE Fill(k, {last})
    BY <1>0, <1>1, <2>1, FilledForm, WholeFilled DEF Inv, Wholes
  <2>2. CASE ~Fill(k, {last})
    BY <1>0, <2>2, ClearedForm, WholeCleared DEF Inv
  <2> QED
    BY <2>1, <2>2
<1>4. \A j \in Emptied : Whole(j)'
  <2> SUFFICES ASSUME NEW j \in Emptied, j # k PROVE Whole(j)'
    BY <1>3
  <2> QED
    BY <1>1, <1>2, WholeKept DEF Inv, Wholes, Emptied, Kinds
<1>5. RuleNamed'
  BY <1>0, <1>1, <1>2 DEF Inv, Wholes, RuleNamed, SameForm, Kinds
<1> QED
  BY <1>1, <1>2, <1>4, <1>5 DEF Inv, Wholes

-----------------------------------------------------------------------------
(* The handlers of the last answers, each with what it registers.          *)

\* What is registered when an object is: a label, after all the answers.
Answered(k, last) == /\ form[k].label \in LabelsOf[k]
                     /\ Fields[k] \subseteq answered[k] \cup {last}

LEMMA FieldFacts ==
  /\ Fields["indicator"] = {"label", "ticker", "side", "modifier"}
  /\ Fields["signal"] = {"label", "picks", "type", "relation"}
  /\ Fields["strategy"] = {"label", "picks"}
  /\ Fields["contract"] = {"label", "qs", "cb"}
  /\ Given["addIndicator_ModifierType"] = {"label", "ticker", "side"}
  /\ Given["addIndicator_ModifierValue"] = {"label", "ticker", "side"}
  /\ Given["addSignal_Relation"] = {"label", "picks", "type"}
  /\ Given["addStrategy"] = {"label"}
  /\ Given["addContract_TickerCB"] = {"label", "qs"}
  /\ "addIndicator_ModifierType" \in QuestionsFor["indicator"]
  /\ "addIndicator_ModifierValue" \in QuestionsFor["indicator"]
  /\ "addSignal_Relation" \in QuestionsFor["signal"]
  /\ "addStrategy" \in QuestionsFor["strategy"]
  /\ "addContract_TickerCB" \in QuestionsFor["contract"]
  /\ LabelsOf["indicator"] = Indicators /\ LabelsOf["signal"] = Signals
  /\ LabelsOf["strategy"] = Strategies /\ LabelsOf["contract"] = Contracts
  /\ LabelsOf["rule"] = Rules
  /\ {"indicator", "signal", "strategy", "contract"} \subseteq Emptied
BY DEF Fields, Given, QuestionsFor, LabelsOf, Emptied

LEMMA LastOfIndicator ==
  ASSUME Inv, NEW u \in Users, asks[u] \in {"addIndicator_ModifierType", "addIndicator_ModifierValue"},
         InitIndicator(form["indicator"].set \cup {"modifier"})
  PROVE  Answered("indicator", "modifier")
<1>1. Whole("indicator")
  BY FieldFacts DEF Inv, Wholes
<1>2. CASE Settled("indicator")
  BY <1>2, FieldFacts DEF Settled, Answered, InitIndicator
<1>3. CASE Fresh("indicator")
  BY <1>3, FieldFacts DEF Fresh, InOrder, Answered, InitIndicator
<1> QED
  BY <1>1, <1>2, <1>3 DEF Whole

LEMMA LastOfSignal ==
  ASSUME Inv, NEW u \in Users, asks[u] = "addSignal_Relation",
         InitSignal(form["signal"].set \cup {"relation"})
  PROVE  Answered("signal", "relation")
<1>1. Whole("signal")
  BY FieldFacts DEF Inv, Wholes
<1>2. CASE Settled("signal")
  BY <1>2, FieldFacts DEF Settled, Answered, InitSignal
<1>3. CASE Fresh("signal")
  BY <1>3, FieldFacts DEF Fresh, InOrder, Answered, InitSignal
<1> QED
  BY <1>1, <1>2, <1>3 DEF Whole

LEMMA LastOfStrategy ==
  ASSUME Inv, NEW u \in Users, asks[u] = "addStrategy",
         InitStrategy(form["strategy"].set \cup {"picks"})
  PROVE  Answered("strategy", "picks")
<1>1. Whole("strategy")
  BY FieldFacts DEF Inv, Wholes
<1>2. CASE Settled("strategy")
  BY <1>2, FieldFacts DEF Settled, Answered, InitStrategy
<1>3. CASE Fresh("strategy")
  BY <1>3, FieldFacts DEF Fresh, InOrder, Answered, InitStrategy
<1> QED
  BY <1>1, <1>2, <1>3 DEF Whole

\* A contract is content with one of its tickers.
LEMMA LastOfContract ==
  ASSUME Inv, NEW u \in Users, asks[u] = "addContract_TickerCB",
         InitContract(form["contract"].set \cup {"cb"})
  PROVE  form["contract"].label \in Contracts
<1>1. Whole("contract")
  BY FieldFacts DEF Inv, Wholes
<1>2. CASE Settled("contract")
  BY <1>2, FieldFacts DEF Settled, InitContract
<1>3. CASE Fresh("contract")
  BY <1>3, FieldFacts DEF Fresh, InOrder
<1> QED
  BY <1>1, <1>2, <1>3 DEF Whole

\* What the answer to the last question of an indicator comes to.
LEMMA AddIndicatorCases ==
  ASSUME Inv, NEW m, AddIndicator(m)
  PROVE  \/ /\ C!AddIndicator(form["indicator"].label, m # "none")
            /\ InitIndicator(form["indicator"].set \cup {"modifier"})
            /\ form' = [form EXCEPT !["indicator"] = Cleared]
            /\ answered' = [answered EXCEPT !["indicator"] = {}]
            /\ modifier' = "empty"
         \/ Fill("indicator", {"modifier"}) /\ modifier' = m /\ UNCHANGED registry
BY DEF AddIndicator, Inv, FormOK, Kinds

LEMMA AddIndicatorInv ==
  ASSUME Inv, NEW u \in Users, NEW m \in {"empty", "none", "add"}, AddIndicator(m),
         asks[u] \in {"addIndicator_ModifierType", "addIndicator_ModifierValue"}
  PROVE  Inv'
<1>1. UNCHANGED <<up, chat, picks, trigger, config>>
  BY DEF AddIndicator
<1>2. PicksOK' /\ ConfigOK'
  BY <1>1, AddIndicatorCases, ConfigKept DEF Inv, PicksOK
<1>3. C!TypeOK'
  <2>1. CASE UNCHANGED registry
    BY <2>1, RegistryKept DEF Inv
  <2>2. CASE C!AddIndicator(form["indicator"].label, m # "none")
             /\ InitIndicator(form["indicator"].set \cup {"modifier"})
    BY <2>2, LastOfIndicator, AddIndicatorTypes, FieldFacts DEF Answered, Inv
  <2> QED
    BY <2>1, <2>2, AddIndicatorCases
<1> QED
  BY <1>1, <1>2, <1>3, AddIndicatorCases, LastInv, FieldFacts

\* The taps for a signal or a strategy are forgotten.
LEMMA PicksEmptied ==
  ASSUME PicksOK, NEW k \in {"signal", "strategy"}, picks' = [picks EXCEPT ![k] = << >>],
         UNCHANGED <<modifier, trigger>>
  PROVE  PicksOK'
<1>1. << >> \in Seq(Indicators) /\ << >> \in Seq(Rules)
  OBVIOUS
<1>2. picks' \in [signal : Seq(Indicators), strategy : Seq(Rules)]
  BY <1>1 DEF PicksOK
<1> QED
  BY <1>2 DEF PicksOK

LEMMA RelationCases ==
  ASSUME Inv, NEW u, RelationOfSignal(u)
  PROVE  \/ /\ C!AddSignal(form["signal"].label, picks["signal"])
            /\ InitSignal(form["signal"].set \cup {"relation"})
            /\ form' = [form EXCEPT !["signal"] = Cleared]
            /\ answered' = [answered EXCEPT !["signal"] = {}]
            /\ picks' = [picks EXCEPT !["signal"] = << >>]
         \/ Fill("signal", {"relation"}) /\ UNCHANGED <<picks, registry>>
BY DEF RelationOfSignal, Inv, FormOK, Kinds

LEMMA RelationInv ==
  ASSUME Inv, NEW u \in Users, RelationOfSignal(u)
  PROVE  Inv'
<1>1. UNCHANGED <<up, chat, modifier, trigger, config>> /\ asks[u] = "addSignal_Relation"
  BY DEF RelationOfSignal, Asked
<1>2. PicksOK' /\ ConfigOK'
  BY <1>1, RelationCases, PicksKept, PicksEmptied, ConfigKept DEF Inv
<1>3. C!TypeOK'
  <2>1. CASE UNCHANGED registry
    BY <2>1, RegistryKept DEF Inv
  <2>2. CASE /\ C!AddSignal(form["signal"].label, picks["signal"])
             /\ InitSignal(form["signal"].set \cup {"relation"})
    <3>1. form["signal"].label \in Signals
      BY <1>1, <2>2, LastOfSignal, FieldFacts DEF Answered
    <3>2. picks["signal"] \in Seq(Indicators)
      BY DEF Inv, PicksOK
    <3> QED
      BY <2>2, <3>1, <3>2, AddSignalTypes DEF Inv
  <2> QED
    BY <2>1, <2>2, RelationCases
<1> QED
  BY <1>1, <1>2, <1>3, RelationCases, LastInv, FieldFacts

LEMMA StrategyCases ==
  ASSUME Inv, NEW u, RulesOfStrategy(u)
  PROVE  \/ /\ C!AddStrategy(form["strategy"].label, picks["strategy"])
            /\ InitStrategy(form["strategy"].set \cup {"picks"})
            /\ form' = [form EXCEPT !["strategy"] = Cleared]
            /\ answered' = [answered EXCEPT !["strategy"] = {}]
            /\ picks' = [picks EXCEPT !["strategy"] = << >>]
         \/ Fill("strategy", {"picks"}) /\ UNCHANGED <<picks, registry>>
BY DEF RulesOfStrategy, Inv, FormOK, Kinds

LEMMA StrategyInv ==
  ASSUME Inv, NEW u \in Users, RulesOfStrategy(u)
  PROVE  Inv'
<1>1. UNCHANGED <<up, chat, modifier, trigger, config>> /\ asks[u] = "addStrategy"
  BY DEF RulesOfStrategy, Asked
<1>2. PicksOK' /\ ConfigOK'
  BY <1>1, StrategyCases, PicksKept, PicksEmptied, ConfigKept DEF Inv
<1>3. C!TypeOK'
  <2>1. CASE UNCHANGED registry
    BY <2>1, RegistryKept DEF Inv
  <2>2. CASE /\ C!AddStrategy(form["strategy"].label, picks["strategy"])
             /\ InitStrategy(form["strategy"].set \cup {"picks"})
    <3>1. form["strategy"].label \in Strategies
      BY <1>1, <2>2, LastOfStrategy, FieldFacts DEF Answered
    <3> QED
      BY <2>2, <3>1, AddStrategyTypes DEF Inv
  <2> QED
    BY <2>1, <2>2, StrategyCases
<1> QED
  BY <1>1, <1>2, <1>3, StrategyCases, LastInv, FieldFacts

LEMMA ContractCases ==
  ASSUME Inv, NEW u, TickerCB(u)
  PROVE  \/ /\ InitContract(form["contract"].set \cup {"cb"})
            /\ UpdateContract(form["contract"].label)
            /\ \/ /\ form' = [form EXCEPT !["contract"] = Cleared]
                  /\ answered' = [answered EXCEPT !["contract"] = {}]
               \/ Fill("contract", {"cb"})
            /\ UNCHANGED <<up, restarts, chat, picks, modifier, trigger, registry>>
         \/ /\ InitContract(form["contract"].set \cup {"cb"})
            /\ EndInWrite(WithContract(conf, form["contract"].label)) /\ End
         \/ /\ Fill("contract", {"cb"})
            /\ UNCHANGED <<up, restarts, chat, picks, modifier, trigger, registry, config>>
BY DEF TickerCB, Inv, FormOK, Kinds

LEMMA ContractInv ==
  ASSUME Inv, NEW u \in Users, TickerCB(u)
  PROVE  Inv'
<1>1. asks[u] = "addContract_TickerCB" /\ up
  BY DEF TickerCB, Asked, Listening
<1>2. ASSUME InitContract(form["contract"].set \cup {"cb"})
      PROVE  form["contract"].label \in Contracts
  BY <1>1, <1>2, LastOfContract
<1>3. ASSUME UNCHANGED <<up, restarts, chat, picks, modifier, trigger, registry>>, ConfigOK',
             \/ /\ form' = [form EXCEPT !["contract"] = Cleared]
                /\ answered' = [answered EXCEPT !["contract"] = {}]
             \/ Fill("contract", {"cb"})
      PROVE  Inv'
  <2>1. PicksOK' /\ C!TypeOK'
    BY <1>3, PicksKept, RegistryKept DEF Inv
  <2> QED
    BY <1>1, <1>3, <2>1, LastInv, FieldFacts
<1>4. CASE /\ InitContract(form["contract"].set \cup {"cb"})
           /\ UpdateContract(form["contract"].label)
           /\ \/ /\ form' = [form EXCEPT !["contract"] = Cleared]
                 /\ answered' = [answered EXCEPT !["contract"] = {}]
              \/ Fill("contract", {"cb"})
           /\ UNCHANGED <<up, restarts, chat, picks, modifier, trigger, registry>>
  <2>1. ConfigOK'
    <3>1. ConfigOK' \/ ~(up' => up)
      BY <1>1, <1>2, <1>4, UpdateContractKeeps DEF Inv
    <3> QED
      BY <1>1, <3>1
  <2> QED
    BY <1>3, <1>4, <2>1
<1>5. CASE /\ InitContract(form["contract"].set \cup {"cb"})
           /\ EndInWrite(WithContract(conf, form["contract"].label)) /\ End
  <2>1. \A t \in WithContract(conf, form["contract"].label) : IsTree(t)
    BY <1>2, <1>5, ContractTree DEF Inv, ConfigOK, ConfigTypeOK
  <2>2. ConfigOK'
    BY <1>5, <2>1, EndInWriteKeeps DEF Inv, End
  <2> QED
    BY <1>5, <2>2, NoObjectsTypes, EndInv DEF End, Inv
<1>6. CASE /\ Fill("contract", {"cb"})
           /\ UNCHANGED <<up, restarts, chat, picks, modifier, trigger, registry, config>>
  BY <1>3, <1>6, ConfigKept DEF Inv
<1> QED
  BY <1>4, <1>5, <1>6, ContractCases

\* The last answer of a rule empties the form of the strategy.
LEMMA RuleCases ==
  ASSUME Inv, NEW u, SlippageOfRule(u)
  PROVE  \/ /\ C!AddRule(form["rule"].label, trigger)
            /\ form' = [form EXCEPT !["rule"].set = @ \cup {"slippage"}, !["strategy"] = Cleared]
            /\ answered' = [answered EXCEPT !["rule"] = {}]
            /\ picks' = [picks EXCEPT !["strategy"] = << >>]
         \/ Fill("rule", {"slippage"}) /\ UNCHANGED <<picks, registry>>
BY DEF SlippageOfRule, Inv, FormOK, Kinds

LEMMA RuleInv ==
  ASSUME Inv, NEW u \in Users, SlippageOfRule(u)
  PROVE  Inv'
<1>1. UNCHANGED <<up, chat, modifier, trigger, config>> /\ asks[u] = "addRule_Slippage"
  BY DEF SlippageOfRule, Asked
<1>2. PicksOK' /\ ConfigOK'
  BY <1>1, RuleCases, PicksKept, PicksEmptied, ConfigKept DEF Inv
<1>3. form["rule"].label \in Rules
  BY <1>1 DEF Inv, Wholes, RuleNamed, QuestionsFor
<1>4. C!TypeOK'
  BY <1>3, RuleCases, AddRuleTypes, RegistryKept DEF Inv
<1>5. ChatOK' /\ UNCHANGED asks /\ \A k \in Kinds : SameQuestions(k)
  BY <1>1, AskedNothing DEF Inv, ChatOK, chat
<1>6. CASE Fill("rule", {"slippage"})
  <2>1. /\ FormOK' /\ \A j \in Kinds \ {"rule"} : SameForm(j)
        /\ form'["rule"].label = form["rule"].label
    BY <1>6, FilledForm DEF Inv, Kinds, Fields
  <2>2. \A j \in Emptied : Whole(j)'
    BY <1>5, <2>1, WholeKept DEF Inv, Wholes, Emptied, Kinds
  <2> QED
    BY <1>2, <1>4, <1>5, <2>1, <2>2 DEF Inv, Wholes, RuleNamed
<1>7. CASE /\ form' = [form EXCEPT !["rule"].set = @ \cup {"slippage"}, !["strategy"] = Cleared]
           /\ answered' = [answered EXCEPT !["rule"] = {}]
  <2> DEFINE f == [form["rule"] EXCEPT !.set = @ \cup {"slippage"}]
  <2>1. /\ f \in [label : Rules \cup {None}, set : SUBSET Fields["rule"]]
        /\ f.label = form["rule"].label
    BY DEF Inv, FormOK, Fields, LabelsOf, Kinds
  <2>2. form' = [form EXCEPT !["rule"] = f, !["strategy"] = Cleared]
    BY <1>7 DEF Inv, FormOK, IsFamily, Kinds
  <2> HIDE DEF f
  <2>3. /\ form'["rule"] = f /\ form'["strategy"] = Cleared /\ answered'["rule"] = {}
        /\ answered'["strategy"] = answered["strategy"]
        /\ \A j \in Kinds \ {"rule", "strategy"} : SameForm(j)
    BY <1>7, <2>2 DEF Inv, FormOK, IsFamily, SameForm, Kinds
  <2>4. IsFamily(form)' /\ IsFamily(answered)'
    BY <1>7, <2>2 DEF Inv, FormOK, IsFamily
  <2>5. Cleared \in [label : Strategies \cup {None}, set : SUBSET Fields["strategy"]]
    BY DEF Cleared
  <2>6. FormOK'
    BY <2>1, <2>3, <2>4, <2>5 DEF Inv, FormOK, SameForm, LabelsOf
  <2>7. \A j \in Emptied : Whole(j)'
    BY <1>5, <2>3, WholeKept, WholeCleared DEF Inv, Wholes, Emptied, Kinds
  <2> QED
    BY <1>2, <1>4, <1>5, <2>1, <2>3, <2>6, <2>7 DEF Inv, Wholes, RuleNamed
<1> QED
  BY <1>6, <1>7, RuleCases

-----------------------------------------------------------------------------
(* The other handlers.                                                     *)

LEMMA AnyMenuInv ==
  ASSUME Inv, NEW u \in Users, NEW event, NEW k \in Kinds, NEW keyboards,
         keyboards \subseteq {"removeIndicator", "removeSignal", "removeRule",
                              "removeStrategy", "stopStrategy", "startStrategy"},
         Menu(u, event, k, keyboards)
  PROVE  Inv'
<1>1. ConfigOK' /\ up' \in BOOLEAN /\ UNCHANGED <<forms, registry>>
  BY ConfigKept DEF Menu, Inv, ChatOK
<1>2. CASE AskLabel(u, k)
  BY <1>1, <1>2, MenuFacts, MenuInv DEF AskLabel
<1>3. ASSUME NEW e \in keyboards, Ask(u, e) PROVE Inv'
  BY <1>1, <1>3, MenuFacts, MenuInv DEF Ask
<1> QED
  BY <1>2, <1>3 DEF Menu

LEMMA MenusInv ==
  ASSUME Inv, NEW u \in Users,
         \/ \E e \in Menus \cup {"stopUI_Farewell"} : Dashboard(u, e)
         \/ IndicatorMenu(u) \/ SignalMenu(u) \/ RuleMenu(u) \/ StrategyMenu(u)
         \/ ContractMenu(u) \/ KeyMenu(u) \/ (\E k \in Keys : ReplaceKey(u, k)) \/ StopUI(u)
  PROVE  Inv'
<1>0. {"indicator", "signal", "rule", "strategy", "contract"} = Kinds
  BY DEF Kinds
<1>1. ASSUME NEW e \in Menus \cup {"stopUI_Farewell"}, Dashboard(u, e) PROVE Inv'
  <2>1. ConfigOK' /\ up' \in BOOLEAN
    BY <1>1, ConfigKept DEF Dashboard, Inv, ChatOK
  <2> QED
    BY <1>1, <2>1, MenuFacts, MenuInv DEF Dashboard
<1>2. CASE IndicatorMenu(u)
  BY <1>0, <1>2, AnyMenuInv DEF IndicatorMenu
<1>3. CASE SignalMenu(u)
  BY <1>0, <1>3, AnyMenuInv DEF SignalMenu
<1>4. CASE RuleMenu(u)
  BY <1>0, <1>4, AnyMenuInv DEF RuleMenu
<1>5. CASE StrategyMenu(u)
  BY <1>0, <1>5, AnyMenuInv DEF StrategyMenu
<1>6. CASE Menu(u, "setup_Contracts", "contract", {})
  BY <1>0, <1>6, AnyMenuInv
<1>7. CASE LoadFromIni /\ UNCHANGED <<up, restarts, chat, forms, registry>>
  <2>1. ConfigOK' /\ up' \in BOOLEAN
    BY <1>7, LoadKeeps DEF Inv, ChatOK
  <2>2. "none" \in Questions /\ \A k \in Kinds : "none" \notin QuestionsFor[k]
    BY MenuFacts
  <2> QED
    BY <1>7, <2>1, <2>2, MenuInv DEF chat
<1>8. CASE KeyMenu(u)
  <2>1. ConfigOK' /\ up' \in BOOLEAN
    BY <1>8, ConfigKept DEF KeyMenu, Inv, ChatOK
  <2> QED
    BY <1>8, <2>1, MenuFacts, MenuInv DEF KeyMenu, Ask
<1>9. ASSUME NEW key \in Keys, ReplaceKey(u, key) PROVE Inv'
  <2>1. CASE UpdateKey(key) /\ UNCHANGED <<up, restarts, chat, forms, registry>>
    <3>1. ConfigOK' /\ up' \in BOOLEAN
      BY <1>9, <2>1, UpdateKeyKeeps DEF ReplaceKey, Asked, Listening, Inv, ChatOK
    <3>2. "none" \in Questions /\ \A k \in Kinds : "none" \notin QuestionsFor[k]
      BY MenuFacts
    <3> QED
      BY <2>1, <3>1, <3>2, MenuInv DEF chat
  <2>2. CASE EndInWrite({WithKey(conf, key)}) /\ End
    <3>1. IsTree(WithKey(conf, key))
      BY KeyTree DEF Inv, ConfigOK, ConfigTypeOK
    <3>2. ConfigOK'
      BY <2>2, <3>1, EndInWriteKeeps DEF Inv, End
    <3> QED
      BY <2>2, <3>2, NoObjectsTypes, EndInv DEF End, Inv
  <2> QED
    BY <1>9, <2>1, <2>2 DEF ReplaceKey
<1>10. CASE StopUI(u)
  BY <1>10, GoneKeeps, NoObjectsTypes, EndInv DEF StopUI, End, Inv
<1> QED
  BY <1>1, <1>2, <1>3, <1>4, <1>5, <1>6, <1>7, <1>8, <1>9, <1>10 DEF ContractMenu

LEMMA LabelsInv ==
  ASSUME Inv, NEW u \in Users,
         \/ \E l \in Indicators : LabelIndicator(u, l)
         \/ \E l \in Signals : LabelSignal(u, l)
         \/ \E l \in Rules : LabelRule(u, l)
         \/ \E l \in Strategies : LabelStrategy(u, l)
         \/ \E l \in Contracts : LabelContract(u, l)
  PROVE  Inv'
<1>0. /\ "addIndicator_Ticker" \in QuestionsFor["indicator"]
      /\ "addRule_TradingTicker" \in QuestionsFor["rule"]
      /\ "addSignal_Indicators" \in QuestionsFor["signal"]
      /\ "addContract_TickerQS" \in QuestionsFor["contract"]
      /\ Given["addIndicator_Ticker"] = {"label"} /\ Given["addSignal_Indicators"] = {"label"}
      /\ Given["addContract_TickerQS"] = {"label"}
      /\ "rule" \notin Emptied
      /\ {"indicator", "signal", "rule", "strategy", "contract"} = Kinds
  BY DEF QuestionsFor, Given, Kinds, Emptied
<1>1. ASSUME NEW l \in Indicators, LabelIndicator(u, l) PROVE Inv'
  BY <1>0, <1>1, FieldFacts, LoadKeeps, LabelInv DEF LabelIndicator, Inv
<1>2. ASSUME NEW l \in Signals, LabelSignal(u, l) PROVE Inv'
  BY <1>0, <1>2, FieldFacts, ConfigKept, LabelInv DEF LabelSignal, Inv
<1>3. ASSUME NEW l \in Rules, LabelRule(u, l) PROVE Inv'
  BY <1>0, <1>3, FieldFacts, ConfigKept, LabelInv DEF LabelRule, Inv
<1>4. ASSUME NEW l \in Strategies, LabelStrategy(u, l) PROVE Inv'
  BY <1>0, <1>4, FieldFacts, ConfigKept, LabelInv DEF LabelStrategy, Inv
<1>5. ASSUME NEW l \in Contracts, LabelContract(u, l) PROVE Inv'
  BY <1>0, <1>5, FieldFacts, ConfigKept, LabelInv DEF LabelContract, Inv
<1> QED
  BY <1>1, <1>2, <1>3, <1>4, <1>5

\* A tap changes nothing but the picks.
LEMMA TapInv ==
  ASSUME Inv, NEW u \in Users, NEW k \in {"signal", "strategy"}, NEW event, NEW l,
         l \in IF k = "signal" THEN Indicators ELSE Rules, Tap(u, event, k, l)
  PROVE  Inv'
<1>1. PicksOK'
  <2>1. Append(picks[k], l) \in IF k = "signal" THEN Seq(Indicators) ELSE Seq(Rules)
    <3>1. picks["signal"] \in Seq(Indicators) /\ picks["strategy"] \in Seq(Rules)
      BY DEF Inv, PicksOK
    <3>2. CASE k = "signal"
      <4>1. l \in Indicators
        BY <3>2
      <4> QED
        BY <3>1, <3>2, <4>1
    <3>3. CASE k = "strategy"
      <4>1. l \in Rules
        BY <3>3
      <4> QED
        BY <3>1, <3>3, <4>1
    <3> QED
      BY <3>2, <3>3
  <2>2. picks' = [picks EXCEPT ![k] = Append(picks[k], l)] /\ UNCHANGED <<modifier, trigger>>
    BY DEF Tap
  <2> QED
    BY <2>1, <2>2 DEF Inv, PicksOK
<1>2. ChatOK' /\ \A j \in Kinds : SameQuestions(j)
  BY AskedNothing DEF Tap, chat, Inv, ChatOK
<1>3. FormOK' /\ \A j : SameForm(j)
  BY FormsKept DEF Tap, Inv
<1> QED
  BY <1>1, <1>2, <1>3, WholesKept, ConfigKept, RegistryKept DEF Inv, Tap

LEMMA TapsInv ==
  ASSUME Inv, NEW u \in Users,
         \/ \E i \in Indicators : PickIndicator(u, i)
         \/ \E r \in Rules : PickRule(u, r)
  PROVE  Inv'
<1>1. ASSUME NEW i \in Indicators, PickIndicator(u, i) PROVE Inv'
  BY <1>1, TapInv DEF PickIndicator
<1>2. ASSUME NEW r \in Rules, PickRule(u, r) PROVE Inv'
  BY <1>2, TapInv DEF PickRule
<1> QED
  BY <1>1, <1>2

\* The answers in the middle of a dialogue.
LEMMA StepsInv ==
  ASSUME Inv, NEW u \in Users,
         \/ TickerOfIndicator(u) \/ SideOfIndicator(u) \/ PicksOfSignal(u) \/ TypeOfSignal(u)
         \/ TickerOfRule(u) \/ SideOfRule(u) \/ ValueOfRule(u) \/ QuantityOfRule(u)
         \/ TickerQS(u)
  PROVE  Inv'
<1> USE DEF QuestionsFor, Given, Fields, Kinds, Emptied
<1>1. CASE TickerOfIndicator(u)
  BY <1>1, StepInv DEF TickerOfIndicator
<1>2. CASE SideOfIndicator(u)
  BY <1>2, StepInv DEF SideOfIndicator
<1>3. CASE PicksOfSignal(u)
  BY <1>3, StepInv DEF PicksOfSignal
<1>4. CASE TypeOfSignal(u)
  BY <1>4, StepInv DEF TypeOfSignal
<1>5. CASE TickerOfRule(u)
  BY <1>5, StepInv DEF TickerOfRule
<1>6. CASE SideOfRule(u)
  BY <1>6, StepInv DEF SideOfRule
<1>7. CASE ValueOfRule(u)
  BY <1>7, StepInv DEF ValueOfRule
<1>8. CASE QuantityOfRule(u)
  BY <1>8, StepInv DEF QuantityOfRule
<1>9. CASE TickerQS(u)
  BY <1>9, StepInv DEF TickerQS
<1> QED
  BY <1>1, <1>2, <1>3, <1>4, <1>5, <1>6, <1>7, <1>8, <1>9

\* The signal of a rule is looked up.
LEMMA SignalOfRuleInv ==
  ASSUME Inv, NEW u \in Users, NEW s \in Signals, SignalOfRule(u, s)
  PROVE  Inv'
<1>0. /\ "addRule_SignalLabel" \in QuestionsFor["rule"]
      /\ "addRule_SignalValue" \in QuestionsFor["rule"]
      /\ "rule" \in Kinds /\ "signal" \in Fields["rule"]
  BY DEF QuestionsFor, Kinds, Fields
<1>1. /\ FormOK' /\ \A j \in Kinds \ {"rule"} : SameForm(j)
      /\ form'["rule"].label = form["rule"].label
  BY <1>0, FilledForm DEF Inv, SignalOfRule
<1>2. /\ asks' \in [Users -> Questions] /\ UNCHANGED prompts
      /\ \A j \in Kinds \ {"rule"} : SameQuestions(j)
      /\ \A v \in Users : asks'[v] = asks[v] \/ (v = u /\ asks'[v] = "addRule_SignalValue")
  BY <1>0, Asks DEF Inv, SignalOfRule
<1>3. \A j \in Emptied : Whole(j)'
  BY <1>1, <1>2, WholeKept DEF Inv, Wholes, Emptied, Kinds
<1>4. RuleNamed'
  BY <1>0, <1>1, <1>2, RuleStillNamed DEF Inv, Wholes, SignalOfRule, Asked
<1>5. ChatOK' /\ PicksOK' /\ ConfigOK' /\ C!TypeOK'
  BY <1>2, ConfigKept, RegistryKept DEF Inv, SignalOfRule, ChatOK, PicksOK
<1> QED
  BY <1>1, <1>3, <1>4, <1>5 DEF Inv, Wholes

\* A modifier other than "none" has a value.
LEMMA ModifierTypeInv ==
  ASSUME Inv, NEW u \in Users, ModifierType(u)
  PROVE  Inv'
<1>0. /\ "addIndicator_ModifierValue" \in QuestionsFor["indicator"]
      /\ Given["addIndicator_ModifierValue"] = Given["addIndicator_ModifierType"]
      /\ "addIndicator_ModifierType" \in QuestionsFor["indicator"]
      /\ "indicator" \in Kinds /\ "indicator" \in Emptied
  BY DEF QuestionsFor, Given, Kinds, Emptied
<1>1. FormOK' /\ \A j : SameForm(j)
  BY FormsKept DEF Inv, ModifierType
<1>2. /\ asks' \in [Users -> Questions] /\ UNCHANGED prompts
      /\ \A j \in Kinds \ {"indicator"} : SameQuestions(j)
      /\ \A v \in Users :
           asks'[v] = asks[v] \/ (v = u /\ asks'[v] = "addIndicator_ModifierValue")
  BY <1>0, Asks DEF Inv, ModifierType
<1>3. Whole("indicator")'
  <2>1. CASE Settled("indicator")
    BY <1>1, <2>1 DEF Settled, Whole, SameForm
  <2>2. CASE Fresh("indicator")
    BY <1>0, <1>1, <1>2, <2>2 DEF Fresh, InOrder, Whole, SameForm, ModifierType, Asked
  <2> QED
    BY <1>0, <2>1, <2>2 DEF Inv, Wholes, Whole
<1>4. \A j \in Emptied : Whole(j)'
  BY <1>1, <1>2, <1>3, WholeKept DEF Inv, Wholes, Emptied, Kinds
<1>5. RuleNamed'
  BY <1>1, <1>2 DEF Inv, Wholes, RuleNamed, SameForm, SameQuestions, Kinds
<1>6. ChatOK' /\ PicksOK' /\ ConfigOK' /\ C!TypeOK'
  BY <1>2, ConfigKept, RegistryKept DEF Inv, ModifierType, ChatOK, PicksOK
<1> QED
  BY <1>1, <1>4, <1>5, <1>6 DEF Inv, Wholes

\* Removing, stopping and starting.
LEMMA CommandsInv ==
  ASSUME Inv, NEW u \in Users,
         \/ \E l \in Indicators : RemoveIndicator(u, l)
         \/ \E l \in Signals : RemoveSignal(u, l)
         \/ \E l \in Rules : RemoveRule(u, l)
         \/ \E l \in Strategies : RemoveStrategy(u, l) \/ StopStrategy(u, l) \/ StartStrategy(u, l)
  PROVE  Inv'
<1>1. running = None /\ Removed /\ C!TypeOK
  BY DEF Inv, RemoveIndicator, RemoveSignal, RemoveRule, RemoveStrategy, StopStrategy,
     StartStrategy, Asked, Listening
<1>2. C!TypeOK'
  BY <1>1, RemoveIndicatorTypes, CommandTypes DEF RemoveIndicator, RemoveSignal, RemoveRule,
     RemoveStrategy, StopStrategy, StartStrategy
<1> QED
  BY <1>1, <1>2, CommandInv

-----------------------------------------------------------------------------
(* Starting the process.                                                   *)

LEMMA EmptyRegistries ==
  ASSUME indicators = {}, modifiers = {}, signals = << >>, rules = << >>, strategies = << >>,
         online = {}, running = None, crash = "none", past \subseteq Rules
  PROVE  C!TypeOK
BY EmptyRegistry DEF C!TypeOK

\* The first load of the file that the robot was installed with.
LEMMA InitConfig ==
  ASSUME file \in Files, conf = file, tpk \in KeysIn(file), offered = Listed(file),
         kept = Range(file)
  PROVE  ConfigOK
<1>1. /\ IsTree(file) /\ Writable(file)
      /\ \A i \in DOMAIN file : IF file[i].name = KeySection THEN file[i].holds \in Keys
                                                            ELSE file[i].holds = "contract"
      /\ "contract" \notin Keys
  BY ConfigAssumption
<1>2. ConfigTypeOK
  BY <1>1, LoadedTypes DEF ConfigTypeOK
<1>3. \A s \in kept : s.holds \in Keys => s.name = KeySection
  BY <1>1 DEF Range
<1>4. \A s \in kept : s.name = KeySection => tpk = s.holds
  <2> SUFFICES ASSUME NEW i \in DOMAIN file, file[i].name = KeySection PROVE tpk = file[i].holds
    BY DEF Range
  <2>1. PICK j \in DOMAIN file : file[j].name = KeySection /\ tpk = file[j].holds
    BY DEF KeysIn
  <2> QED
    BY <1>1, <2>1, TreeFacts
<1> QED
  BY <1>2, <1>3, <1>4, FileInTree DEF ConfigOK, ConfigDurable

LEMMA InitInv == Init => Inv
<1> SUFFICES ASSUME Init PROVE Inv
  OBVIOUS
<1>1. asks = [u \in Users |-> "none"] /\ answered = [k \in Kinds |-> {}] /\ ConfigOK
  BY InitConfig DEF Init
<1>2. ChatOK
  BY <1>1, MenuFacts DEF Init, ChatOK
<1>3. Wholes
  BY <1>1, NothingAsked
<1>4. << >> \in Seq(Indicators) /\ << >> \in Seq(Rules)
  OBVIOUS
<1>5. CASE /\ form \in Garbage /\ trigger = None /\ indicators = {}
           /\ signals = << >> /\ rules = << >> /\ strategies = << >>
  <2>1. FormOK
    BY <1>1, <1>5, GarbageForm DEF FormOK, IsFamily
  <2>2. C!TypeOK
    BY <1>5, EmptyRegistries DEF Init
  <2>3. PicksOK
    BY <1>4, <1>5 DEF Init, PicksOK
  <2> QED
    BY <1>1, <1>2, <1>3, <2>1, <2>2, <2>3 DEF Inv
<1>6. ASSUME NEW i \in Indicators, NEW s \in Signals, NEW r \in Rules,
             form = [k \in Kinds |-> IF k = "rule" THEN [label |-> r, set |-> Fields[k]]
                                                  ELSE Cleared],
             trigger = s, indicators = {i}, signals = [x \in {s} |-> <<i, i>>],
             rules = [x \in {r} |-> [signal |-> s, inds |-> <<i, i>>]],
             \/ strategies = << >>
             \/ \E a \in Strategies : strategies = [x \in {a} |-> [rules |-> {r}, inds |-> {i}]]
      PROVE  Inv
  <2>1. FormOK
    BY <1>1, <1>6, FieldFacts DEF FormOK, IsFamily, Cleared
  <2>2. <<i, i>> \in Seq(Indicators)
    OBVIOUS
  <2>3. /\ C!IsRegistry(signals, Signals, Seq(Indicators))
        /\ C!IsRegistry(rules, Rules, C!RuleObjects)
    BY <1>6, <2>2 DEF C!IsRegistry, C!RuleObjects
  <2>4. C!IsRegistry(strategies, Strategies, C!StrategyObjects)
    <3>1. CASE strategies = << >>
      BY <3>1, EmptyRegistry DEF C!IsRegistry
    <3>2. ASSUME NEW a \in Strategies, strategies = [x \in {a} |-> [rules |-> {r}, inds |-> {i}]]
          PROVE  C!IsRegistry(strategies, Strategies, C!StrategyObjects)
      BY <1>6, <3>2 DEF C!IsRegistry, C!StrategyObjects
    <3> QED
      BY <1>6, <3>1, <3>2
  <2>5. C!TypeOK
    BY <1>6, <2>3, <2>4 DEF C!TypeOK, Init
  <2>6. PicksOK
    BY <1>4, <1>6 DEF Init, PicksOK
  <2> QED
    BY <1>1, <1>2, <1>3, <2>1, <2>5, <2>6 DEF Inv
<1> QED
  BY <1>5, <1>6 DEF Init

LEMMA RestartInv ==
  ASSUME Inv, Restart
  PROVE  Inv'
<1>1. ConfigOK' /\ up' \in BOOLEAN /\ C!TypeOK'
  BY LoadFirstKeeps, NoObjectsTypes DEF Restart, Inv, Loads
<1> QED
  BY <1>1, NoAnswersInv DEF Restart

LEMMA AnswerInv ==
  ASSUME Inv, NEW u \in Users, Answer(u)
  PROVE  Inv'
<1>1. NoModifier(u) => Inv'
  BY AddIndicatorInv DEF NoModifier, Asked
<1>2. ModifierValue(u) => Inv'
  BY AddIndicatorInv DEF ModifierValue, Asked, Inv, PicksOK
<1> QED
  BY <1>1, <1>2, MenusInv, LabelsInv, TapsInv, StepsInv, SignalOfRuleInv, ModifierTypeInv,
     CommandsInv, RelationInv, RuleInv, StrategyInv, ContractInv DEF Answer

LEMMA StepsKeepInv == Inv /\ [Next]_vars => Inv'
<1> SUFFICES ASSUME Inv, [Next]_vars PROVE Inv'
  OBVIOUS
<1>1. CASE UNCHANGED vars
  <2>1. ChatOK' /\ PicksOK' /\ \A k \in Kinds : SameQuestions(k)
    BY <1>1, AskedNothing, PicksKept DEF vars, chat, forms, Inv, ChatOK
  <2>2. FormOK' /\ \A k : SameForm(k)
    BY <1>1, FormsKept DEF vars, forms, Inv
  <2> QED
    BY <1>1, <2>1, <2>2, WholesKept, ConfigKept, RegistryKept DEF vars, Inv
<1> QED
  BY <1>1, AnswerInv, RestartInv DEF Next

LEMMA Invariant == Spec => []Inv
  BY InitInv, StepsKeepInv, PTL DEF Spec

(***************************************************************************)
(* Whoever answers, in whichever order: forms, registries and the          *)
(* configuration hold what they should, and no object is registered        *)
(* without a label.                                                        *)
(***************************************************************************)
THEOREM TypeCorrect == Spec => []TypeOK
  BY Invariant, InvTypes, PTL

-----------------------------------------------------------------------------
(* Whole objects and free labels.                                          *)

\* What most steps do: nothing is registered; and what is asked for or answered
\* leaves the labels of the forms.
NoGrowth == /\ indicators' \subseteq indicators /\ modifiers' \subseteq modifiers
            /\ DOMAIN signals' \subseteq DOMAIN signals
            /\ DOMAIN strategies' \subseteq DOMAIN strategies
\* The kinds whose labels are looked up when they are answered, and whose forms are
\* emptied.
LookedUp == {"indicator", "signal", "strategy"}
SameLabels == \A k \in LookedUp : form'[k].label = form[k].label

\* The handlers that register an object.
Registers(u) == \/ NoModifier(u) \/ ModifierValue(u) \/ RelationOfSignal(u)
                \/ RulesOfStrategy(u) \/ SlippageOfRule(u)

LEMMA UnchangedRegistry == UNCHANGED registry => NoGrowth
  BY DEF registry, NoGrowth

LEMMA CommandsShrink ==
  ASSUME NEW u,
         \/ \E l \in Indicators : RemoveIndicator(u, l)
         \/ \E l \in Signals : RemoveSignal(u, l)
         \/ \E l \in Rules : RemoveRule(u, l)
         \/ \E l \in Strategies : RemoveStrategy(u, l) \/ StopStrategy(u, l) \/ StartStrategy(u, l)
  PROVE  NoGrowth
<1>1. ASSUME NEW l, C!RemoveIndicator(l) PROVE NoGrowth
  <2>1. CASE C!Die("end_erased")
    BY <2>1, EmptyRegistry DEF C!Die, NoGrowth
  <2>2. CASE ~C!Die("end_erased")
    BY <1>1, <2>2 DEF C!RemoveIndicator, NoGrowth
  <2> QED
    BY <2>1, <2>2
<1>2. ASSUME NEW l, \/ C!RemoveSignal(l) \/ C!RemoveRule(l) \/ C!RemoveStrategy(l)
                    \/ C!StopStrategy(l) \/ C!StartStrategy(l)
      PROVE  NoGrowth
  BY <1>2 DEF C!RemoveSignal, C!RemoveRule, C!RemoveStrategy, C!StopStrategy, C!StartStrategy,
     C!Without, C!Restrict, NoGrowth
<1> QED
  BY <1>1, <1>2 DEF RemoveIndicator, RemoveSignal, RemoveRule, RemoveStrategy, StopStrategy,
     StartStrategy

LEMMA NoObjectsShrink == NoObjects => NoGrowth
  BY EmptyRegistry DEF NoObjects, NoGrowth

LEMMA OnlyRegistersGrow ==
  ASSUME NEW u \in Users, Answer(u), ~Registers(u)
  PROVE  NoGrowth
<1>1. CASE UNCHANGED registry
  BY <1>1, UnchangedRegistry
<1>2. CASE NoObjects
  BY <1>2, NoObjectsShrink
<1>3. CASE ~UNCHANGED registry /\ ~NoObjects
  <2>1. \/ \E l \in Indicators : RemoveIndicator(u, l)
        \/ \E l \in Signals : RemoveSignal(u, l)
        \/ \E l \in Rules : RemoveRule(u, l)
        \/ \E l \in Strategies : RemoveStrategy(u, l) \/ StopStrategy(u, l) \/ StartStrategy(u, l)
    BY <1>3 DEF Answer, Registers, Dashboard, IndicatorMenu, SignalMenu, RuleMenu, StrategyMenu,
       ContractMenu, Menu, KeyMenu, ReplaceKey, StopUI, LabelIndicator, PickIndicator, Tap,
       TickerOfIndicator, SideOfIndicator, Step, ModifierType, LabelSignal, SignalOfRule,
       PicksOfSignal, TypeOfSignal, LabelRule, PickRule, TickerOfRule, SideOfRule, ValueOfRule,
       QuantityOfRule, LabelStrategy, LabelContract, TickerQS, TickerCB, End
  <2> QED
    BY <2>1, CommandsShrink
<1> QED
  BY <1>1, <1>2, <1>3

LEMMA RestartShrinks == Restart => NoGrowth
  BY NoObjectsShrink DEF Restart

WholeStep ==
  /\ ~(indicators' \subseteq indicators) =>
          Fields.indicator \subseteq answered.indicator \cup {"modifier"}
  /\ ~(DOMAIN signals' \subseteq DOMAIN signals) =>
          Fields.signal \subseteq answered.signal \cup {"relation"}
  /\ ~(DOMAIN strategies' \subseteq DOMAIN strategies) =>
          Fields.strategy \subseteq answered.strategy \cup {"picks"}

LEMMA RegistersWhole ==
  ASSUME Inv, NEW u \in Users, Registers(u)
  PROVE  WholeStep
<1>1. ASSUME NEW m, AddIndicator(m),
             asks[u] \in {"addIndicator_ModifierType", "addIndicator_ModifierValue"}
      PROVE  WholeStep
  <2>1. CASE UNCHANGED registry
    BY <2>1, UnchangedRegistry DEF NoGrowth, WholeStep
  <2>2. CASE C!AddIndicator(form["indicator"].label, m # "none")
             /\ InitIndicator(form["indicator"].set \cup {"modifier"})
    BY <1>1, <2>2, LastOfIndicator DEF C!AddIndicator, Answered, WholeStep
  <2> QED
    BY <1>1, <2>1, <2>2, AddIndicatorCases
<1>2. CASE RelationOfSignal(u)
  <2>0. asks[u] = "addSignal_Relation"
    BY <1>2 DEF RelationOfSignal, Asked
  <2>1. CASE UNCHANGED registry
    BY <2>1, UnchangedRegistry DEF NoGrowth, WholeStep
  <2>2. CASE /\ C!AddSignal(form["signal"].label, picks["signal"])
             /\ InitSignal(form["signal"].set \cup {"relation"})
    BY <2>0, <2>2, LastOfSignal DEF C!AddSignal, Answered, WholeStep
  <2> QED
    BY <1>2, <2>1, <2>2, RelationCases
<1>3. CASE RulesOfStrategy(u)
  <2>0. asks[u] = "addStrategy"
    BY <1>3 DEF RulesOfStrategy, Asked
  <2>1. CASE UNCHANGED registry
    BY <2>1, UnchangedRegistry DEF NoGrowth, WholeStep
  <2>2. CASE /\ C!AddStrategy(form["strategy"].label, picks["strategy"])
             /\ InitStrategy(form["strategy"].set \cup {"picks"})
    BY <2>0, <2>2, LastOfStrategy DEF C!AddStrategy, Answered, WholeStep
  <2> QED
    BY <1>3, <2>1, <2>2, StrategyCases
<1>4. CASE SlippageOfRule(u)
  <2>1. CASE UNCHANGED registry
    BY <2>1, UnchangedRegistry DEF NoGrowth, WholeStep
  <2>2. CASE C!AddRule(form["rule"].label, trigger)
    BY <2>2 DEF C!AddRule, WholeStep
  <2> QED
    BY <1>4, <2>1, <2>2, RuleCases
<1> QED
  BY <1>1, <1>2, <1>3, <1>4 DEF Registers, NoModifier, ModifierValue, Asked

LEMMA StepIsWhole ==
  ASSUME Inv, [Next]_vars
  PROVE  WholeStep
<1>1. NoGrowth => WholeStep
  BY DEF NoGrowth, WholeStep
<1>2. CASE UNCHANGED vars
  BY <1>1, <1>2, UnchangedRegistry DEF vars
<1>3. ASSUME NEW u \in Users, Answer(u) PROVE WholeStep
  BY <1>1, <1>3, OnlyRegistersGrow, RegistersWhole
<1> QED
  BY <1>1, <1>2, <1>3, RestartShrinks DEF Next

(***************************************************************************)
(* Whatever the flags held at start, and whoever leaves, repeats or mixes  *)
(* dialogues: an indicator, a signal or a strategy is registered only when *)
(* all its answers were given since the last one was.                      *)
(***************************************************************************)
THEOREM OnlyWholeObjects == Spec => WholeObjects
<1>1. Inv /\ [Next]_vars => [WholeStep]_vars
  BY StepIsWhole
<1>2. Spec => [][WholeStep]_vars
  BY <1>1, Invariant, PTL DEF Spec
<1> QED
  BY <1>2 DEF WholeObjects, WholeStep

LEMMA FreeKept ==
  ASSUME LabelsFree, NoGrowth, SameLabels
  PROVE  LabelsFree'
BY DEF LabelsFree, NoGrowth, SameLabels, LookedUp

\* A label that was looked up, or none.
LEMMA FreeLabelled ==
  ASSUME LabelsFree, NoGrowth, NEW k \in Kinds,
         \A j \in Kinds \ {k} : form'[j].label = form[j].label,
         k = "indicator" => form'[k].label \notin indicators \cup modifiers,
         k = "signal" => form'[k].label \notin DOMAIN signals,
         k = "strategy" => form'[k].label \notin DOMAIN strategies
  PROVE  LabelsFree'
BY DEF LabelsFree, NoGrowth, Kinds

LEMMA NoneIsFree ==
  ASSUME C!TypeOK
  PROVE  None \notin indicators \cup modifiers \cup DOMAIN signals \cup DOMAIN strategies
BY DialogueAssumption DEF C!TypeOK, C!IsRegistry

LEMMA FilledLabels ==
  ASSUME FormOK, NEW k \in Kinds, NEW fields, Fill(k, fields)
  PROVE  SameLabels
BY DEF FormOK, IsFamily, Fill, SameLabels, LookedUp, Kinds

LEMMA LabelAnswered ==
  ASSUME Inv, NEW u \in Users, NEW k \in Kinds, NEW l \in LabelsOf[k], Labels(u, k, l)
  PROVE  form'[k].label = l /\ \A j \in Kinds \ {k} : form'[j].label = form[j].label
<1>1. "label" \in Fields[k] /\ FormOK
  BY DEF Kinds, Fields, Inv
<1> QED
  BY <1>1, LabelledForm DEF SameForm

LEMMA LabelsFreeHere ==
  ASSUME Inv, LabelsFree, NEW u \in Users,
         \/ \E l \in Indicators : LabelIndicator(u, l)
         \/ \E l \in Signals : LabelSignal(u, l)
         \/ \E l \in Rules : LabelRule(u, l)
         \/ \E l \in Strategies : LabelStrategy(u, l)
         \/ \E l \in Contracts : LabelContract(u, l)
  PROVE  LabelsFree'
<1>0. /\ {"indicator", "signal", "rule", "strategy", "contract"} = Kinds
      /\ LabelsOf["indicator"] = Indicators /\ LabelsOf["signal"] = Signals
      /\ LabelsOf["rule"] = Rules /\ LabelsOf["strategy"] = Strategies
      /\ LabelsOf["contract"] = Contracts
  BY DEF Kinds, LabelsOf
<1>1. UNCHANGED registry /\ NoGrowth
  BY UnchangedRegistry
     DEF LabelIndicator, LabelSignal, LabelRule, LabelStrategy, LabelContract
<1>3. ASSUME NEW l \in Indicators, LabelIndicator(u, l) PROVE LabelsFree'
  BY <1>0, <1>1, <1>3, LabelAnswered, FreeLabelled DEF LabelIndicator
<1>4. ASSUME NEW l \in Signals, LabelSignal(u, l) PROVE LabelsFree'
  BY <1>0, <1>1, <1>4, LabelAnswered, FreeLabelled DEF LabelSignal
<1>5. ASSUME NEW l \in Rules, LabelRule(u, l) PROVE LabelsFree'
  BY <1>0, <1>1, <1>5, LabelAnswered, FreeLabelled DEF LabelRule
<1>6. ASSUME NEW l \in Strategies, LabelStrategy(u, l) PROVE LabelsFree'
  BY <1>0, <1>1, <1>6, LabelAnswered, FreeLabelled DEF LabelStrategy
<1>7. ASSUME NEW l \in Contracts, LabelContract(u, l) PROVE LabelsFree'
  BY <1>0, <1>1, <1>7, LabelAnswered, FreeLabelled DEF LabelContract
<1> QED
  BY <1>3, <1>4, <1>5, <1>6, <1>7

\* A form that is emptied has no label.
LEMMA ClearedLabels ==
  ASSUME Inv, NEW k \in Kinds, form' = [form EXCEPT ![k] = Cleared]
  PROVE  form'[k].label = None /\ \A j \in Kinds \ {k} : form'[j] = form[j]
BY DEF Inv, FormOK, IsFamily, Cleared

LEMMA RegistersFree ==
  ASSUME Inv, LabelsFree, NEW u \in Users, Registers(u)
  PROVE  LabelsFree'
<1>0. /\ {"indicator", "signal", "rule", "strategy", "contract"} = Kinds
      /\ FormOK /\ C!TypeOK
      /\ None \notin indicators \cup modifiers \cup DOMAIN signals \cup DOMAIN strategies
      /\ None \notin Indicators /\ None \notin Signals /\ None \notin Strategies
  BY NoneIsFree, DialogueAssumption DEF Kinds, Inv
<1>1. ASSUME NEW k \in Kinds, NEW field, Fill(k, {field}), UNCHANGED registry PROVE LabelsFree'
  BY <1>0, <1>1, FilledLabels, UnchangedRegistry, FreeKept
<1>2. ASSUME NEW m, AddIndicator(m),
             asks[u] \in {"addIndicator_ModifierType", "addIndicator_ModifierValue"}
      PROVE  LabelsFree'
  <2>1. CASE /\ C!AddIndicator(form["indicator"].label, m # "none")
             /\ InitIndicator(form["indicator"].set \cup {"modifier"})
             /\ form' = [form EXCEPT !["indicator"] = Cleared]
    <3>1. form["indicator"].label \in Indicators
      BY <1>2, <2>1, LastOfIndicator, FieldFacts DEF Answered
    <3>2. /\ form'["indicator"].label = None
          /\ form'["signal"] = form["signal"] /\ form'["strategy"] = form["strategy"]
      BY <1>0, <2>1, ClearedLabels
    <3> QED
      BY <1>0, <2>1, <3>1, <3>2 DEF C!AddIndicator, LabelsFree
  <2> QED
    BY <1>0, <1>1, <1>2, <2>1, AddIndicatorCases
<1>3. CASE RelationOfSignal(u)
  <2>0. asks[u] = "addSignal_Relation"
    BY <1>3 DEF RelationOfSignal, Asked
  <2>1. CASE /\ C!AddSignal(form["signal"].label, picks["signal"])
             /\ InitSignal(form["signal"].set \cup {"relation"})
             /\ form' = [form EXCEPT !["signal"] = Cleared]
    <3>1. form["signal"].label \in Signals
      BY <2>0, <2>1, LastOfSignal, FieldFacts DEF Answered
    <3>2. /\ form'["signal"].label = None
          /\ form'["indicator"] = form["indicator"] /\ form'["strategy"] = form["strategy"]
      BY <1>0, <2>1, ClearedLabels
    <3>3. DOMAIN signals' = DOMAIN signals \cup {form["signal"].label}
      BY <2>1 DEF C!AddSignal, C!With
    <3> QED
      BY <1>0, <2>1, <3>1, <3>2, <3>3 DEF C!AddSignal, LabelsFree
  <2> QED
    BY <1>0, <1>1, <1>3, <2>1, RelationCases
<1>4. CASE RulesOfStrategy(u)
  <2>0. asks[u] = "addStrategy"
    BY <1>4 DEF RulesOfStrategy, Asked
  <2>1. CASE /\ C!AddStrategy(form["strategy"].label, picks["strategy"])
             /\ InitStrategy(form["strategy"].set \cup {"picks"})
             /\ form' = [form EXCEPT !["strategy"] = Cleared]
    <3>1. form["strategy"].label \in Strategies
      BY <2>0, <2>1, LastOfStrategy, FieldFacts DEF Answered
    <3>2. /\ form'["strategy"].label = None
          /\ form'["indicator"] = form["indicator"] /\ form'["signal"] = form["signal"]
      BY <1>0, <2>1, ClearedLabels
    <3>3. DOMAIN strategies' = DOMAIN strategies \cup {form["strategy"].label}
      BY <2>1 DEF C!AddStrategy, C!With
    <3> QED
      BY <1>0, <2>1, <3>1, <3>2, <3>3 DEF C!AddStrategy, LabelsFree
  <2> QED
    BY <1>0, <1>1, <1>4, <2>1, StrategyCases
<1>5. CASE SlippageOfRule(u)
  <2>1. CASE /\ C!AddRule(form["rule"].label, trigger)
             /\ form' = [form EXCEPT !["rule"].set = @ \cup {"slippage"}, !["strategy"] = Cleared]
    <3>1. /\ form'["strategy"].label = None
          /\ form'["indicator"] = form["indicator"] /\ form'["signal"] = form["signal"]
      BY <1>0, <2>1 DEF FormOK, IsFamily, Cleared
    <3> QED
      BY <1>0, <2>1, <3>1 DEF C!AddRule, LabelsFree
  <2> QED
    BY <1>0, <1>1, <1>5, <2>1, RuleCases
<1> QED
  BY <1>2, <1>3, <1>4, <1>5 DEF Registers, NoModifier, ModifierValue, Asked

\* Forms that are gone have no labels.
LEMMA GoneLabels ==
  ASSUME Inv, NoForms, NoGrowth
  PROVE  LabelsFree'
<1>1. \A k \in Kinds : form'[k].label = None
  BY DEF NoForms, Cleared
<1>2. {"indicator", "signal", "strategy"} \subseteq Kinds
  BY DEF Kinds
<1> QED
  BY <1>1, <1>2, NoneIsFree DEF LabelsFree, NoGrowth, Inv

\* All the other handlers leave the labels of the forms as they are.
LEMMA OthersSameLabels ==
  ASSUME Inv, NEW u \in Users, Answer(u), ~Registers(u),
         ~\/ \E l \in Indicators : LabelIndicator(u, l)
          \/ \E l \in Signals : LabelSignal(u, l)
          \/ \E l \in Rules : LabelRule(u, l)
          \/ \E l \in Strategies : LabelStrategy(u, l)
          \/ \E l \in Contracts : LabelContract(u, l)
  PROVE  SameLabels \/ NoForms
<1>0. /\ FormOK /\ {"indicator", "signal", "rule", "strategy", "contract"} = Kinds
      /\ LookedUp \subseteq Kinds \ {"rule", "contract"}
  BY DEF Inv, Kinds, LookedUp
<1>1. CASE UNCHANGED form
  BY <1>1 DEF SameLabels
<1>2. ASSUME NEW event, NEW k \in Kinds, NEW field, NEW next, Step(u, event, k, field, next)
      PROVE  SameLabels
  BY <1>0, <1>2, FilledLabels DEF Step
<1>3. ASSUME NEW s, SignalOfRule(u, s) PROVE SameLabels
  BY <1>0, <1>3, FilledLabels DEF SignalOfRule
<1>4. CASE TickerOfIndicator(u) \/ SideOfIndicator(u)
  BY <1>0, <1>2, <1>4 DEF TickerOfIndicator, SideOfIndicator
<1>5. CASE PicksOfSignal(u) \/ TypeOfSignal(u)
  BY <1>0, <1>2, <1>5 DEF PicksOfSignal, TypeOfSignal
<1>6. CASE TickerOfRule(u) \/ SideOfRule(u)
  BY <1>0, <1>2, <1>6 DEF TickerOfRule, SideOfRule
<1>7. CASE ValueOfRule(u) \/ QuantityOfRule(u)
  BY <1>0, <1>2, <1>7 DEF ValueOfRule, QuantityOfRule
<1>8. CASE TickerQS(u)
  BY <1>0, <1>2, <1>8 DEF TickerQS
<1>9. CASE TickerCB(u)
  <2>1. CASE form' = [form EXCEPT !["contract"] = Cleared]
    BY <1>0, <2>1, ClearedLabels DEF SameLabels
  <2>2. CASE Fill("contract", {"cb"})
    BY <1>0, <2>2, FilledLabels
  <2> QED
    BY <1>9, <2>1, <2>2, ContractCases DEF End
<1>10. \/ UNCHANGED form \/ NoForms
       \/ \E s \in Signals : SignalOfRule(u, s)
       \/ TickerOfIndicator(u) \/ SideOfIndicator(u) \/ PicksOfSignal(u) \/ TypeOfSignal(u)
       \/ TickerOfRule(u) \/ SideOfRule(u) \/ ValueOfRule(u) \/ QuantityOfRule(u)
       \/ TickerQS(u) \/ TickerCB(u)
  BY DEF Answer, Registers, Dashboard, IndicatorMenu, SignalMenu, RuleMenu, StrategyMenu,
     ContractMenu, Menu, KeyMenu, ReplaceKey, StopUI, PickIndicator, Tap, ModifierType, PickRule,
     RemoveIndicator, RemoveSignal, RemoveRule, RemoveStrategy, StopStrategy, StartStrategy,
     Removed, End, forms
<1> QED
  BY <1>1, <1>3, <1>4, <1>5, <1>6, <1>7, <1>8, <1>9, <1>10

\* No form has a label that was looked up when a session begins.
LEMMA NoLabelsYet ==
  ASSUME NEW f \in Garbage
  PROVE  \A k \in Kinds : f[k].label = None
BY DEF Garbage, Cleared

LEMMA LabelsFreeSteps ==
  ASSUME Inv, LabelsFree, [Next]_vars
  PROVE  LabelsFree'
<1>1. CASE UNCHANGED vars
  BY <1>1 DEF vars, forms, registry, LabelsFree
<1>2. ASSUME NEW u \in Users, Answer(u) PROVE LabelsFree'
  BY <1>2, LabelsFreeHere, RegistersFree, OnlyRegistersGrow, OthersSameLabels, FreeKept,
     GoneLabels
<1>3. CASE Restart
  <2>1. /\ form' \in Garbage /\ indicators' = {} /\ modifiers' = {}
        /\ DOMAIN signals' = {} /\ DOMAIN strategies' = {}
    BY <1>3, EmptyRegistry DEF Restart, NoObjects
  <2> QED
    BY <2>1 DEF LabelsFree
<1> QED
  BY <1>1, <1>2, <1>3 DEF Next

LEMMA LabelsFreeAtStart == Init => LabelsFree
<1> SUFFICES ASSUME Init PROVE LabelsFree
  OBVIOUS
<1>0. /\ Inv /\ {"indicator", "signal", "rule", "strategy", "contract"} = Kinds
      /\ modifiers = {}
  BY InitInv, EmptyRegistry DEF Kinds, Init
<1>1. None \notin indicators \cup modifiers \cup DOMAIN signals \cup DOMAIN strategies
  BY <1>0, NoneIsFree DEF Inv
<1>2. \A k \in {"indicator", "signal", "strategy"} : form[k].label = None
  <2>1. CASE form \in Garbage
    BY <1>0, <2>1, NoLabelsYet
  <2>2. ASSUME NEW r, form = [k \in Kinds |-> IF k = "rule" THEN [label |-> r, set |-> Fields[k]]
                                                          ELSE Cleared]
        PROVE  \A k \in {"indicator", "signal", "strategy"} : form[k].label = None
    BY <1>0, <2>2 DEF Cleared
  <2> QED
    BY <2>1, <2>2 DEF Init
<1> QED
  BY <1>1, <1>2 DEF LabelsFree

(***************************************************************************)
(* A label is looked up when it is answered, and its object is registered  *)
(* several messages later: whatever the other chats do in between, it is   *)
(* still free then.                                                        *)
(***************************************************************************)
THEOREM LabelsAreFree == Spec => []LabelsFree
  BY Invariant, LabelsFreeAtStart, LabelsFreeSteps, PTL DEF Spec

-----------------------------------------------------------------------------
(* The configuration.                                                      *)

(***************************************************************************)
(* The key and the contracts that the robot has to keep are in its file,   *)
(* and the key is the one it signs with: through labels that take each     *)
(* other's places in the one tree, writes that throw after they truncated  *)
(* the file, crashes and new starts.                                       *)
(***************************************************************************)
THEOREM StoredIsDurable == Spec => []ConfigDurable
<1>1. Inv => ConfigDurable
  BY DEF Inv, ConfigOK
<1> QED
  BY <1>1, Invariant, PTL

OffersStored ==
  \A u \in Users : asks[u] # asks'[u] /\ asks'[u] = "addIndicator_Ticker"
                     => \A s \in kept : s.name = KeySection \/ s.name \in offered'

LEMMA TickerIsOffered ==
  ASSUME Inv, [Next]_vars
  PROVE  OffersStored
<1>1. CASE UNCHANGED asks
  BY <1>1 DEF OffersStored
<1>2. ASSUME NEW u \in Users, NEW l \in Indicators, LabelIndicator(u, l) PROVE OffersStored
  <2>1. CASE Loads
    <3>1. \A s \in kept : s.name = KeySection \/ s.name \in Listed(file)
      BY DEF Inv, ConfigOK, ConfigDurable, Listed, Range
    <3> QED
      BY <1>2, <2>1, <3>1 DEF LabelIndicator, LoadFromIni, OffersStored
  <2>2. CASE ~Loads
    BY <1>2, <1>1, <2>2 DEF LabelIndicator, chat
  <2> QED
    BY <2>1, <2>2
<1>3. ASSUME NEW u \in Users, NEW e, e # "addIndicator_Ticker", asks' = [asks EXCEPT ![u] = e]
      PROVE  OffersStored
  BY <1>3 DEF Inv, ChatOK, OffersStored
<1>4. ASSUME NEW u \in Users, NEW e, e # "addIndicator_Ticker", Ask(u, e) PROVE OffersStored
  BY <1>3, <1>4 DEF Ask
<1>5. ASSUME NEW u \in Users, NEW k, AskLabel(u, k) PROVE OffersStored
  BY <1>3, <1>5 DEF AskLabel
<1>6. ASSUME NEW u \in Users, NEW e, NEW k, NEW field, NEW next,
             next # "addIndicator_Ticker", Step(u, e, k, field, next)
      PROVE  OffersStored
  BY <1>4, <1>6 DEF Step
<1>7. ASSUME NEW u \in Users, NEW e, NEW k,
             NEW keyboards, "addIndicator_Ticker" \notin keyboards, Menu(u, e, k, keyboards)
      PROVE  OffersStored
  BY <1>4, <1>5, <1>7 DEF Menu
<1>8. ASSUME NoAnswers PROVE OffersStored
  BY <1>8 DEF NoAnswers, OffersStored
<1>9. ASSUME NEW u \in Users, Answer(u), ~\E l \in Indicators : LabelIndicator(u, l)
      PROVE  OffersStored
  <2>1. CASE \E e \in Menus \cup {"stopUI_Farewell"} : Dashboard(u, e)
    BY <1>3, <2>1 DEF Dashboard, Menus
  <2>2. CASE IndicatorMenu(u) \/ SignalMenu(u) \/ RuleMenu(u) \/ StrategyMenu(u)
    BY <1>7, <2>2 DEF IndicatorMenu, SignalMenu, RuleMenu, StrategyMenu
  <2>3. CASE ContractMenu(u) \/ KeyMenu(u)
    BY <1>1, <1>4, <1>7, <2>3 DEF ContractMenu, KeyMenu, chat
  <2>4. CASE TickerOfIndicator(u) \/ SideOfIndicator(u) \/ PicksOfSignal(u) \/ TypeOfSignal(u)
    BY <1>6, <2>4 DEF TickerOfIndicator, SideOfIndicator, PicksOfSignal, TypeOfSignal
  <2>5. CASE TickerOfRule(u) \/ SideOfRule(u) \/ ValueOfRule(u) \/ QuantityOfRule(u) \/ TickerQS(u)
    BY <1>6, <2>5 DEF TickerOfRule, SideOfRule, ValueOfRule, QuantityOfRule, TickerQS
  <2>6. CASE \/ \E s \in Signals : LabelSignal(u, s) \/ SignalOfRule(u, s)
             \/ \E r \in Rules : LabelRule(u, r)
             \/ \E a \in Strategies : LabelStrategy(u, a)
             \/ \E c \in Contracts : LabelContract(u, c)
             \/ ModifierType(u)
    BY <1>4, <2>6 DEF LabelSignal, SignalOfRule, LabelRule, LabelStrategy, LabelContract,
       ModifierType
  <2>7. CASE NoForms
    BY <1>8, <2>7 DEF NoForms
  <2>8. \/ UNCHANGED asks \/ NoForms
        \/ (\E e \in Menus \cup {"stopUI_Farewell"} : Dashboard(u, e))
        \/ IndicatorMenu(u) \/ SignalMenu(u) \/ RuleMenu(u) \/ StrategyMenu(u)
        \/ ContractMenu(u) \/ KeyMenu(u)
        \/ TickerOfIndicator(u) \/ SideOfIndicator(u) \/ PicksOfSignal(u) \/ TypeOfSignal(u)
        \/ TickerOfRule(u) \/ SideOfRule(u) \/ ValueOfRule(u) \/ QuantityOfRule(u) \/ TickerQS(u)
        \/ (\E s \in Signals : LabelSignal(u, s) \/ SignalOfRule(u, s))
        \/ (\E r \in Rules : LabelRule(u, r))
        \/ (\E a \in Strategies : LabelStrategy(u, a))
        \/ (\E c \in Contracts : LabelContract(u, c))
        \/ ModifierType(u)
    BY <1>9 DEF Answer, ReplaceKey, StopUI, RemoveIndicator, RemoveSignal, RemoveRule,
       RemoveStrategy, StopStrategy, StartStrategy, Removed, PickIndicator, PickRule, Tap,
       NoModifier, ModifierValue, AddIndicator, RelationOfSignal, SlippageOfRule,
       RulesOfStrategy, TickerCB, End, chat
  <2> QED
    BY <1>1, <2>1, <2>2, <2>3, <2>4, <2>5, <2>6, <2>8, <2>7
<1>10. CASE UNCHANGED vars
  BY <1>1, <1>10 DEF vars, chat
<1> QED
  BY <1>2, <1>9, <1>8, <1>10 DEF Next, Restart

(***************************************************************************)
(* A contract that the robot has to keep, from this session or an earlier  *)
(* one, is offered in every indicator dialogue that is begun afterwards.   *)
(***************************************************************************)
THEOREM StoredContractsAreOffered == Spec => StoredIsOffered
<1>1. Inv /\ [Next]_vars => [OffersStored]_vars
  BY TickerIsOffered
<1>2. Spec => [][OffersStored]_vars
  BY <1>1, Invariant, PTL DEF Spec
<1> QED
  BY <1>2 DEF StoredIsOffered, OffersStored
=============================================================================
