----------------------------- MODULE RobotConfig -----------------------------
(***************************************************************************)
(* config::RobotConfig: the ini file of the robot, its copy in memory (a   *)
(* boost property tree), and the contracts that the dialogues offer.       *)
(*                                                                         *)
(* The key and the contracts are sections of one tree.  A contract is put  *)
(* under its label, and nothing looks at the label first: it may be the    *)
(* name of the key's section, and one with a dot is a path, to a node      *)
(* inside the section that is named before the dot.  An ini file has no    *)
(* place for such a node: write_ini, which has truncated the file by then, *)
(* throws when it comes there, and what follows is not written.            *)
(*                                                                         *)
(* property_tree is external.  Labels and keys are texts that an ini file  *)
(* keeps: not empty, without line breaks, brackets or blanks around them.  *)
(***************************************************************************)
EXTENDS Functions, Naturals, Sequences

CONSTANTS Contracts,  \* labels of contracts
          FirstPart,  \* label -> its part before the first dot: itself without one
          Keys,       \* private keys
          None,       \* no key
          Files       \* ini files that the robot may be installed with

VARIABLES file,     \* the ini file: its sections in their order
          conf,     \* RobotConfig::configuration
          tpk,      \* RobotConfig::tpk, the key that the robot signs with
          offered,  \* contracts_by_name, by label
          kept      \* history: the sections that the robot has to keep

config == <<file, conf, tpk, offered, kept>>

KeySection == "tezos"
Names == Range(FirstPart) \cup {KeySection}

\* A section holds a key, a contract, or what is left of one; it is deep when it
\* has a node that an ini file has no place for, and then holds what stands before.
KeyTexts == Keys \cup {"short"}
Contents == KeyTexts \cup {"contract", "part", "nothing"}
Section(name, content) == [name |-> name, holds |-> content, deep |-> FALSE]
IsTree(t) == /\ t \in Seq([name : Names, holds : Contents, deep : BOOLEAN])
             /\ \A i, j \in DOMAIN t : t[i].name = t[j].name => i = j
Writable(t) == \A i \in DOMAIN t : ~t[i].deep

ASSUME ConfigAssumption ==
  /\ FirstPart \in [Contracts -> Range(FirstPart)]
  /\ Keys \cap {"short", "contract", "part", "nothing"} = {}
  /\ \A f \in Files : /\ IsTree(f) /\ Writable(f)
                      /\ \A i \in DOMAIN f :
                           IF f[i].name = KeySection THEN f[i].holds \in Keys
                           ELSE f[i].holds = "contract"
                      /\ \E i \in DOMAIN f : f[i].name = KeySection

-----------------------------------------------------------------------------
(* The tree.                                                               *)

\* put_child of one section: in the place of the one with its name, or behind all.
Put(t, s) == IF \E i \in DOMAIN t : t[i].name = s.name
             THEN [i \in DOMAIN t |-> IF t[i].name = s.name THEN s ELSE t[i]]
             ELSE Append(t, s)

\* A path leads to a new node behind the fields of its section, or replaces one.
Held(t, name) == {"nothing"} \cup {t[i].holds : i \in {j \in DOMAIN t : t[j].name = name}}
Left(t, name) == Held(t, name) \cup (IF "contract" \in Held(t, name) THEN {"part"} ELSE {})
WithContract(t, l) ==
  IF FirstPart[l] = l THEN {Put(t, Section(l, "contract"))}
  ELSE {Put(t, [name |-> FirstPart[l], holds |-> h, deep |-> TRUE]) : h \in Left(t, FirstPart[l])}
WithKey(t, key) == Put(t, Section(KeySection, key))

\* What write_ini has put into the file when it returns, or when it throws; a last
\* section without a field is dropped when the file is read.
Written(t) ==
  IF Writable(t) THEN t
  ELSE LET d == CHOOSE i \in DOMAIN t : t[i].deep /\ \A j \in 1..i - 1 : ~t[j].deep
       IN IF t[d].holds = "nothing" THEN SubSeq(t, 1, d - 1)
          ELSE Append(SubSeq(t, 1, d - 1), Section(t[d].name, t[d].holds))

\* What it holds when the process ends in the writing of w.
CutOff(content) == IF content \in KeyTexts THEN "short" ELSE "part"
Cuts(w) == {SubSeq(w, 1, n) : n \in 0..Len(w)}
           \cup {Append(SubSeq(w, 1, n - 1), Section(w[n].name, CutOff(w[n].holds))) :
                   n \in 1..Len(w)}

-----------------------------------------------------------------------------
(* Loading and saving.                                                     *)

KeysIn(t) == {t[i].holds : i \in {j \in DOMAIN t : t[j].name = KeySection}} \cap KeyTexts
Listed(t) == {t[i].name : i \in DOMAIN t} \ {KeySection}

\* loadFromIni.  The tree is that of the file even when it has no key, and
\* loadSettingsFromConfig throws.  Labels that are offered once stay so.
Loads == KeysIn(file) # {}
LoadFromIni ==
  /\ conf' = file
  /\ IF Loads THEN tpk' \in KeysIn(file) /\ offered' = offered \cup Listed(file)
             ELSE UNCHANGED <<tpk, offered>>
  /\ UNCHANGED <<file, kept>>

\* A new process; without a key in the file Controller::init throws, and there is none.
LoadFirst ==
  /\ conf' = file
  /\ IF Loads THEN tpk' \in KeysIn(file) /\ offered' = Listed(file)
             ELSE tpk' = None /\ offered' = {}
  /\ UNCHANGED <<file, kept>>

\* The process ends; nothing is in memory then.
Gone == conf' = << >> /\ tpk' = None /\ offered' = {}

\* The robot has to keep what it has said it stored, until something is stored under
\* its name, a label is a path into its section or into one before it, or the process
\* ends in a write.  What takes the place of a section that is kept is kept as well,
\* although an exception may be all that is said of it.
Keep(s, saved) ==
  {x \in kept : x.name # s.name}
  \cup {x \in {s} : saved \/ \E y \in kept : y.name = s.name}
KeepBefore(name) ==
  {x \in kept : \E i \in DOMAIN conf : /\ conf[i].name = x.name
                                       /\ \A j \in 1..i : conf[j].name # name}

\* updateIni changes the tree in memory and writes all of it.  It throws when the
\* tree is not Writable; a new contract is not offered yet.
Save_Early(t) == conf' = t /\ file' = Written(conf) /\ UNCHANGED offered  \* mutant
Save(t) == conf' = t /\ file' = Written(t) /\ UNCHANGED offered

UpdateContract(l) ==
  /\ \E t \in WithContract(conf, l) : Save(t)
  /\ kept' = IF FirstPart[l] = l THEN Keep(Section(l, "contract"), Writable(conf'))
             ELSE KeepBefore(FirstPart[l])
  /\ UNCHANGED tpk
UpdateKey(key) ==
  /\ tpk' = key
  /\ Save(WithKey(conf, key))
  /\ kept' = Keep(Section(KeySection, key), Writable(conf'))

\* The process ends while it writes one of these trees.
EndInWrite(trees) ==
  /\ \E t \in trees : file' \in Cuts(Written(t))
  /\ kept' = {}
  /\ Gone

-----------------------------------------------------------------------------
(* Properties.                                                             *)

ConfigTypeOK ==
  /\ IsTree(file) /\ Writable(file) /\ IsTree(conf)
  /\ tpk \in KeyTexts \cup {None} /\ offered \subseteq Names \ {KeySection}

\* Key and contracts that the robot has stored are in the file, and the key is the
\* one it signs with while it runs: whichever labels were put into the same tree,
\* however many writes have thrown after they truncated the file, and through every
\* crash outside of a write.
ConfigDurable ==
  /\ kept \subseteq Range(file)
  /\ \A s \in kept : s.holds \in Keys => tpk \in {s.holds, None}
=============================================================================
