----------------------------- MODULE MCDialogue -----------------------------
(* Constants of Dialogue for TLC: a contract, one with the name of the key's  *)
(* section, and a label that is a path into the first one's section.          *)
EXTENDS Dialogue, TLC

MCContracts == {"c1", "tezos", "c1.x"}
MCFirstPart == [l \in MCContracts |-> IF l = "c1.x" THEN "c1" ELSE l]
MCFiles == {<<Section("tezos", "k1")>>, <<Section("tezos", "k1"), Section("c1", "contract")>>}

\* Chats are interchangeable.
Symmetry == Permutations(Users)
=============================================================================
