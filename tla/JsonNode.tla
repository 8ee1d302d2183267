------------------------------ MODULE JsonNode ------------------------------
(***************************************************************************)
(* Json::Node and what a caller has in hand after a request.  A node is a  *)
(* tuple: what the variant holds, and its value.  A text is a sequence of  *)
(* symbols: a punctuation character, a blank, a digit, or a word that      *)
(* stands for a run of other characters.                                   *)
(***************************************************************************)
EXTENDS Naturals, Sequences, Functions

Null == <<"null">>
Bool(b) == <<"bool", b>>
Integer(t) == <<"int", t>>
Float(t) == <<"float", t>>
Str(t) == <<"string", t>>
Array(nodes) == <<"array", nodes>>
Dict(f) == <<"dict", f>>
Holds(node, kind) == node[1] = kind

\* m.find(key) in a dictionary, with the kind of node that is wanted there.
Has(node, key, kind) == /\ Holds(node, "dict") /\ key \in DOMAIN node[2]
                        /\ Holds(node[2][key], kind)

DigitSet == {"0", "1", "2", "3", "4", "5", "6", "7", "8", "9"}

\* The body of a response: nothing, a text, a document; or an exception, which
\* the callers let through.
None == <<"none">>       \* std::monostate
Thrown == <<"thrown">>
Text(t) == <<"text", t>>
Doc(node) == <<"doc", node>>
=============================================================================
