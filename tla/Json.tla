-------------------------------- MODULE Json --------------------------------
(***************************************************************************)
(* Json::Load and Json::Print.                                             *)
(*                                                                         *)
(* The loader is more lenient than JSON: text after the first node is      *)
(* ignored, commas may be left out or doubled in a dictionary, and left    *)
(* out or put in front of the first element in an array.  A number is kept *)
(* as it is written; the rounding of floats, which are printed with six    *)
(* digits, is left out, and PrintNode is not applied to them.              *)
(***************************************************************************)
EXTENDS JsonNode, SequencesExt

Blanks == {" ", "\n", "\r", "\t"}
Escapes == [n |-> "\n", t |-> "\t", r |-> "\r"] @@ [c \in {"\"", "\\"} |-> c]

\* A ParsingError; otherwise a function of the text and a position returns the
\* node it has read and the position behind it.
Refused == [at |-> 0]
Loaded(node, p) == [node |-> node, at |-> p]

At(t, p) == IF p \in DOMAIN t THEN t[p] ELSE "end"
RECURSIVE Behind(_, _, _)
Behind(t, p, S) == IF At(t, p) \in S THEN Behind(t, p + 1, S) ELSE p
Skip(t, p) == Behind(t, p, Blanks)

RECURSIVE LoadString(_, _, _)
LoadString(t, p, s) ==
  LET c == At(t, p)  escaped == At(t, p + 1)
  IN CASE c = "\"" -> Loaded(Str(s), p + 1)
       [] c = "\\" /\ escaped \in DOMAIN Escapes ->
            LoadString(t, p + 2, Append(s, Escapes[escaped]))
       [] c \notin {"\"", "\\", "\n", "\r", "end"} -> LoadString(t, p + 1, Append(s, c))
       [] OTHER -> Refused

\* A run of letters is one word; any other word is refused.
Literals == ("true" :> Bool(TRUE)) @@ ("false" :> Bool(FALSE)) @@ ("null" :> Null)
LoadLiteral(t, p) == Loaded(Literals[t[p]], p + 1)

\* After a zero no digit is read; a point and an exponent want digits.
LoadNumber(t, p) ==
  LET sign == IF At(t, p) = "-" THEN p + 1 ELSE p
      whole == IF At(t, sign) = "0" THEN sign + 1 ELSE Behind(t, sign, DigitSet)
      frac == IF At(t, whole) = "." THEN Behind(t, whole + 1, DigitSet) ELSE whole
      plus == IF At(t, frac + 1) \in {"+", "-"} THEN frac + 2 ELSE frac + 1
      exp == IF At(t, frac) \in {"e", "E"} THEN Behind(t, plus, DigitSet) ELSE frac
      number == SubSeq(t, p, exp - 1)
  IN IF whole = sign \/ frac = whole + 1 \/ (exp # frac /\ exp = plus)
     THEN Refused
     ELSE Loaded(IF exp = whole THEN Integer(number) ELSE Float(number), exp)

RECURSIVE LoadNode(_, _), LoadArray(_, _, _), LoadDict(_, _, _)

LoadArray(t, p, nodes) ==
  LET c == Skip(t, p)
      element == LoadNode(t, IF At(t, c) = "," THEN c + 1 ELSE c)
  IN CASE At(t, c) = "]" -> Loaded(Array(nodes), c + 1)
       [] At(t, c) = "end" \/ element = Refused -> Refused
       [] OTHER -> LoadArray(t, element.at, Append(nodes, element.node))

\* A key twice is refused.
LoadDict(t, p, f) ==
  LET c == Skip(t, p)
      key == LoadString(t, c + 1, << >>)
      colon == Skip(t, key.at)
      entry == LoadNode(t, colon + 1)
  IN CASE At(t, c) = "}" -> Loaded(Dict(f), c + 1)
       [] At(t, c) = "," -> LoadDict(t, c + 1, f)
       [] At(t, c) # "\"" -> Refused
       [] key = Refused -> Refused
       [] At(t, colon) # ":" \/ key.node[2] \in DOMAIN f -> Refused
       [] entry = Refused -> Refused
       [] OTHER -> LoadDict(t, entry.at, f @@ (key.node[2] :> entry.node))

LoadNode(t, p) ==
  LET c == Skip(t, p)
  IN CASE At(t, c) = "[" -> LoadArray(t, c + 1, << >>)
       [] At(t, c) = "{" -> LoadDict(t, c + 1, << >>)
       [] At(t, c) = "\"" -> LoadString(t, c + 1, << >>)
       [] At(t, c) \in DOMAIN Literals -> LoadLiteral(t, c)
       [] OTHER -> LoadNumber(t, c)

Load(t) == LoadNode(t, 1)

-----------------------------------------------------------------------------
(* Printing, with its line ends and without its indentation.               *)

PrintString(s) ==
  LET char(c) == CASE c = "\r" -> <<"\\", "r">> [] c = "\n" -> <<"\\", "n">>
                   [] c \in {"\"", "\\"} -> <<"\\", c>> [] OTHER -> <<c>>
  IN <<"\"">> \o FlattenSeq([i \in DOMAIN s |-> char(s[i])]) \o <<"\"">>

Join(texts) == IF texts = << >> THEN << >>
               ELSE FoldLeft(LAMBDA t, u : t \o <<",", "\n">> \o u, Head(texts), Tail(texts))

RECURSIVE PrintNode(_)
PrintNode(node) ==
  CASE Holds(node, "null") -> <<"null">>
    [] Holds(node, "bool") -> <<IF node[2] THEN "true" ELSE "false">>
    [] Holds(node, "int") -> node[2]
    [] Holds(node, "string") -> PrintString(node[2])
    [] Holds(node, "array") ->
         <<"[", "\n">> \o Join([i \in DOMAIN node[2] |-> PrintNode(node[2][i])]) \o <<"\n", "]">>
    [] Holds(node, "dict") ->
         LET keys == SetToSeq(DOMAIN node[2])  \* in the order of the map
         IN <<"{", "\n">>
            \o Join([i \in DOMAIN keys |->
                       PrintString(keys[i]) \o <<":", " ">> \o PrintNode(node[2][keys[i]])])
            \o <<"\n", "}">>
=============================================================================
