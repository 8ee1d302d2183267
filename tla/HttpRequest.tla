----------------------------- MODULE HttpRequest -----------------------------
(***************************************************************************)
(* curl_client: one request of a data processor, from the path to the body *)
(* of its response.  The Request and its CurlHandler live as long as the   *)
(* data processor; what an earlier request has left in them is there when  *)
(* the next one begins.                                                    *)
(*                                                                         *)
(* The program only sends GET, with the default headers and without a      *)
(* query.  libcurl is external: a transfer calls header_callback for each  *)
(* header line and curl_write_func for each piece of the body, and ends    *)
(* with a code, maybe after a part of the body only.  A redirection is     *)
(* followed: its header lines come before those of the reply.  HTTP/2      *)
(* names headers in lower case, and such a line says nothing here.         *)
(***************************************************************************)
EXTENDS JsonNode, SequencesExt

CONSTANTS
  Parse(_),     \* Json::Load: text -> Doc of its node, or Thrown
  Serialise(_)  \* external: document -> the text that a server sends for it

VARIABLES
  curl,   \* the CurlHandler: method, what libcurl sends, code, type and buffers
  reply,  \* what the last Implement returned as body, or that it threw
  asked,  \* history: the URL and the verb that the last request sent
  sent    \* history: the document of the last reply, and whether all of it came

http == <<curl, reply, asked, sent>>

Lines == {"Content-Type: json", "Content-Type: text", "Content-Type: pdf", "Date"}
Codes == {"OK", "known", "unknown"}  \* unknown: not in the table curl_codes

\* libcurl sends GET unless it is told otherwise; the handler's own method has
\* no value yet.
HttpInit ==
  /\ curl \in [method : {"Get", "Post"}, verb : {"Get"}, code : {"OK"}, body : {<< >>},
               headers : {<< >>}, type : {"None"}]
  /\ reply = None /\ asked = << >> /\ sent = << >>

-----------------------------------------------------------------------------
(* The path.                                                               *)

\* splitIntoWords keeps empty words: there is one in "https://".
Words(line, delim) ==
  LET words[n \in 0..Len(line)] ==  \* of the first n symbols
        IF n = 0 THEN << << >> >>
        ELSE LET before == words[n - 1]
             IN IF line[n] = delim THEN Append(before, << >>)
                ELSE [before EXCEPT ![Len(before)] = Append(@, line[n])]
  IN IF line = << >> THEN << >> ELSE words[Len(line)]

\* PathData, which pathSetNew makes anew for each request.
Elements_NotEmpty(path) == SelectSeq(Words(path, "/"), LAMBDA w : w # << >>)  \* mutant
Elements(path) == Words(path, "/")
Stringify(elems) ==
  LET written[n \in 0..Len(elems)] ==
        IF n = 0 THEN << >> ELSE written[n - 1] \o Append(elems[n], "/")
  IN Front(written[Len(elems)])

-----------------------------------------------------------------------------
(* The handler.                                                            *)

SetMethod(c) == IF c.method = "Get" THEN c ELSE [c EXCEPT !.method = "Get", !.verb = "Get"]

ClearBuffers_Not(c) == c  \* mutant
ClearBuffers(c) == [c EXCEPT !.body = << >>, !.headers = << >>, !.type = "None"]

\* The callbacks append.
Receive(c, x) == [c EXCEPT !.headers = @ \o x.headers, !.body = @ \o x.body, !.code = x.code]

\* The first line with a content type decides; without one it is text.
IsJson(headers) == \E k \in DOMAIN headers : /\ headers[k] = "Content-Type: json"
                                             /\ \A j \in 1..k - 1 : headers[j] = "Date"
SetResponseType(c) ==
  IF c.code # "OK" THEN c
  ELSE [c EXCEPT !.type = IF IsJson(c.headers) THEN "Json" ELSE "Text"]

PerformRequest(c, x) == SetResponseType(Receive(ClearBuffers(c), x))

\* set_response_body: the body of a JSON response is loaded at once.
Body(c) == CASE c.type = "Text" -> Text(c.body)
             [] c.type = "Json" -> Parse(c.body)
             [] OTHER -> Thrown

\* Mutant: the caller's response is not assigned when a transfer fails.
Implement_Keeps(path, x) ==
  LET c == PerformRequest(SetMethod(curl), x)
  IN /\ asked' = <<Stringify(Elements(path)), c.verb>>
     /\ \/ c.code = "OK" /\ curl' = [c EXCEPT !.headers = << >>, !.body = << >>]
                         /\ reply' = Body(c)
        \/ c.code # "OK" /\ curl' = c /\ reply' = IF c.code = "known" THEN reply ELSE Thrown

\* Request::Implement.  Headers and body are moved out of the handler; after a
\* failure they stay there.
Implement(path, x) ==
  LET c == PerformRequest(SetMethod(curl), x)
  IN /\ asked' = <<Stringify(Elements(path)), c.verb>>
     /\ \/ c.code = "OK" /\ curl' = [c EXCEPT !.headers = << >>, !.body = << >>]
                         /\ reply' = Body(c)
        \/ c.code # "OK" /\ curl' = c /\ reply' = IF c.code = "known" THEN None ELSE Thrown

\* The document that a caller makes of a response: text is loaded now.
DocumentOf(r) == IF r[1] = "text" THEN Parse(r[2]) ELSE r

-----------------------------------------------------------------------------
(* The network.                                                            *)

\* A reply comes as a whole, is broken off, noticed or not, or is no JSON.
Page == <<"<", "html", ">">>
Transfer(code, headers, text, n) ==
  [code |-> code, headers |-> headers, body |-> SubSeq(text, 1, n)]
Headers == {<<h>> : h \in Lines} \cup {<<"Content-Type: text", "Date", "Content-Type: json">>}
BrokenOff(text, n) ==
  {Transfer("OK", <<"Content-Type: json">>, text, n),
   Transfer("OK", <<"Content-Type: text">>, text, n),
   Transfer("known", <<"Content-Type: json">>, text, n)}
Transfers(text, cuts) ==
  {Transfer("OK", hs, text, Len(text)) : hs \in Headers}
  \cup (UNION {BrokenOff(text, n) : n \in cuts})
  \cup {Transfer("known", <<"Content-Type: pdf">>, text, Len(text)),
        Transfer("unknown", << >>, text, 0),
        Transfer("OK", <<"Content-Type: text">>, Page, 3)}

\* A request for path to which some server answers with doc.
Request(path, doc, cuts) ==
  LET text == Serialise(doc)
  IN \E x \in Transfers(text, cuts \cap 0..Len(text) - 1) :
       Implement(path, x) /\ sent' = <<doc, x.code = "OK" /\ x.body = text>>

\* What these documents need of the loader: it reads each from its text, and refuses
\* every text that lacks an end of it.
Codec(documents) ==
  /\ \A doc \in documents :
       LET text == Serialise(doc)
       IN /\ text \in Seq(Range(text)) /\ Parse(text) = Doc(doc)
          /\ \A n \in 0..Len(text) - 1 : Parse(SubSeq(text, 1, n)) = Thrown
  /\ Parse(Page) = Thrown

-----------------------------------------------------------------------------

\* Whatever an earlier request has left in the buffers of the handler and whichever
\* type the headers claim: a reply that has come as a whole is read as the document
\* that was sent, and one that was broken off is never taken for a document.
RepliesWhole ==
  sent = << >> \/ IF sent[2] THEN DocumentOf(reply) = Doc(sent[1])
                            ELSE DocumentOf(reply) \in {None, Thrown}
=============================================================================
