----------------------------- MODULE HttpParser -----------------------------
(***************************************************************************)
(* The requests a client sends and the two parsers of HttpData.cpp, as     *)
(* operators on the text in inBuffer_.                                     *)
(*                                                                         *)
(* Text is a sequence of tokens: what the parsers never look into is one   *)
(* token, all they compare with or count is.  The request line is its      *)
(* first character and the rest of the line, a header's name is one token, *)
(* and so is its value.  The colon and the space are named in words.  A    *)
(* token knows the request it belongs to.                                  *)
(*                                                                         *)
(* Positions count from 1; 0 is the position -1 of the code, one that has  *)
(* been forgotten.                                                         *)
(***************************************************************************)
EXTENDS Naturals, Sequences, SequencesExt

\* What is asked for: the built-in page /hello, a file, the HEAD of a file, a
\* file that does not exist, /hello without any header; or a POST, with a
\* Content-length or without.
AllKinds == {"hello", "file", "head", "missing", "bare", "post", "lengthless"}

Posts == {"post", "lengthless"}

Names(kind) == CASE kind = "hello" -> <<"host", "agent">>
                 [] kind = "bare" -> <<>>
                 [] kind = "post" -> <<"Content-length">>
                 [] OTHER -> <<"host">>

HeaderNames == {"host", "agent", "Content-length"}

\* The value of Content-length.
ContentLength == 2

Header(name) == <<name, "colon", "space", "value", "CR", "LF">>

Request == [kind \in AllKinds |->
  <<"G", "line", "CR", "LF">>
    \o FlattenSeq([n \in DOMAIN Names(kind) |-> Header(Names(kind)[n])])
    \o <<"CR", "LF">>
    \o (IF kind = "post" THEN [n \in 1 .. ContentLength |-> "body"] ELSE <<>>)]

Text(id, kind) == [n \in DOMAIN Request[kind] |->
                     [c |-> Request[kind][n], id |-> id]]

LineEnds == {"CR", "LF"}

Characters == {"G", "line", "colon", "space", "value", "body"}
                \cup HeaderNames \cup LineEnds

-----------------------------------------------------------------------------
(* parseURI.                                                               *)

\* A method is found anywhere in the line; it needs its first character.
MethodAt(line, n) ==
  n < Len(line) /\ line[n].c = "G" /\ line[n + 1].c = "line"

\* Without a CR the whole buffer is the line, since size_t pos < 0 is never
\* true, and all of it stays: str.size() > npos + 1 is size() > 0.
parseURI(str) ==
  LET pos == SelectInSeq(str, LAMBDA t : t.c = "CR")
      line == IF pos = 0 THEN str ELSE SubSeq(str, 1, pos - 1)
      at == {n \in DOMAIN line : MethodAt(line, n)}
  IN [success |-> at # {},
      id |-> IF at = {} THEN 0 ELSE line[CHOOSE n \in at : TRUE].id,
      str |-> SubSeq(str, pos + 1, Len(str))]

-----------------------------------------------------------------------------
(* parseHeaders.                                                           *)

ParseStates == {"H_START", "H_KEY", "H_COLON", "H_SPACES_AFTER_COLON",
                "H_VALUE", "H_CR", "H_LF", "H_END_CR", "H_END_LF"}

\* What the loop of parseHeaders works on; line_begin is now_read_line_begin.
Parsing == [str : Seq([c : Characters, id : Nat]), hState_ : ParseStates,
            headers_ : SUBSET [c : Characters, id : Nat],
            key_start : Nat, key_end : Nat, line_begin : Nat, read : Nat,
            notFinish : BOOLEAN, error : BOOLEAN]

Begin(str, hState_, headers_) ==
  [str |-> str, hState_ |-> hState_, headers_ |-> headers_,
   key_start |-> 0, key_end |-> 0, line_begin |-> 1, read |-> 0,
   notFinish |-> TRUE, error |-> FALSE]

\* The name that was read, when it is one analysisRequest could look for: not
\* one that starts before the buffer or with a line end.
NameRead(s) ==
  IF s.key_start > 0 /\ s.key_end = s.key_start + 1
     /\ s.str[s.key_start].c \in HeaderNames
  THEN {s.str[s.key_start]} ELSE {}

Fail(s) == [s EXCEPT !.error = TRUE]

\* What the loop does with the token at i.
Step(s, i) ==
  LET c == s.str[i].c
      to(state) == [s EXCEPT !.hState_ = state]
  IN
  CASE s.hState_ = "H_START" ->
         IF c \in LineEnds THEN s
         ELSE [to("H_KEY") EXCEPT !.key_start = i, !.line_begin = i]
    [] s.hState_ = "H_KEY" ->
         IF c = "colon" /\ i > s.key_start
         THEN [to("H_COLON") EXCEPT !.key_end = i]
         ELSE IF c \in LineEnds \cup {"colon"} THEN Fail(s) ELSE s
    [] s.hState_ = "H_COLON" ->
         IF c = "space" THEN to("H_SPACES_AFTER_COLON") ELSE Fail(s)
    [] s.hState_ = "H_SPACES_AFTER_COLON" -> to("H_VALUE")
    [] s.hState_ = "H_VALUE" -> IF c = "CR" THEN to("H_CR") ELSE s
    [] s.hState_ = "H_CR" ->
         IF c = "LF"
         THEN [to("H_LF") EXCEPT !.headers_ = @ \cup NameRead(s),
                                 !.line_begin = i]
         ELSE Fail(s)
    [] s.hState_ = "H_LF" ->
         IF c = "CR" THEN to("H_END_CR")
         ELSE [to("H_KEY") EXCEPT !.key_start = i]
    [] s.hState_ = "H_END_CR" ->
         IF c = "LF" THEN to("H_END_LF") ELSE Fail(s)
    [] s.hState_ = "H_END_LF" -> [s EXCEPT !.notFinish = FALSE]

\* Round i of the loop: it changes nothing once the loop has ended.
Round(i) ==
  [s \in Parsing |->
     IF s.notFinish /\ ~s.error THEN [Step(s, i) EXCEPT !.read = i] ELSE s]

\* The loop: it ends with the text, or at the token after the blank line,
\* which it has consumed.
Scan(str, hState_, headers_) ==
  LET scan[i \in 0 .. Len(str)] ==
        IF i = 0 THEN Begin(str, hState_, headers_) ELSE Round(i)[scan[i - 1]]
  IN scan[Len(str)]

\* An incomplete head is kept from the line end before its last line on; what
\* hState_ says of that line is not taken back, and the positions are lost.
parseHeaders(str, hState_, headers_) ==
  LET s == Scan(str, hState_, headers_)
      rest == IF s.hState_ = "H_END_LF" THEN s.read + 1 ELSE s.line_begin
  IN [flag |-> IF s.error THEN "error"
               ELSE IF s.hState_ = "H_END_LF" THEN "success" ELSE "again",
      hState_ |-> s.hState_, headers_ |-> s.headers_,
      str |-> IF s.error THEN str ELSE SubSeq(str, rest, Len(str))]
=============================================================================
