-------------------------- MODULE HttpSessionProofs --------------------------
(***************************************************************************)
(* Theorems about HttpSession: its types, and with them that the parsers   *)
(* yield text of the client's whatever it has sent; that nothing follows   *)
(* an error; that the loop leaves no connection to an edge that epoll has  *)
(* reported already; that a request is answered from its own headers; that *)
(* the answers of clients which do not both pipeline and split leave in    *)
(* the order of their requests; and that clients which do neither are not  *)
(* refused what there is.                                                  *)
(***************************************************************************)
EXTENDS HttpSession, Recursion, SequenceTheorems, FiniteSetTheorems, TLAPS

-----------------------------------------------------------------------------
(* What the client sends.                                                  *)

\* Sequences put one behind the other are a sequence of their members.
LEMMA FlattenType ==
  ASSUME NEW T, NEW s \in Seq(Seq(T))
  PROVE  FlattenSeq(s) \in Seq(T)
<1> DEFINE Flat(f) == f = [i \in 1 .. Len(s) |-> IF i = 1 THEN s[1]
                                                 ELSE f[i - 1] \o s[i]]
           g == [p \in Seq(T) \X Nat |-> p[1] \o s[p[2]]]
<1>1. CASE Len(s) = 0
  BY <1>1 DEF FlattenSeq
<1>2. CASE Len(s) # 0
  <2> DEFINE n == Len(s)
  <2>1. n \in Nat \ {0} /\ \A i \in 1 .. n : s[i] \in Seq(T)
    BY <1>2
  <2> HIDE DEF n
  <2>2. \A x \in Seq(T) : \A i \in 1 .. n : g[x, i] = x \o s[i]
    <3>1. \A x \in Seq(T) : \A i \in 1 .. n : <<x, i>> \in Seq(T) \X Nat
      BY <2>1
    <3>2. QED
      BY <3>1
  <2>3. \A x \in Seq(T) : \A i \in 1 .. n : x \o s[i] \in Seq(T)
    BY <2>1
  <2>4. <<>> \in Seq(T) /\ \A i \in 1 .. n : <<>> \o s[i] = s[i]
    BY <2>1
  <2>5. \A i \in 1 .. n : i # 0 /\ i \in 0 .. n /\ i - 1 \in 0 .. n
    BY <2>1
  <2>6. 0 \in 0 .. n /\ n \in 0 .. n /\ n \in 1 .. n /\ 1 - 1 = 0
    BY <2>1
  <2>7. \A i \in 1 .. n : i # 1 => i - 1 \in 1 .. n
    BY <2>1
  <2> DEFINE none == <<>>
  <2> HIDE DEF g, none
  <2>8. PICK f : Steps(f, none, g, n)
    BY <2>1, StepsExist
  <2>9. f[0] = none
    BY <2>6, <2>8 DEF Steps
  <2>10. \A i \in 1 .. n : f[i] = g[f[i - 1], i]
    BY <2>5, <2>8 DEF Steps
  <2>11. \A i \in 0 .. n : f[i] \in Seq(T)
    <3>1. f[0] \in Seq(T)
      BY <2>4, <2>9 DEF none
    <3>2. \A i \in 1 .. n : f[i - 1] \in Seq(T) => f[i] \in Seq(T)
      BY <2>2, <2>3, <2>10, Zenon
    <3>3. QED
      BY <2>1, <3>1, <3>2, AllAlong
  <2>12. \A i \in 1 .. n : f[i] = IF i = 1 THEN s[1] ELSE f[i - 1] \o s[i]
    <3>1. SUFFICES ASSUME NEW i \in 1 .. n
                   PROVE  f[i] = IF i = 1 THEN s[1] ELSE f[i - 1] \o s[i]
      OBVIOUS
    <3>2. f[i - 1] \in Seq(T)
      BY <2>5, <2>11
    <3>3. f[i] = f[i - 1] \o s[i]
      BY <2>2, <2>10, <3>2, Zenon
    <3>4. CASE i = 1
      <4>1. f[i] = none \o s[i]
        BY <2>6, <2>9, <3>3, <3>4
      <4>2. QED
        BY <2>4, <3>4, <4>1 DEF none
    <3>5. QED
      BY <3>3, <3>4
  <2> DEFINE h == [i \in 1 .. n |-> f[i]]
             k == CHOOSE f_1 : Flat(f_1)
  <2>13. Flat(h)
    <3>1. \A i \in 1 .. n : h[i] = IF i = 1 THEN s[1] ELSE h[i - 1] \o s[i]
      BY <2>7, <2>12
    <3>2. h = [i \in 1 .. n |-> h[i]]
      OBVIOUS
    <3> HIDE DEF h
    <3>3. QED
      BY <3>1, <3>2 DEF n
  <2> HIDE DEF h
  <2>14. Flat(k)
    BY <2>13
  <2>15. FlattenSeq(s) = k[n]
    BY <1>2 DEF FlattenSeq, n
  <2> HIDE DEF k
  <2>16. \A i \in 1 .. n : k[i] = IF i = 1 THEN s[1] ELSE k[i - 1] \o s[i]
    BY <2>14 DEF n
  <2> DEFINE r == [i \in 0 .. n |-> IF i = 0 THEN none ELSE k[i]]
  <2>17. r[0] = none /\ \A i \in 1 .. n : r[i] = k[i]
    BY <2>5, <2>6
  <2> HIDE DEF r
  <2>18. \A i \in 1 .. n : r[i - 1] \in Seq(T) => r[i] \in Seq(T)
    <3>1. SUFFICES ASSUME NEW i \in 1 .. n, r[i - 1] \in Seq(T)
                   PROVE  k[i] \in Seq(T)
      BY <2>17
    <3>2. CASE i = 1
      BY <2>1, <2>16, <3>2
    <3>3. CASE i # 1
      <4>1. r[i - 1] = k[i - 1]
        BY <2>7, <2>17, <3>3
      <4>2. k[i] = k[i - 1] \o s[i]
        BY <2>16, <3>3
      <4>3. QED
        BY <2>3, <3>1, <4>1, <4>2
    <3>4. QED
      BY <3>2, <3>3
  <2>19. r[0] \in Seq(T)
    BY <2>4, <2>17 DEF none
  <2>20. \A i \in 0 .. n : r[i] \in Seq(T)
    BY <2>1, <2>18, <2>19, AllAlong
  <2>21. QED
    BY <2>6, <2>15, <2>17, <2>20
<1>3. QED
  BY <1>1, <1>2

\* A request is text.
LEMMA RequestType ==
  ASSUME NEW k \in AllKinds
  PROVE  Request[k] \in Seq(Characters) /\ Request[k] # <<>>
<1> DEFINE heads == [n \in DOMAIN Names(k) |-> Header(Names(k)[n])]
           first == <<"G", "line", "CR", "LF">>
           last == IF k = "post" THEN [n \in 1 .. ContentLength |-> "body"]
                   ELSE <<>>
<1>1. Names(k) \in Seq(HeaderNames)
  BY DEF Names, HeaderNames, AllKinds
<1>2. \A name \in HeaderNames : Header(name) \in Seq(Characters)
  <2>1. {"colon", "space", "value", "CR", "LF"} \cup HeaderNames
          \subseteq Characters
    BY DEF Characters, LineEnds
  <2>2. SUFFICES ASSUME NEW name \in HeaderNames
               PROVE  Header(name) \in Seq(Characters)
    OBVIOUS
  <2>3. /\ name \in Characters /\ "colon" \in Characters /\ "space" \in Characters
        /\ "value" \in Characters /\ "CR" \in Characters
        /\ "LF" \in Characters
    BY <2>1
  <2>4. \A a, b, c, d, e, f \in Characters :
          <<a, b, c, d, e, f>> \in Seq(Characters)
    OBVIOUS
  <2>5. QED
    BY <2>3, <2>4, Zenon DEF Header
<1>3. heads \in Seq(Seq(Characters))
  BY <1>1, <1>2
<1>4. first \in Seq(Characters) /\ first # <<>> /\ first[1] = "G"
  BY DEF Characters, LineEnds
<1>5. last \in Seq(Characters) /\ <<"CR", "LF">> \in Seq(Characters)
  <2>1. {"body", "CR", "LF"} \subseteq Characters
    BY DEF Characters, LineEnds
  <2>2. [n \in 1 .. ContentLength |-> "body"] \in Seq(Characters)
    BY <2>1 DEF ContentLength
  <2>3. <<>> \in Seq(Characters)
    OBVIOUS
  <2>4. QED
    BY <2>1, <2>2, <2>3
<1>6. FlattenSeq(heads) \in Seq(Characters)
  <2> HIDE DEF heads
  <2>1. QED
    BY <1>3, FlattenType
<1>7. Request[k] = first \o FlattenSeq(heads) \o <<"CR", "LF">> \o last
  BY DEF Request
<1> HIDE DEF heads, first, last
<1>8. QED
  BY <1>4, <1>5, <1>6, <1>7

\* So is what the client sends of it.
LEMMA TextType ==
  ASSUME NEW i \in 1 .. MaxRequests, NEW k \in AllKinds
  PROVE  Text(i, k) \in Seq(Token) /\ Text(i, k) # <<>>
<1>1. Request[k] \in Seq(Characters) /\ Request[k] # <<>>
  BY RequestType
<1>2. Text(i, k) = [n \in DOMAIN Request[k] |-> [c |-> Request[k][n], id |-> i]]
  BY DEF Text
<1> DEFINE q == Request[k]
<1> HIDE DEF q
<1>3. q \in Seq(Characters) /\ Len(q) # 0 /\ DOMAIN q = 1 .. Len(q)
  BY <1>1 DEF q
<1>4. \A n \in 1 .. Len(q) : [c |-> q[n], id |-> i] \in Token
  BY <1>3 DEF Token
<1>5. QED
  BY <1>2, <1>3, <1>4 DEF q

-----------------------------------------------------------------------------
(* The parsers.                                                            *)

\* A part of a sequence has its members.
LEMMA PartType ==
  ASSUME NEW T, NEW s \in Seq(T), NEW m \in Nat \ {0}
  PROVE  /\ SubSeq(s, m, Len(s)) \in Seq(T)
         /\ \A n \in 0 .. Len(s) : SubSeq(s, 1, n) \in Seq(T)
OBVIOUS

\* parseURI leaves text of the client's, and takes the request from it.
LEMMA UriType ==
  ASSUME NEW str \in Seq(Token)
  PROVE  /\ parseURI(str).str \in Seq(Token)
         /\ parseURI(str).success => parseURI(str).id \in 1 .. MaxRequests
<1> DEFINE I == {i \in 1 .. Len(str) : str[i].c = "CR"}
           pos == SelectInSeq(str, LAMBDA t : t.c = "CR")
           line == IF pos = 0 THEN str ELSE SubSeq(str, 1, pos - 1)
           at == {n \in DOMAIN line : MethodAt(line, n)}
<1>1. pos \in 0 .. Len(str)
  <2>1. pos = IF I # {} THEN Min(I) ELSE 0
    BY DEF SelectInSeq
  <2>2. ASSUME I # {}
        PROVE  Min(I) \in I
    <3>1. \E x \in I : \A y \in I : x <= y
      <4>1. I \in SUBSET Nat /\ I # {}
        BY <2>2
      <4> HIDE DEF I
      <4>2. QED
        BY <4>1, LeastNumber
    <3>2. QED
      BY <3>1 DEF Min
  <2>3. QED
    BY <2>1, <2>2
<1> HIDE DEF pos
<1>2. line \in Seq(Token)
  BY <1>1
<1>3. parseURI(str).str = SubSeq(str, pos + 1, Len(str))
  BY DEF parseURI, pos
<1>4. parseURI(str).success = (at # {})
  BY DEF parseURI, pos
<1>5. parseURI(str).id = IF at = {} THEN 0 ELSE line[CHOOSE n \in at : TRUE].id
  BY DEF parseURI, pos
<1> HIDE DEF line
<1>6. \A n \in at : line[n].id \in 1 .. MaxRequests
  <2>1. \A n \in at : line[n] \in Token
    BY <1>2
  <2>2. QED
    BY <2>1 DEF Token
<1> HIDE DEF at
<1>7. SubSeq(str, pos + 1, Len(str)) \in Seq(Token)
  BY <1>1
<1>8. at # {} => line[CHOOSE n \in at : TRUE].id \in 1 .. MaxRequests
  BY <1>6
<1>9. QED
  BY <1>3, <1>4, <1>5, <1>7, <1>8

\* What the loop of parseHeaders works on while the text is str.
Scanned(str) ==
  {s \in Parsing : /\ s.str = str /\ s.headers_ \subseteq Token
                   /\ s.key_end <= Len(str) /\ s.line_begin >= 1}

\* A round of the loop keeps to the text.
LEMMA StepType ==
  ASSUME NEW str \in Seq(Token), NEW i \in 1 .. Len(str), NEW s \in Scanned(str)
  PROVE  Step(s, i) \in Scanned(str)
<1> DEFINE c == s.str[i].c
           to(state) == [s EXCEPT !.hState_ = state]
<1>1. /\ s \in Parsing /\ s.str = str /\ s.headers_ \subseteq Token
      /\ s.key_end <= Len(str) /\ s.line_begin >= 1
  BY DEF Scanned
<1>2. i \in Nat /\ i >= 1 /\ i <= Len(str) /\ Len(str) \in Nat
  OBVIOUS
<1>3. \A q \in ParseStates : to(q) \in Scanned(str)
  BY <1>1 DEF Scanned, Parsing
<1>4. NameRead(s) \subseteq Token
  BY <1>1, <1>2 DEF NameRead, Parsing
<1>5. Token \subseteq [c : Characters, id : Nat]
  BY SessionAssumption DEF Token
<1>6. Fail(s) \in Scanned(str)
  BY <1>1 DEF Fail, Scanned, Parsing
<1>7. CASE s.hState_ = "H_START"
  <2>1. [to("H_KEY") EXCEPT !.key_start = i, !.line_begin = i] \in Scanned(str)
    BY <1>1, <1>2 DEF Scanned, Parsing, ParseStates
  <2>2. QED
    BY <1>7, <2>1 DEF Step
<1>8. CASE s.hState_ = "H_KEY"
  <2>1. [to("H_COLON") EXCEPT !.key_end = i] \in Scanned(str)
    BY <1>1, <1>2 DEF Scanned, Parsing, ParseStates
  <2>2. QED
    BY <1>6, <1>8, <2>1 DEF Step
<1>9. CASE s.hState_ = "H_COLON"
  BY <1>3, <1>6, <1>9 DEF Step, ParseStates
<1>10. CASE s.hState_ = "H_SPACES_AFTER_COLON"
  BY <1>3, <1>10 DEF Step, ParseStates
<1>11. CASE s.hState_ = "H_VALUE"
  BY <1>3, <1>11 DEF Step, ParseStates
<1>12. CASE s.hState_ = "H_CR"
  <2> DEFINE t == [to("H_LF") EXCEPT !.headers_ = @ \cup NameRead(s),
                                     !.line_begin = i]
  <2>1. s.headers_ \cup NameRead(s) \subseteq Token
    BY <1>1, <1>4
  <2>2. s.headers_ \cup NameRead(s) \in SUBSET [c : Characters, id : Nat]
    BY <1>5, <2>1
  <2>3. t \in Scanned(str)
    <3> DEFINE more == s.headers_ \cup NameRead(s)
    <3>1. t = [s EXCEPT !.hState_ = "H_LF", !.headers_ = more,
                        !.line_begin = i]
      BY <1>1 DEF Parsing
    <3> HIDE DEF more
    <3>2. QED
      BY <1>1, <1>2, <2>1, <2>2, <3>1 DEF Scanned, Parsing, ParseStates, more
  <2>4. QED
    BY <1>6, <1>12, <2>3 DEF Step
<1>13. CASE s.hState_ = "H_LF"
  <2>1. [to("H_KEY") EXCEPT !.key_start = i] \in Scanned(str)
    BY <1>1, <1>2 DEF Scanned, Parsing, ParseStates
  <2>2. QED
    BY <1>3, <1>13, <2>1 DEF Step, ParseStates
<1>14. CASE s.hState_ = "H_END_CR"
  BY <1>3, <1>6, <1>14 DEF Step, ParseStates
<1>15. CASE s.hState_ = "H_END_LF"
  <2>1. [s EXCEPT !.notFinish = FALSE] \in Scanned(str)
    BY <1>1 DEF Scanned, Parsing
  <2>2. QED
    BY <1>15, <2>1 DEF Step
<1>16. s.hState_ \in ParseStates
  BY <1>1 DEF Parsing
<1>17. QED
  BY <1>7, <1>8, <1>9, <1>10, <1>11, <1>12, <1>13, <1>14, <1>15, <1>16
     DEF ParseStates

\* The loop goes round once for each token, and keeps to the text.
LEMMA ScanSteps ==
  ASSUME NEW str \in Seq(Token), NEW hState \in ParseStates,
         NEW headers \in SUBSET Token
  PROVE  \E f : /\ f[0] = Begin(str, hState, headers)
                /\ \A i \in 1 .. Len(str) : f[i] = Round(i)[f[i - 1]]
                /\ \A i \in 0 .. Len(str) : f[i] \in Scanned(str)
                /\ Scan(str, hState, headers) = f[Len(str)]
<1> DEFINE n == Len(str)
           z == Begin(str, hState, headers)
           Scans(f) == f = [i \in 0 .. n |-> IF i = 0 THEN z
                                             ELSE Round(i)[f[i - 1]]]
           f == CHOOSE f_1 : Scans(f_1)
<1>1. Scan(str, hState, headers) = f[n]
  BY DEF Scan
<1>2. n \in Nat
  OBVIOUS
<1>3. z \in Scanned(str)
  <2> DEFINE Given == [c : Characters, id : Nat]
  <2>1. Token \subseteq Given
    BY SessionAssumption DEF Token
  <2> HIDE DEF Given
  <2>2. str \in Seq(Given)
    <3> DEFINE A == Token
    <3>1. str \in Seq(A) /\ A \subseteq Given
      BY <2>1
    <3> HIDE DEF A
    <3>2. QED
      BY <3>1
  <2>3. headers \in SUBSET Given
    BY <2>1
  <2>4. QED
    BY <2>2, <2>3 DEF Begin, Scanned, Parsing, ParseStates, Given
<1>4. ASSUME NEW s \in Scanned(str), NEW i \in 1 .. n
      PROVE  Round(i)[s] \in Scanned(str)
  <2>1. Step(s, i) \in Scanned(str)
    BY StepType
  <2> DEFINE t == Step(s, i)
  <2> HIDE DEF t
  <2>2. i \in Nat
    BY <1>2
  <2>3. [t EXCEPT !.read = i] \in Scanned(str)
    BY <2>1, <2>2 DEF Scanned, Parsing, t
  <2>4. QED
    BY <2>3 DEF Scanned, Round, t
<1>5. Scans(f)
  <2> DEFINE g == [p \in Scanned(str) \X (1 .. n) |-> Round(p[2])[p[1]]]
  <2>1. \A s \in Scanned(str) : \A i \in 1 .. n : g[s, i] = Round(i)[s]
    <3>1. \A s \in Scanned(str) : \A i \in 1 .. n :
            <<s, i>> \in Scanned(str) \X (1 .. n)
      OBVIOUS
    <3>2. QED
      BY <3>1
  <2> HIDE DEF g, n, z
  <2>2. PICK h : Steps(h, z, g, n)
    BY <1>2, StepsExist
  <2>3. \A i \in 1 .. n : i \in 0 .. n /\ i # 0 /\ i - 1 \in 0 .. n
    BY <1>2
  <2>4. 0 \in 0 .. n /\ \A i \in 0 .. n : i # 0 => i \in 1 .. n
    BY <1>2
  <2>5. h[0] = z
    BY <2>2, <2>4 DEF Steps
  <2>6. \A i \in 1 .. n : h[i] = g[h[i - 1], i]
    BY <2>2, <2>3 DEF Steps
  <2>7. \A i \in 1 .. n : h[i - 1] \in Scanned(str) => h[i] \in Scanned(str)
    <3>1. ASSUME NEW i \in 1 .. n, h[i - 1] \in Scanned(str)
          PROVE  h[i] \in Scanned(str)
      <4>1. h[i] = Round(i)[h[i - 1]]
        BY <2>1, <2>6, <3>1
      <4>2. QED
        BY <1>4, <3>1, <4>1
    <3>2. QED
      BY <3>1
  <2>8. \A i \in 0 .. n : h[i] \in Scanned(str)
    BY <1>2, <1>3, <2>5, <2>7, AllAlong
  <2>9. \A i \in 1 .. n : h[i] = Round(i)[h[i - 1]]
    BY <2>1, <2>3, <2>6, <2>8
  <2>10. h = [i \in 0 .. n |-> h[i]]
    BY <2>2 DEF Steps
  <2>11. \A i \in 0 .. n : h[i] = IF i = 0 THEN z ELSE Round(i)[h[i - 1]]
    BY <2>4, <2>5, <2>9
  <2>12. Scans(h)
    BY <2>10, <2>11
  <2> HIDE DEF Scans
  <2>13. QED
    BY <2>12
<1> HIDE DEF z, n
<1> HIDE DEF f
<1>6. f[0] = z
  <2>1. 0 \in 0 .. n
    BY <1>2
  <2>2. QED
    BY <1>5, <2>1
<1>7. \A i \in 1 .. n : f[i] = Round(i)[f[i - 1]]
  <2>1. \A i \in 1 .. n : i \in 0 .. n /\ i # 0
    BY <1>2
  <2>2. QED
    BY <1>5, <2>1
<1>8. \A i \in 0 .. n : f[i] \in Scanned(str)
  <2>1. \A i \in 1 .. n : f[i - 1] \in Scanned(str) => f[i] \in Scanned(str)
    BY <1>4, <1>7, Zenon
  <2>2. f[0] \in Scanned(str)
    BY <1>3, <1>6
  <2>3. QED
    BY <1>2, <2>1, <2>2, AllAlong
<1>9. QED
  BY <1>1, <1>6, <1>7, <1>8 DEF z, n

\* So the loop ends with the text it began with.
LEMMA ScanType ==
  ASSUME NEW str \in Seq(Token), NEW hState \in ParseStates,
         NEW headers \in SUBSET Token
  PROVE  Scan(str, hState, headers) \in Scanned(str)
<1>1. Len(str) \in 0 .. Len(str)
  OBVIOUS
<1>2. QED
  BY <1>1, ScanSteps

\* parseHeaders leaves text of the client's in the buffer and in the headers.
LEMMA HeadersType ==
  ASSUME NEW str \in Seq(Token), NEW hState \in ParseStates,
         NEW headers \in SUBSET Token
  PROVE  LET head == parseHeaders(str, hState, headers) IN
         /\ head.flag \in {"again", "error", "success"}
         /\ head.hState_ \in ParseStates
         /\ head.headers_ \subseteq Token
         /\ head.str \in Seq(Token)
<1> DEFINE s == Scan(str, hState, headers)
           rest == IF s.hState_ = "H_END_LF" THEN s.read + 1 ELSE s.line_begin
           head == parseHeaders(str, hState, headers)
<1>1. s \in Scanned(str)
  BY ScanType
<1>2. head =
        [flag |-> IF s.error THEN "error"
                  ELSE IF s.hState_ = "H_END_LF" THEN "success" ELSE "again",
         hState_ |-> s.hState_, headers_ |-> s.headers_,
         str |-> IF s.error THEN str ELSE SubSeq(str, rest, Len(str))]
  BY DEF parseHeaders
<1> HIDE DEF s, head
<1>3. /\ s.hState_ \in ParseStates /\ s.headers_ \subseteq Token
      /\ rest \in Nat \ {0}
  BY <1>1 DEF Scanned, Parsing
<1> HIDE DEF rest
<1>4. SubSeq(str, rest, Len(str)) \in Seq(Token)
  BY <1>3
<1>5. QED
  BY <1>2, <1>3, <1>4 DEF head

-----------------------------------------------------------------------------
(* The inductive invariant.                                                *)

\* Nobody reads without something to read, or to learn, or after the end of the
\* input, and no request line is looked for in an empty buffer.
ReadInv ==
  /\ pc \in {"idle", "read"} => ~Late
  /\ newIn => rx # <<>> \/ fin \/ broken
  /\ pc = "read" => rx # <<>> \/ fin \/ inBuffer_ # <<>> \/ broken
  /\ pc = "process" /\ state_ = "uri" => inBuffer_ # <<>>

\* Only handleError writes an error, and then handleConn is all that is left
\* to be done.
ErrorInv ==
  /\ ErrorIsLast
  /\ \A n \in DOMAIN wire : wire[n].part = "error" => error_
  /\ \A n \in DOMAIN outBuffer_ : outBuffer_[n].part # "error"
  /\ error_ => pc \in {"flush", "conn", "closed"}

\* What epoll is going to report is what there is to be read or sent.
Reported ==
  IF outBuffer_ = <<>>
  THEN "in" \in interest /\ (rx # <<>> \/ fin => newIn)
  ELSE interest = {"out"} /\ (room > 0 => newOut)

\* A connection that waits to write although nothing is left to be written:
\* of two requests in one buffer the second has overwritten what was left of
\* the answer to the first, and events_ has kept EPOLLOUT.
WaitsToWrite == outBuffer_ = <<>> /\ interest = {"out"} /\ (room > 0 => newOut)

\* What handleConn finds must be what it can leave to epoll.
EdgeInv == ~broken =>
  /\ pc = "idle" => Reported \/ WaitsToWrite
  /\ pc \in {"read", "process", "flush"} => interest \in {{}, {"in"}}
  /\ pc = "write" => interest = {"out"} /\ events_ = {}
  /\ pc \in {"process", "flush", "conn"} /\ interest = {"in"} =>
       /\ rx # <<>> => newIn
       /\ fin /\ connectionState_ = "H_CONNECTED" => newIn
  /\ pc = "conn" /\ ~error_ =>
       /\ outBuffer_ # <<>> => "out" \in events_
       /\ interest = {"out"} /\ "out" \in events_ => (room > 0 => newOut)

SessionInv == TypeOK /\ ReadInv /\ ErrorInv /\ EdgeInv

\* A new connection.
LEMMA InitSession == Init => SessionInv
<1> SUFFICES ASSUME Init
             PROVE  SessionInv
  OBVIOUS
<1> USE SessionAssumption DEF Init
<1>1. TypeOK
  <2>1. /\ kind \in Seq(Kinds) /\ unsent \in Seq(Token) /\ rx \in Seq(Token)
        /\ inBuffer_ \in Seq(Token)
    OBVIOUS
  <2>2. wire \in Seq(Chunk) /\ outBuffer_ \in Seq(Chunk)
    OBVIOUS
  <2>3. splits \in 0 .. MaxSplits /\ room \in 0 .. Room
        /\ parsed \in 0 .. MaxRequests
    OBVIOUS
  <2>4. QED
    BY <2>1, <2>2, <2>3, Zenon DEF TypeOK, ParseStates
<1>2. ReadInv
  BY DEF ReadInv, Late
<1>3. ErrorInv
  BY DEF ErrorInv, ErrorIsLast
<1>4. EdgeInv
  BY DEF EdgeInv, Reported
<1>5. QED
  BY <1>1, <1>2, <1>3, <1>4 DEF SessionInv

-----------------------------------------------------------------------------
(* What the operations that write do.                                      *)

\* writen takes the chunks there is room for, from the front, and stops short
\* of the end only when there is no more room.
LEMMA WriteEffect ==
  ASSUME wire \in Seq(Chunk), room \in 0 .. Room,
         NEW chunks \in Seq(Chunk), Write(chunks)
  PROVE  \E n \in 0 .. Len(chunks) :
           /\ wire' = wire \o SubSeq(chunks, 1, n) /\ wire' \in Seq(Chunk)
           /\ room' = room - n /\ room' \in 0 .. Room
           /\ n < Len(chunks) => room' = 0
<1> DEFINE n == Least(room, Len(chunks))
<1>1. n \in 0 .. Len(chunks) /\ n <= room /\ (n < Len(chunks) => n = room)
  BY SessionAssumption DEF Least
<1>2. wire' = wire \o SubSeq(chunks, 1, n) /\ room' = room - n
  BY DEF Write
<1> HIDE DEF n
<1>3. SubSeq(chunks, 1, n) \in Seq(Chunk)
  BY <1>1, PartType
<1>4. wire' \in Seq(Chunk)
  BY <1>2, <1>3
<1>5. room' \in 0 .. Room /\ (n < Len(chunks) => room' = 0)
  BY <1>1, <1>2, SessionAssumption
<1>6. QED
  BY <1>1, <1>2, <1>4, <1>5

\* handleError puts one chunk behind what was written, or nothing.
LEMMA ErrorEffect ==
  ASSUME wire \in Seq(Chunk), room \in 0 .. Room,
         NEW i \in 0 .. MaxRequests, HandleError(i)
  PROVE  /\ \/ wire' = wire
            \/ wire' = wire \o <<[id |-> i, part |-> "error"]>>
         /\ wire' \in Seq(Chunk) /\ room' \in 0 .. Room
         /\ error_' = TRUE
<1> DEFINE c == [id |-> i, part |-> "error"]
<1>1. c \in Chunk
  BY DEF Chunk
<1>2. Write(<<c>>) /\ error_' = TRUE
  BY DEF HandleError
<1> HIDE DEF c
<1>3. <<c>> \in Seq(Chunk) /\ Len(<<c>>) = 1
  BY <1>1
<1>4. PICK n \in 0 .. Len(<<c>>) :
        /\ wire' = wire \o SubSeq(<<c>>, 1, n) /\ wire' \in Seq(Chunk)
        /\ room' \in 0 .. Room
  BY <1>2, <1>3, WriteEffect
<1>5. \A q \in Seq(Chunk) : /\ q \o SubSeq(<<c>>, 1, 0) = q
                              /\ SubSeq(<<c>>, 1, 1) = <<c>>
  <2> DEFINE one == <<c>>
  <2>1. one \in Seq(Chunk) /\ Len(one) = 1
    BY <1>3
  <2> HIDE DEF one
  <2>2. SubSeq(one, 1, 0) = <<>> /\ SubSeq(one, 1, 1) = one
    BY <2>1
  <2>3. QED
    BY <2>2 DEF one
<1>6. n = 0 \/ n = 1
  BY <1>3
<1>7. wire' = wire \/ wire' = wire \o <<c>>
  BY <1>4, <1>5, <1>6
<1>8. QED
  BY <1>2, <1>4, <1>7 DEF c

\* handleWrite puts the first part of outBuffer_ behind what was written and
\* keeps the rest, and adds EPOLLOUT if there is a rest.
LEMMA SendEffect ==
  ASSUME wire \in Seq(Chunk), room \in 0 .. Room, outBuffer_ \in Seq(Chunk),
         NEW asked, SendOutput(asked)
  PROVE  /\ \E n \in 0 .. Len(outBuffer_) :
              /\ wire' = wire \o SubSeq(outBuffer_, 1, n)
              /\ outBuffer_' = SubSeq(outBuffer_, n + 1, Len(outBuffer_))
         /\ wire' \in Seq(Chunk) /\ room' \in 0 .. Room
         /\ outBuffer_' \in Seq(Chunk)
         /\ outBuffer_' # <<>> => room' = 0
         /\ events_' = events_ \cup asked
                         \cup (IF outBuffer_' # <<>> THEN {"out"} ELSE {})
<1>1. Write(outBuffer_)
  BY DEF SendOutput
<1>2. PICK n \in 0 .. Len(outBuffer_) :
        /\ wire' = wire \o SubSeq(outBuffer_, 1, n) /\ wire' \in Seq(Chunk)
        /\ room' = room - n /\ room' \in 0 .. Room
        /\ n < Len(outBuffer_) => room' = 0
  BY <1>1, WriteEffect
<1>3. room - room' = n
  BY <1>2, SessionAssumption
<1>4. outBuffer_' = SubSeq(outBuffer_, n + 1, Len(outBuffer_))
  BY <1>3 DEF SendOutput
<1>5. n + 1 \in Nat \ {0}
  OBVIOUS
<1>6. outBuffer_' \in Seq(Chunk)
  BY <1>4, <1>5, PartType
<1>7. n = Len(outBuffer_) => outBuffer_' = <<>>
  BY <1>4
<1>8. outBuffer_' # <<>> => room' = 0
  BY <1>2, <1>7
<1>9. events_' = events_ \cup asked
                  \cup (IF outBuffer_' # <<>> THEN {"out"} ELSE {})
  BY DEF SendOutput
<1>10. QED
  BY <1>2, <1>4, <1>6, <1>8, <1>9, Zenon

-----------------------------------------------------------------------------
(* Each step keeps the types.                                              *)

\* The parts of an answer are chunks, and none of them is an error.
LEMMA AnswerType ==
  ASSUME NEW i \in 0 .. MaxRequests,
         kind[i] \in {"hello", "bare", "file", "head"}
  PROVE  /\ Answer(i) \in Seq(Chunk)
         /\ \A n \in DOMAIN Answer(i) : Answer(i)[n].part # "error"
<1> DEFINE Part(p) == [id |-> i, part |-> p]
<1>1. \A p \in {"all", "head", "body"} : Part(p) \in Chunk
  BY DEF Chunk
<1>2. \A p \in {"all", "head", "body"} : Part(p).part # "error"
  OBVIOUS
<1>3. Answer(i) \in {<<Part("all")>>, <<Part("head"), Part("body")>>,
                     <<Part("head")>>}
  <2>1. CASE kind[i] \in {"hello", "bare"}
    BY <2>1 DEF Answer, Posts
  <2>2. CASE kind[i] = "file"
    BY <2>2 DEF Answer, Posts
  <2>3. CASE kind[i] = "head"
    BY <2>3 DEF Answer, Posts
  <2>4. QED
    BY <2>1, <2>2, <2>3
<1>4. PICK a, h, b \in Chunk :
        /\ a.part # "error" /\ h.part # "error" /\ b.part # "error"
        /\ Answer(i) \in {<<a>>, <<h, b>>, <<h>>}
  BY <1>1, <1>2, <1>3, Zenon
<1> HIDE DEF Part
<1>5. /\ <<a>> \in Seq(Chunk) /\ <<h, b>> \in Seq(Chunk) /\ <<h>> \in Seq(Chunk)
      /\ DOMAIN <<a>> = {1} /\ DOMAIN <<h, b>> = {1, 2} /\ DOMAIN <<h>> = {1}
  OBVIOUS
<1>6. CASE Answer(i) = <<a>>
  BY <1>4, <1>5, <1>6
<1>7. CASE Answer(i) = <<h, b>>
  BY <1>4, <1>5, <1>7
<1>8. CASE Answer(i) = <<h>>
  BY <1>4, <1>5, <1>8
<1>9. QED
  BY <1>4, <1>6, <1>7, <1>8

\* The client's steps keep the types.
LEMMA ClientTypes ==
  ASSUME TypeOK, Client
  PROVE  TypeOK'
<1> USE SessionAssumption
<1>1. ASSUME NEW k \in Kinds, ClientSends(k)
      PROVE  TypeOK'
  <2> DEFINE text == Text(Len(kind'), k)
  <2>1. kind' \in Seq(Kinds) /\ Len(kind') \in 1 .. MaxRequests
    BY <1>1 DEF ClientSends, TypeOK
  <2>2. text \in Seq(Token) /\ k \in AllKinds
    BY <2>1, TextType
  <2>3. PICK n \in DOMAIN text :
          /\ unsent' = SubSeq(text, n + 1, Len(text))
          /\ rx' = rx \o SubSeq(text, 1, n) /\ newIn' = TRUE
          /\ \/ UNCHANGED splits
             \/ splits < MaxSplits /\ splits' = splits + 1
    BY <1>1 DEF ClientSends, Arrives
  <2> HIDE DEF text
  <2>4. n \in 1 .. Len(text) /\ n + 1 \in Nat \ {0}
    BY <2>2
  <2>5. unsent' \in Seq(Token) /\ SubSeq(text, 1, n) \in Seq(Token)
    BY <2>2, <2>3, <2>4, PartType, SMTT(20)
  <2>6. rx' \in Seq(Token)
    BY <2>3, <2>5 DEF TypeOK
  <2>7. splits' \in 0 .. MaxSplits
    BY <2>3 DEF TypeOK
  <2>8. UNCHANGED <<habits, fin, broken, room, wire, newOut, interest, pc, data>>
    BY <1>1 DEF ClientSends
  <2>9. QED
    BY <2>1, <2>3, <2>5, <2>6, <2>7, <2>8, SMTT(20) DEF TypeOK, data, parse
<1>2. ASSUME ClientSendsRest
      PROVE  TypeOK'
  <2>1. /\ unsent' \in Seq(Token) /\ rx' \in Seq(Token) /\ newIn' \in BOOLEAN
    BY <1>2 DEF ClientSendsRest, Arrives, TypeOK
  <2>2. QED
    BY <1>2, <2>1 DEF ClientSendsRest, TypeOK, data, parse
<1>3. ASSUME ClientFinishes
      PROVE  TypeOK'
  BY <1>3 DEF ClientFinishes, TypeOK, client, data, parse
<1>4. ASSUME ClientResets
      PROVE  TypeOK'
  <2>1. room' \in 0 .. Room
    BY <1>4 DEF ClientResets
  <2>2. QED
    BY <1>4, <2>1 DEF ClientResets, TypeOK, client, data, parse
<1>5. ASSUME ClientReads
      PROVE  TypeOK'
  <2>1. room' \in 0 .. Room
    BY <1>5 DEF ClientReads, TypeOK
  <2>2. QED
    BY <1>5, <2>1 DEF ClientReads, TypeOK, client, data, parse
<1>6. QED
  BY <1>1, <1>2, <1>3, <1>4, <1>5 DEF Client

\* The steps of the loop thread keep the types.
LEMMA ServerTypes ==
  ASSUME TypeOK, ReadInv, HandleEvents \/ Expire
  PROVE  TypeOK'
<1> USE SessionAssumption
<1>1. ASSUME Dispatch
      PROVE  TypeOK'
  <2>1. interest' \in {{}, {"in"}, {"out"}}
    BY <1>1 DEF Dispatch, TypeOK
  <2>2. QED
    BY <1>1, <2>1 DEF Dispatch, TypeOK, client, socket, parse
<1>2. ASSUME IgnoreFailure
      PROVE  TypeOK'
  <2>1. interest' \in {{}, {"in"}, {"out"}}
    BY <1>2 DEF IgnoreFailure, TypeOK
  <2>2. QED
    BY <1>2, <2>1 DEF IgnoreFailure, TypeOK, client, socket, parse
<1>3. ASSUME Read \/ ReadFails
      PROVE  TypeOK'
  <2>1. rx' = <<>> /\ inBuffer_' = inBuffer_ \o rx
    BY <1>3 DEF Read, ReadFails, ReadInv
  <2>2. rx' \in Seq(Token) /\ inBuffer_' \in Seq(Token)
    BY <2>1 DEF TypeOK
  <2>3. pc' \in {"flush", "process"} /\ newIn' \in BOOLEAN /\ error_' \in BOOLEAN
        /\ connectionState_' \in {connectionState_, "H_DISCONNECTING"}
    BY <1>3 DEF Read, ReadFails, TypeOK
  <2>4. QED
    <3>1. UNCHANGED <<client, fin, broken, room, wire, newOut, interest,
                      outBuffer_, parse, events_>>
      BY <1>3 DEF Read, ReadFails
    <3>2. connectionState_' \in {"H_CONNECTED", "H_DISCONNECTING", "H_DISCONNECTED"}
      BY <2>3 DEF TypeOK
    <3>3. QED
      BY <2>2, <2>3, <3>1, <3>2 DEF TypeOK, client, parse
<1>4. ASSUME ParseURI
      PROVE  TypeOK'
  <2> DEFINE uri == parseURI(inBuffer_)
  <2>1. inBuffer_ \in Seq(Token) /\ inBuffer_ # <<>>
    BY <1>4 DEF ParseURI, TypeOK, ReadInv
  <2>2. inBuffer_[1].id \in 0 .. MaxRequests
    <3>1. inBuffer_[1] \in Token
      BY <2>1
    <3>2. QED
      BY <3>1 DEF Token
  <2>3. uri.str \in Seq(Token) /\ (uri.success => uri.id \in 0 .. MaxRequests)
    BY <2>1, UriType
  <2>4. \/ /\ uri.success /\ inBuffer_' = uri.str /\ parsed' = uri.id
           /\ state_' = "headers" /\ UNCHANGED <<pc, room, wire, error_>>
        \/ /\ inBuffer_' = <<>> /\ HandleError(inBuffer_[1].id)
           /\ pc' = "flush" /\ UNCHANGED <<parsed, state_>>
    BY <1>4 DEF ParseURI
  <2> HIDE DEF uri
  <2>5. HandleError(inBuffer_[1].id) =>
          wire' \in Seq(Chunk) /\ room' \in 0 .. Room /\ error_' = TRUE
    BY <2>2, ErrorEffect DEF TypeOK
  <2>6. /\ wire' \in Seq(Chunk) /\ room' \in 0 .. Room /\ error_' \in BOOLEAN
        /\ pc' \in {pc, "flush"} /\ inBuffer_' \in Seq(Token)
        /\ parsed' \in 0 .. MaxRequests /\ state_' \in {state_, "headers"}
    <3>1. <<>> \in Seq(Token)
      OBVIOUS
    <3>2. /\ wire \in Seq(Chunk) /\ room \in 0 .. Room /\ error_ \in BOOLEAN
          /\ parsed \in 0 .. MaxRequests
      BY DEF TypeOK
    <3>3. QED
      BY <2>3, <2>4, <2>5, <3>1, <3>2
  <2>7. QED
    BY <1>4, <2>6 DEF ParseURI, TypeOK, client, epoll
<1>5. ASSUME ParseHeaders
      PROVE  TypeOK'
  <2> DEFINE head == parseHeaders(inBuffer_, hState_, headers_)
  <2>1. head.hState_ \in ParseStates /\ head.headers_ \subseteq Token
        /\ head.str \in Seq(Token)
    BY HeadersType DEF TypeOK
  <2>2. /\ hState_' = head.hState_ /\ headers_' = head.headers_
        /\ inBuffer_' = head.str
        /\ \/ pc' = "flush" /\ UNCHANGED <<room, wire, state_, error_>>
           \/ HandleError(parsed) /\ pc' = "flush" /\ UNCHANGED state_
           \/ state_' \in {"body", "analysis"}
              /\ UNCHANGED <<pc, room, wire, error_>>
    BY <1>5 DEF ParseHeaders
  <2> HIDE DEF head
  <2>3. HandleError(parsed) =>
          wire' \in Seq(Chunk) /\ room' \in 0 .. Room /\ error_' = TRUE
    BY ErrorEffect DEF TypeOK
  <2>4. /\ wire' \in Seq(Chunk) /\ room' \in 0 .. Room /\ error_' \in BOOLEAN
        /\ pc' \in {pc, "flush"} /\ state_' \in {state_, "body", "analysis"}
    BY <2>2, <2>3 DEF TypeOK
  <2>5. QED
    BY <1>5, <2>1, <2>2, <2>4 DEF ParseHeaders, TypeOK, client, epoll
<1>6. ASSUME RefuseBody
      PROVE  TypeOK'
  <2>1. wire' \in Seq(Chunk) /\ room' \in 0 .. Room /\ error_' = TRUE
    BY <1>6, ErrorEffect DEF RefuseBody, TypeOK
  <2>2. QED
    BY <1>6, <2>1 DEF RefuseBody, TypeOK, client, epoll, parse
<1>7. ASSUME ReceiveBody
      PROVE  TypeOK'
  BY <1>7 DEF ReceiveBody, TypeOK, client, socket, epoll
<1>8. ASSUME AnalysisRequest
      PROVE  TypeOK'
  <2>1. AnswerPage(parsed) =>
          outBuffer_' \in Seq(Chunk) /\ UNCHANGED <<room, wire, error_>>
    BY AnswerType DEF AnswerPage, TypeOK
  <2>2. AnswerFile(parsed) =>
          outBuffer_' \in Seq(Chunk) /\ UNCHANGED <<room, wire, error_>>
    BY AnswerType DEF AnswerFile, TypeOK
  <2>3. AnswerMissing(parsed) =>
          /\ outBuffer_' \in Seq(Chunk)
          /\ wire' \in Seq(Chunk) /\ room' \in 0 .. Room /\ error_' = TRUE
    <3>1. wire \in Seq(Chunk) /\ room \in 0 .. Room /\ outBuffer_ \in Seq(Chunk)
          /\ parsed \in 0 .. MaxRequests /\ <<>> \in Seq(Chunk)
      BY DEF TypeOK
    <3>2. SUFFICES ASSUME HandleError(parsed), outBuffer_' \in {outBuffer_, <<>>}
                   PROVE  /\ outBuffer_' \in Seq(Chunk)
                          /\ wire' \in Seq(Chunk) /\ room' \in 0 .. Room
                          /\ error_' = TRUE
      BY DEF AnswerMissing
    <3>3. QED
      BY <3>1, <3>2, ErrorEffect
  <2>4. AnswerPost(parsed) =>
          error_' = TRUE /\ UNCHANGED <<room, wire, outBuffer_>>
    BY DEF AnswerPost
  <2>5. /\ wire' \in Seq(Chunk) /\ room' \in 0 .. Room /\ error_' \in BOOLEAN
        /\ outBuffer_' \in Seq(Chunk)
    BY <1>8, <2>1, <2>2, <2>3, <2>4 DEF AnalysisRequest, TypeOK
  <2>6. state_' \in {state_, "finish"}
    BY <1>8 DEF AnalysisRequest, AnswerPage, AnswerFile, AnswerMissing,
                AnswerPost
  <2>7. QED
    BY <1>8, <2>5, <2>6 DEF AnalysisRequest, TypeOK, client, epoll
<1>9. ASSUME FlushNothing
      PROVE  TypeOK'
  BY <1>9 DEF FlushNothing, TypeOK, client, socket, epoll, data, parse
<1>10. ASSUME FlushWaiting \/ FlushAnswer \/ HandleWrite
       PROVE  TypeOK'
  <2>1. PICK asked \in {{}, {"in"}} : SendOutput(asked)
    BY <1>10 DEF FlushWaiting, FlushAnswer, HandleWrite
  <2>2. /\ wire' \in Seq(Chunk) /\ room' \in 0 .. Room
        /\ outBuffer_' \in Seq(Chunk)
        /\ events_' = events_ \cup asked
                        \cup (IF outBuffer_' # <<>> THEN {"out"} ELSE {})
    BY <2>1, SendEffect DEF TypeOK
  <2>3. events_' \subseteq {"in", "out"}
    BY <2>2 DEF TypeOK
  <2>4. /\ state_' \in {state_, "uri"} /\ hState_' \in {hState_, "H_START"}
        /\ parsed' \in {parsed, 0} /\ headers_' \in {headers_, {}}
        /\ pc' \in {"read", "conn"}
    BY <1>10 DEF FlushWaiting, FlushAnswer, HandleWrite, Reset, parse
  <2>5. state_' \in {"uri", "headers", "body", "analysis", "finish"}
        /\ hState_' \in ParseStates
        /\ parsed' \in 0 .. MaxRequests /\ headers_' \subseteq Token
    BY <2>4 DEF TypeOK, ParseStates
  <2>6. QED
    BY <1>10, <2>2, <2>3, <2>4, <2>5
       DEF FlushWaiting, FlushAnswer, HandleWrite, TypeOK, client, epoll
<1>11. ASSUME SendFails
       PROVE  TypeOK'
  BY <1>11 DEF SendFails, TypeOK, client, socket, epoll, parse
<1>12. ASSUME KeepConn
       PROVE  TypeOK'
  <2>1. events_' \in {{"in"}, {"out"}} /\ interest' \in {interest, events_'}
    BY <1>12 DEF KeepConn, epoll
  <2>2. newIn' \in BOOLEAN /\ newOut' \in BOOLEAN
    BY <1>12 DEF KeepConn, epoll, TypeOK
  <2>3. QED
    BY <1>12, <2>1, <2>2 DEF KeepConn, TypeOK, client, socket, parse
<1>13. ASSUME LeaveConn \/ DropConn \/ Expire
       PROVE  TypeOK'
  <2>1. LeaveConn => TypeOK'
    BY DEF LeaveConn, TypeOK, client, socket, epoll, parse
  <2>2. DropConn => TypeOK'
    BY DEF DropConn, TypeOK, client, socket, epoll, parse
  <2>3. Expire => TypeOK'
    BY DEF Expire, TypeOK, client, socket, epoll, parse
  <2>4. QED
    BY <1>13, <2>1, <2>2, <2>3
<1>14. QED
  BY <1>1, <1>2, <1>3, <1>4, <1>5, <1>6, <1>7, <1>8, <1>9, <1>10, <1>11,
     <1>12, <1>13 DEF HandleEvents

-----------------------------------------------------------------------------
(* Each step keeps the rest of the invariant.                              *)

\* What arrives is never nothing.
LEMMA Arrival ==
  ASSUME TypeOK, NEW k \in Kinds, ClientSends(k)
  PROVE  rx' # <<>> /\ newIn' = TRUE
<1> DEFINE text == Text(Len(kind'), k)
<1>1. k \in AllKinds /\ Len(kind') \in 1 .. MaxRequests
  BY SessionAssumption DEF ClientSends, TypeOK
<1>2. text \in Seq(Token)
  BY <1>1, TextType
<1>3. PICK n \in DOMAIN text : rx' = rx \o SubSeq(text, 1, n) /\ newIn' = TRUE
  BY DEF ClientSends, Arrives
<1> HIDE DEF text
<1>4. n \in 1 .. Len(text) /\ SubSeq(text, 1, n) \in Seq(Token)
  BY <1>2, PartType
<1>5. Len(SubSeq(text, 1, n)) = n
  BY <1>2, <1>4
<1>6. rx \in Seq(Token)
  BY DEF TypeOK
<1> DEFINE more == SubSeq(text, 1, n)
<1> HIDE DEF more
<1>7. Len(rx \o more) = Len(rx) + Len(more) /\ Len(more) = n
  BY <1>4, <1>5, <1>6 DEF more
<1>8. rx \o more # <<>>
  BY <1>4, <1>6, <1>7
<1>9. QED
  BY <1>3, <1>8 DEF more

\* The loop thread finds what it was called for.
LEMMA ReadStep ==
  ASSUME TypeOK, ReadInv, Next
  PROVE  ReadInv'
<1> USE DEF Late
<1>1. ASSUME NEW k \in Kinds, ClientSends(k)
      PROVE  ReadInv'
  <2>1. UNCHANGED <<fin, broken, pc, inBuffer_, state_, connectionState_>>
    BY <1>1 DEF ClientSends, data, parse
  <2>2. QED
    BY <1>1, <2>1, Arrival DEF ReadInv
<1>2. ASSUME ClientSendsRest
      PROVE  ReadInv'
  <2>1. rx' # <<>>
    BY <1>2 DEF ClientSendsRest, Arrives, TypeOK
  <2>2. QED
    BY <1>2, <2>1 DEF ClientSendsRest, ReadInv, data, parse
<1>3. ASSUME ClientFinishes \/ ClientResets \/ ClientReads
      PROVE  ReadInv'
  BY <1>3 DEF ClientFinishes, ClientResets, ClientReads, ReadInv, data, parse
<1>4. ASSUME Dispatch \/ IgnoreFailure
      PROVE  ReadInv'
  BY <1>4 DEF Dispatch, IgnoreFailure, ReadInv, socket, parse
<1>5. ASSUME Read
      PROVE  ReadInv'
  <2>1. rx # <<>> \/ inBuffer_ # <<>> => inBuffer_ \o rx # <<>>
    BY DEF TypeOK
  <2>2. QED
    BY <1>5, <2>1 DEF Read, ReadInv, parse
<1>6. ASSUME ReadFails
      PROVE  ReadInv'
  BY <1>6 DEF ReadFails, ReadInv
<1>7. ASSUME ParseURI
      PROVE  ReadInv'
  <2>1. /\ pc' = "flush" \/ (state_' = "headers" /\ pc' = "process")
        /\ UNCHANGED <<rx, fin, broken, newIn>>
    BY <1>7 DEF ParseURI, epoll
  <2>2. QED
    BY <2>1 DEF ReadInv
<1>8. ASSUME ParseHeaders
      PROVE  ReadInv'
  <2>1. /\ \/ pc' = "flush"
           \/ state_' \in {"body", "analysis"} /\ pc' = "process"
        /\ UNCHANGED <<rx, fin, broken, newIn>>
    BY <1>8 DEF ParseHeaders, epoll
  <2>2. QED
    BY <2>1 DEF ReadInv
<1>9. ASSUME RefuseBody \/ ReceiveBody
      PROVE  ReadInv'
  BY <1>9 DEF RefuseBody, ReceiveBody, ReadInv, epoll, socket
<1>10. ASSUME AnalysisRequest
       PROVE  ReadInv'
  BY <1>10 DEF AnalysisRequest, ReadInv, epoll
<1>11. ASSUME FlushNothing \/ FlushWaiting \/ HandleWrite \/ SendFails
       PROVE  ReadInv'
  BY <1>11 DEF FlushNothing, FlushWaiting, HandleWrite, SendFails, ReadInv,
               epoll, socket
<1>12. ASSUME FlushAnswer
       PROVE  ReadInv'
  BY <1>12 DEF FlushAnswer, ReadInv, epoll
<1>13. ASSUME KeepConn
       PROVE  ReadInv'
  <2>1. UNCHANGED <<rx, fin, broken>> /\ pc' = "idle" /\ ~Late'
    BY <1>13 DEF KeepConn, socket
  <2>2. newIn' = newIn \/ newIn' = (rx # <<>> \/ fin \/ broken)
    BY <1>13 DEF KeepConn, epoll
  <2>3. newIn => rx # <<>> \/ fin \/ broken
    BY DEF ReadInv
  <2>4. newIn' => rx # <<>> \/ fin \/ broken
    BY <2>2, <2>3
  <2>5. newIn' => rx' # <<>> \/ fin' \/ broken'
    BY <2>1, <2>4
  <2>6. QED
    BY <2>1, <2>5 DEF ReadInv
<1>14. ASSUME LeaveConn \/ DropConn \/ Expire
       PROVE  ReadInv'
  BY <1>14 DEF LeaveConn, DropConn, Expire, ReadInv, epoll, socket
<1>15. QED
  BY <1>1, <1>2, <1>3, <1>4, <1>5, <1>6, <1>7, <1>8, <1>9, <1>10, <1>11,
     <1>12, <1>13, <1>14 DEF Next, HandleEvents, Client

\* Nothing is written, and what follows an error still does.
QuietStep == /\ UNCHANGED <<wire, outBuffer_, error_>>
             /\ error_ => pc' \in {"flush", "conn", "closed"}

\* handleError.
FailStep == /\ ~error_ /\ pc' = "flush"
            /\ \E i \in 0 .. MaxRequests : HandleError(i)
            /\ outBuffer_' \in {outBuffer_, <<>>}

\* An error of which the client is not told.
GiveUpStep == /\ UNCHANGED <<wire, outBuffer_>> /\ error_' = TRUE
              /\ pc' \in {"flush", "conn"}

\* An answer is put into outBuffer_.
AnswerStep == /\ AnalysisRequest /\ ~error_
              /\ UNCHANGED <<wire, error_>>
              /\ \E i \in 0 .. MaxRequests :
                   /\ kind[i] \in {"hello", "bare", "file", "head"}
                   /\ outBuffer_' \in {Answer(i), outBuffer_ \o Answer(i)}

\* handleWrite.
SendStep == /\ ~error_ /\ error_' = FALSE
            /\ \E asked \in {{}, {"in"}} : SendOutput(asked)

\* There are no other steps.
LEMMA StepKinds ==
  ASSUME TypeOK, ReadInv, ErrorInv, Next
  PROVE  QuietStep \/ FailStep \/ GiveUpStep \/ AnswerStep \/ SendStep
<1> USE DEF ErrorInv
<1>1. Client => QuietStep
  BY DEF Client, ClientSends, ClientSendsRest, ClientFinishes, ClientResets,
         ClientReads, QuietStep, data
<1>2. Dispatch \/ IgnoreFailure => QuietStep
  BY DEF Dispatch, IgnoreFailure, QuietStep, socket
<1>3. Read => QuietStep
  BY DEF Read, QuietStep
<1>4. ReadFails => GiveUpStep
  BY DEF ReadFails, GiveUpStep
<1>5. ASSUME ParseURI
      PROVE  QuietStep \/ FailStep
  <2>1. inBuffer_[1].id \in 0 .. MaxRequests
    <3>1. inBuffer_ \in Seq(Token) /\ inBuffer_ # <<>>
      BY <1>5 DEF ParseURI, TypeOK, ReadInv
    <3>2. inBuffer_[1] \in Token
      BY <3>1
    <3>3. QED
      BY <3>2 DEF Token
  <2>2. /\ ~error_ /\ UNCHANGED outBuffer_
        /\ \/ UNCHANGED <<wire, error_>>
           \/ HandleError(inBuffer_[1].id) /\ pc' = "flush"
    BY <1>5 DEF ParseURI
  <2>3. QED
    BY <2>1, <2>2 DEF QuietStep, FailStep
<1>6. ASSUME ParseHeaders
      PROVE  QuietStep \/ FailStep
  <2>1. /\ ~error_ /\ UNCHANGED outBuffer_
        /\ \/ UNCHANGED <<wire, error_>>
           \/ HandleError(parsed) /\ pc' = "flush"
    BY <1>6 DEF ParseHeaders
  <2>2. QED
    BY <2>1 DEF QuietStep, FailStep, TypeOK
<1>7. RefuseBody => FailStep
  BY DEF RefuseBody, FailStep, TypeOK
<1>8. ReceiveBody => QuietStep
  BY DEF ReceiveBody, QuietStep, socket
<1>9. ASSUME AnalysisRequest
      PROVE  FailStep \/ GiveUpStep \/ AnswerStep
  <2>1. ~error_ /\ pc' = "flush" /\ parsed \in 0 .. MaxRequests
    BY <1>9 DEF AnalysisRequest, TypeOK
  <2>2. AnswerPage(parsed) \/ AnswerFile(parsed) => AnswerStep
    BY <1>9, <2>1 DEF AnswerPage, AnswerFile, AnswerStep
  <2>3. AnswerMissing(parsed) => FailStep
    BY <2>1 DEF AnswerMissing, FailStep
  <2>4. AnswerPost(parsed) => GiveUpStep
    BY <2>1 DEF AnswerPost, GiveUpStep
  <2>5. QED
    BY <1>9, <2>2, <2>3, <2>4 DEF AnalysisRequest
<1>10. FlushNothing => QuietStep
  BY DEF FlushNothing, QuietStep, socket, data
<1>11. FlushWaiting \/ FlushAnswer \/ HandleWrite => SendStep
  BY DEF FlushWaiting, FlushAnswer, HandleWrite, SendStep
<1>12. SendFails => GiveUpStep
  BY DEF SendFails, GiveUpStep, socket
<1>13. KeepConn \/ LeaveConn \/ DropConn \/ Expire => QuietStep
  BY DEF KeepConn, LeaveConn, DropConn, Expire, QuietStep, socket
<1>14. QED
  BY <1>1, <1>2, <1>3, <1>4, <1>5, <1>6, <1>7, <1>8, <1>9, <1>10, <1>11,
     <1>12, <1>13 DEF Next, HandleEvents

\* An error stays the last that is written.
LEMMA ErrorStep ==
  ASSUME TypeOK, ReadInv, ErrorInv, Next
  PROVE  ErrorInv'
<1> USE DEF ErrorInv
<1>1. /\ wire \in Seq(Chunk) /\ outBuffer_ \in Seq(Chunk) /\ room \in 0 .. Room
  BY DEF TypeOK
<1>2. ~error_ => \A n \in DOMAIN wire : wire[n].part # "error"
  OBVIOUS
<1>3. ASSUME QuietStep
      PROVE  ErrorInv'
  BY <1>3 DEF QuietStep, ErrorIsLast
<1>4. ASSUME FailStep
      PROVE  ErrorInv'
  <2>1. PICK i \in 0 .. MaxRequests : HandleError(i)
    BY <1>4 DEF FailStep
  <2> DEFINE c == [id |-> i, part |-> "error"]
  <2>2. /\ wire' = wire \/ wire' = wire \o <<c>>
        /\ error_' = TRUE
    BY <1>1, <2>1, ErrorEffect
  <2>3. c \in Chunk
    BY DEF Chunk
  <2> HIDE DEF c
  <2>4. /\ Len(wire \o <<c>>) = Len(wire) + 1
        /\ DOMAIN (wire \o <<c>>) = 1 .. Len(wire) + 1
        /\ \A n \in 1 .. Len(wire) : (wire \o <<c>>)[n] = wire[n]
    BY <1>1, <2>3
  <2>5. \A n \in 1 .. Len(wire) : wire[n].part # "error"
    BY <1>1, <1>2, <1>4 DEF FailStep
  <2>6. ErrorIsLast'
    <3>1. CASE wire' = wire
      BY <1>1, <2>5, <3>1 DEF ErrorIsLast
    <3>2. CASE wire' = wire \o <<c>>
      <4>1. SUFFICES ASSUME NEW n \in 1 .. Len(wire) + 1,
                            wire'[n].part = "error"
                     PROVE  n = Len(wire) + 1
        BY <2>4, <3>2 DEF ErrorIsLast
      <4>2. n \notin 1 .. Len(wire)
        BY <2>4, <2>5, <3>2, <4>1
      <4>3. QED
        BY <1>1, <4>2
    <3>3. QED
      BY <2>2, <3>1, <3>2
  <2>7. \A n \in DOMAIN outBuffer_' : outBuffer_'[n].part # "error"
    BY <1>4 DEF FailStep
  <2>8. pc' = "flush"
    BY <1>4 DEF FailStep
  <2>9. QED
    BY <2>2, <2>6, <2>7, <2>8
<1>5. ASSUME GiveUpStep
      PROVE  ErrorInv'
  BY <1>5 DEF GiveUpStep, ErrorIsLast
<1>6. ASSUME AnswerStep
      PROVE  ErrorInv'
  <2>1. PICK i \in 0 .. MaxRequests :
          /\ kind[i] \in {"hello", "bare", "file", "head"}
          /\ outBuffer_' \in {Answer(i), outBuffer_ \o Answer(i)}
    BY <1>6 DEF AnswerStep
  <2> DEFINE a == Answer(i)
  <2>2. a \in Seq(Chunk) /\ \A n \in DOMAIN a : a[n].part # "error"
    BY <2>1, AnswerType
  <2> HIDE DEF a
  <2>3. \A n \in DOMAIN (outBuffer_ \o a) : (outBuffer_ \o a)[n].part # "error"
    <3>1. SUFFICES ASSUME NEW n \in DOMAIN (outBuffer_ \o a)
                   PROVE  (outBuffer_ \o a)[n].part # "error"
      OBVIOUS
    <3>2. n \in 1 .. Len(outBuffer_) + Len(a)
      BY <1>1, <2>2
    <3>3. CASE n \in 1 .. Len(outBuffer_)
      BY <1>1, <2>2, <3>3
    <3>4. CASE n - Len(outBuffer_) \in 1 .. Len(a)
      BY <1>1, <2>2, <3>4
    <3>5. QED
      BY <1>1, <2>2, <3>2, <3>3, <3>4
  <2>4. \A n \in DOMAIN outBuffer_' : outBuffer_'[n].part # "error"
    BY <2>1, <2>2, <2>3 DEF a
  <2>5. QED
    BY <1>6, <2>4 DEF AnswerStep, ErrorIsLast
<1>7. ASSUME SendStep
      PROVE  ErrorInv'
  <2>1. PICK asked \in {{}, {"in"}} : SendOutput(asked)
    BY <1>7 DEF SendStep
  <2>2. PICK n \in 0 .. Len(outBuffer_) :
          /\ wire' = wire \o SubSeq(outBuffer_, 1, n)
          /\ outBuffer_' = SubSeq(outBuffer_, n + 1, Len(outBuffer_))
    BY <1>1, <2>1, SendEffect
  <2> DEFINE sent == SubSeq(outBuffer_, 1, n)
             left == SubSeq(outBuffer_, n + 1, Len(outBuffer_))
  <2>3. /\ sent \in Seq(Chunk) /\ Len(sent) = n
        /\ \A m \in 1 .. n : sent[m] = outBuffer_[m]
    BY <1>1
  <2>4. /\ left \in Seq(Chunk) /\ Len(left) = Len(outBuffer_) - n
        /\ \A m \in 1 .. Len(outBuffer_) - n : left[m] = outBuffer_[n + m]
    BY <1>1
  <2> HIDE DEF sent, left
  <2>5. \A m \in 1 .. Len(outBuffer_) : outBuffer_[m].part # "error"
    BY <1>1
  <2>6. \A m \in DOMAIN left : left[m].part # "error"
    <3>1. SUFFICES ASSUME NEW m \in 1 .. Len(outBuffer_) - n
                   PROVE  left[m].part # "error"
      BY <2>4
    <3>2. n + m \in 1 .. Len(outBuffer_)
      BY <1>1
    <3>3. QED
      BY <2>4, <2>5, <3>2
  <2>7. \A m \in DOMAIN (wire \o sent) : (wire \o sent)[m].part # "error"
    <3>1. SUFFICES ASSUME NEW m \in DOMAIN (wire \o sent)
                   PROVE  (wire \o sent)[m].part # "error"
      OBVIOUS
    <3>2. m \in 1 .. Len(wire) + n
      BY <1>1, <2>3
    <3>3. CASE m \in 1 .. Len(wire)
      <4>1. (wire \o sent)[m] = wire[m]
        BY <1>1, <2>3, <3>3
      <4>2. QED
        BY <1>1, <1>2, <1>7, <3>3, <4>1 DEF SendStep
    <3>4. CASE m - Len(wire) \in 1 .. n
      <4>1. (wire \o sent)[m] = sent[m - Len(wire)]
        BY <1>1, <2>3, <3>4
      <4>2. m - Len(wire) \in 1 .. Len(outBuffer_)
        BY <3>4
      <4>3. QED
        BY <2>3, <2>5, <3>4, <4>1, <4>2
    <3>5. QED
      BY <1>1, <3>2, <3>3, <3>4
  <2>8. wire' = wire \o sent /\ outBuffer_' = left
    BY <2>2 DEF sent, left
  <2>9. QED
    BY <1>7, <2>6, <2>7, <2>8 DEF SendStep, ErrorIsLast
<1>8. QED
  BY <1>3, <1>4, <1>5, <1>6, <1>7, StepKinds

\* A connection that was reset stays so.
LEMMA BrokenStays ==
  ASSUME Next, broken
  PROVE  broken'
BY DEF Next, HandleEvents, Client, ClientSends, ClientSendsRest,
       ClientFinishes, ClientResets, ClientReads, Dispatch, IgnoreFailure,
       Read, ReadFails, ParseURI, ParseHeaders, RefuseBody, ReceiveBody,
       AnalysisRequest, FlushNothing, FlushWaiting, FlushAnswer, HandleWrite,
       SendFails, KeepConn, LeaveConn, DropConn, Expire, socket

\* What is left to epoll is going to be reported.
LEMMA EdgeStep ==
  ASSUME TypeOK, ErrorInv, EdgeInv, Next
  PROVE  EdgeInv'
<1> SUFFICES ASSUME ~broken'
             PROVE  EdgeInv'
  BY DEF EdgeInv
<1>1. ~broken
  BY BrokenStays
<1> USE <1>1 DEF EdgeInv, Reported, WaitsToWrite
<1>2. ASSUME NEW k \in Kinds, ClientSends(k)
      PROVE  EdgeInv'
  <2>1. newIn' = TRUE
    BY <1>2, Arrival
  <2>2. UNCHANGED <<fin, broken, room, newOut, interest, pc, outBuffer_, error_,
                    connectionState_, events_>>
    BY <1>2 DEF ClientSends, data
  <2>3. QED
    BY <2>1, <2>2
<1>3. ASSUME ClientSendsRest \/ ClientFinishes
      PROVE  EdgeInv'
  <2>1. newIn' = TRUE
    BY <1>3 DEF ClientSendsRest, ClientFinishes, Arrives
  <2>2. UNCHANGED <<broken, room, newOut, interest, pc, outBuffer_, error_,
                    connectionState_, events_>>
    BY <1>3 DEF ClientSendsRest, ClientFinishes, data
  <2>3. QED
    BY <2>1, <2>2
<1>4. ASSUME ClientReads
      PROVE  EdgeInv'
  BY <1>4 DEF ClientReads, data
<1>5. ~ClientResets
  BY DEF ClientResets
<1>6. ASSUME Dispatch
      PROVE  EdgeInv'
  <2>1. interest \in {{"in"}, {"out"}, {"in", "oneshot"}}
    BY <1>6 DEF Dispatch, TypeOK
  <2>2. \/ "in" \in interest /\ interest' \in {{}, {"in"}} /\ pc' = "read"
        \/ "out" \in interest /\ interest' = {"out"} /\ pc' = "write"
    BY <1>6, <2>1 DEF Dispatch
  <2>3. events_' = {} /\ UNCHANGED <<broken, error_>>
    BY <1>6 DEF Dispatch, socket
  <2>4. QED
    BY <2>2, <2>3
<1>7. ~IgnoreFailure /\ ~ReadFails
  BY DEF IgnoreFailure, ReadFails
<1>8. ASSUME Read
      PROVE  EdgeInv'
  <2>1. /\ pc = "read" /\ pc' \in {"flush", "process"} /\ rx' = <<>>
        /\ UNCHANGED <<fin, broken, interest>>
        /\ fin => connectionState_' = "H_DISCONNECTING"
    BY <1>8 DEF Read
  <2>2. QED
    BY <2>1
<1>9. ASSUME ParseURI \/ ParseHeaders \/ RefuseBody \/ ReceiveBody
             \/ AnalysisRequest
      PROVE  EdgeInv'
  <2>1. /\ pc = "process" /\ pc' \in {"process", "flush"}
        /\ UNCHANGED <<rx, fin, broken, newIn, newOut, interest,
                       connectionState_>>
    BY <1>9 DEF ParseURI, ParseHeaders, RefuseBody, ReceiveBody,
                AnalysisRequest, epoll, socket
  <2>2. QED
    BY <2>1
<1>10. ASSUME FlushNothing
       PROVE  EdgeInv'
  BY <1>10 DEF FlushNothing, socket, epoll, data
<1>11. ASSUME FlushWaiting \/ FlushAnswer \/ HandleWrite
       PROVE  EdgeInv'
  <2>1. PICK asked \in {{}, {"in"}} : SendOutput(asked)
    BY <1>11 DEF FlushWaiting, FlushAnswer, HandleWrite
  <2>2. /\ outBuffer_' # <<>> => room' = 0
        /\ events_' = events_ \cup asked
                        \cup (IF outBuffer_' # <<>> THEN {"out"} ELSE {})
    BY <2>1, SendEffect DEF TypeOK
  <2>3. outBuffer_' # <<>> => "out" \in events_'
    BY <2>2
  <2>4. /\ pc' \in {"read", "conn"}
        /\ \/ pc = "flush"
           \/ pc = "write" /\ pc' = "conn"
        /\ UNCHANGED <<rx, fin, broken, newIn, newOut, interest,
                       connectionState_>>
    BY <1>11 DEF FlushWaiting, FlushAnswer, HandleWrite, epoll
  <2>5. CASE pc = "flush"
    BY <2>3, <2>4, <2>5
  <2>6. CASE pc = "write" /\ pc' = "conn"
    <3>1. interest' = {"out"} /\ events_ = {}
      BY <2>4, <2>6
    <3>2. "out" \in events_' => room' = 0
      BY <2>1, <2>2, <3>1
    <3>3. QED
      BY <2>3, <2>4, <2>6, <3>1, <3>2
  <2>7. QED
    BY <2>4, <2>5, <2>6
<1>12. ~SendFails
  BY DEF SendFails
<1>13. ASSUME KeepConn
       PROVE  EdgeInv'
  <2>1. /\ pc = "conn" /\ ~error_ /\ connectionState_ = "H_CONNECTED"
        /\ pc' = "idle"
        /\ UNCHANGED <<rx, fin, broken, room, outBuffer_>>
        /\ events_' = IF "out" \in events_ THEN {"out"} ELSE {"in"}
    BY <1>13 DEF KeepConn, socket
  <2>2. \/ /\ interest = events_' /\ UNCHANGED <<newIn, newOut, interest>>
        \/ /\ interest' = events_'
           /\ newIn' = (rx # <<>> \/ fin) /\ newOut' = (room > 0)
    BY <1>13 DEF KeepConn, epoll
  <2>3. interest' = events_'
    BY <2>2
  <2>4. CASE "out" \in events_
    <3>1. room > 0 => newOut'
      BY <2>1, <2>2, <2>4
    <3>2. interest' = {"out"}
      BY <2>1, <2>3, <2>4
    <3>3. QED
      BY <2>1, <3>1, <3>2
  <2>5. CASE "out" \notin events_
    <3>1. outBuffer_ = <<>> /\ interest' = {"in"}
      BY <2>1, <2>3, <2>5
    <3>2. rx # <<>> \/ fin => newIn'
      BY <2>1, <2>2, <2>5
    <3>3. QED
      BY <2>1, <3>1, <3>2
  <2>6. QED
    BY <2>4, <2>5
<1>14. ASSUME LeaveConn \/ DropConn \/ Expire
       PROVE  EdgeInv'
  BY <1>14 DEF LeaveConn, DropConn, Expire
<1>15. QED
  BY <1>2, <1>3, <1>4, <1>5, <1>6, <1>7, <1>8, <1>9, <1>10, <1>11, <1>12,
     <1>13, <1>14 DEF Next, HandleEvents, Client

-----------------------------------------------------------------------------
(* The types and the errors.                                               *)

\* The invariant holds.
LEMMA SessionInvariant == Spec => []SessionInv
<1>1. SessionInv /\ [Next]_vars => SessionInv'
  <2>1. SUFFICES ASSUME SessionInv, [Next]_vars
                 PROVE  SessionInv'
    OBVIOUS
  <2>2. TypeOK /\ ReadInv /\ ErrorInv /\ EdgeInv
    BY <2>1 DEF SessionInv
  <2>3. CASE Next
    <3>1. TypeOK'
      BY <2>2, <2>3, ClientTypes, ServerTypes DEF Next
    <3>2. ReadInv' /\ ErrorInv' /\ EdgeInv'
      BY <2>2, <2>3, ReadStep, ErrorStep, EdgeStep
    <3>3. QED
      BY <3>1, <3>2 DEF SessionInv
  <2>4. CASE UNCHANGED vars
    <3>1. UNCHANGED <<habits, kind, unsent, splits, rx, fin, broken, room, wire,
                      newIn, newOut, interest, pc, inBuffer_, outBuffer_,
                      state_, hState_, headers_, error_, connectionState_,
                      parsed, events_>>
      BY <2>4 DEF vars, client, socket, epoll, data, parse
    <3>2. TypeOK'
      BY <2>2, <3>1 DEF TypeOK
    <3>3. ReadInv'
      BY <2>2, <3>1 DEF ReadInv, Late
    <3>4. ErrorInv'
      BY <2>2, <3>1 DEF ErrorInv, ErrorIsLast
    <3>5. EdgeInv'
      BY <2>2, <3>1 DEF EdgeInv, Reported, WaitsToWrite
    <3>6. QED
      BY <3>2, <3>3, <3>4, <3>5 DEF SessionInv
  <2>5. QED
    BY <2>1, <2>3, <2>4
<1>2. QED
  BY InitSession, <1>1, PTL DEF Spec

\* The types of the connection's data: whatever the client sends, cut wherever
\* it is, the parsers yield text of the client's, and read nothing else.
THEOREM SessionTypes == Spec => []TypeOK
<1>1. SessionInv => TypeOK
  BY DEF SessionInv
<1>2. QED
  BY <1>1, SessionInvariant, PTL

\* Nothing follows an error (HttpData::handleError, handleRead, handleWrite),
\* of whatever client, and however much output was left.
THEOREM ErrorsAreLast == Spec => []ErrorIsLast
<1>1. SessionInv => ErrorIsLast
  BY DEF SessionInv, ErrorInv
<1>2. QED
  BY <1>1, SessionInvariant, PTL

-----------------------------------------------------------------------------
(* The text of a request.                                                  *)

\* No sequence put behind another, one, and two.
LEMMA FlattenFew ==
  ASSUME NEW s
  PROVE  /\ Len(s) = 0 => FlattenSeq(s) = s
         /\ Len(s) = 1 => FlattenSeq(s) = s[1]
         /\ Len(s) = 2 => FlattenSeq(s) = s[1] \o s[2]
<1> DEFINE Flat(f) == f = [i \in 1 .. Len(s) |-> IF i = 1 THEN s[1]
                                                 ELSE f[i - 1] \o s[i]]
           k == CHOOSE f : Flat(f)
<1>1. /\ Len(s) = 0 => FlattenSeq(s) = s
      /\ Len(s) # 0 => FlattenSeq(s) = k[Len(s)]
  BY DEF FlattenSeq
<1>2. ASSUME NEW h, h = [i \in 1 .. Len(s) |-> h[i]],
             \A i \in 1 .. Len(s) : h[i] = IF i = 1 THEN s[1]
                                           ELSE h[i - 1] \o s[i]
      PROVE  \A i \in 1 .. Len(s) : k[i] = IF i = 1 THEN s[1]
                                           ELSE k[i - 1] \o s[i]
  <2>1. Flat(h)
    BY <1>2
  <2> HIDE DEF Flat
  <2>2. Flat(k)
    BY <2>1
  <2> HIDE DEF k
  <2>3. QED
    BY <2>2 DEF Flat
<1>3. ASSUME Len(s) = 1
      PROVE  k[1] = s[1]
  <2> DEFINE h == [i \in 1 .. 1 |-> s[1]]
  <2>1. h = [i \in 1 .. Len(s) |-> h[i]]
    BY <1>3
  <2>2. \A i \in 1 .. Len(s) : h[i] = IF i = 1 THEN s[1] ELSE h[i - 1] \o s[i]
    BY <1>3
  <2> HIDE DEF h
  <2>3. \A i \in 1 .. Len(s) : k[i] = IF i = 1 THEN s[1] ELSE k[i - 1] \o s[i]
    BY <1>2, <2>1, <2>2
  <2> HIDE DEF k
  <2>4. QED
    BY <1>3, <2>3
<1>4. ASSUME Len(s) = 2
      PROVE  k[2] = s[1] \o s[2]
  <2> DEFINE c == s[1] \o s[2]
             h == [i \in 1 .. 2 |-> IF i = 1 THEN s[1] ELSE c]
  <2>1. h = [i \in 1 .. Len(s) |-> h[i]]
    BY <1>4
  <2>2. \A i \in 1 .. Len(s) : h[i] = IF i = 1 THEN s[1] ELSE h[i - 1] \o s[i]
    <3> HIDE DEF c
    <3>1. h[1] = s[1] /\ h[2] = c
      OBVIOUS
    <3> HIDE DEF h
    <3>2. \A i \in 1 .. 2 : i = 1 \/ (i = 2 /\ i - 1 = 1)
      OBVIOUS
    <3>3. h[2] = h[1] \o s[2]
      BY <3>1 DEF c
    <3>4. QED
      BY <1>4, <3>1, <3>2, <3>3
  <2> HIDE DEF h
  <2>3. \A i \in 1 .. Len(s) : k[i] = IF i = 1 THEN s[1] ELSE k[i - 1] \o s[i]
    BY <1>2, <2>1, <2>2
  <2> HIDE DEF k
  <2>4. k[1] = s[1]
    BY <1>4, <2>3
  <2>5. 2 \in 1 .. Len(s) /\ 2 - 1 = 1
    BY <1>4
  <2>6. k[2] = IF 2 = 1 THEN s[1] ELSE k[2 - 1] \o s[2]
    BY <2>3, <2>5, Zenon
  <2>7. k[2] = k[1] \o s[2]
    BY <2>5, <2>6
  <2>8. QED
    BY <2>4, <2>7
<1> HIDE DEF k
<1>5. Len(s) = 1 => FlattenSeq(s) = s[1]
  <2>1. Len(s) = 1 => Len(s) # 0
    OBVIOUS
  <2>2. QED
    BY <1>1, <1>3, <2>1, Zenon
<1>6. Len(s) = 2 => FlattenSeq(s) = s[1] \o s[2]
  <2>1. Len(s) = 2 => Len(s) # 0
    OBVIOUS
  <2>2. QED
    BY <1>1, <1>4, <2>1, Zenon
<1>7. QED
  BY <1>1, <1>5, <1>6

\* Four sequences one behind the other: where their members are.
LEMMA Behind ==
  ASSUME NEW S, NEW a \in Seq(S), NEW b \in Seq(S), NEW c \in Seq(S),
         NEW d \in Seq(S), NEW q, q = a \o b \o c \o d
  PROVE  LET m == Len(a) + Len(b)
             l == m + Len(c)
         IN
         /\ q \in Seq(S) /\ Len(q) = l + Len(d)
         /\ \A i \in 1 .. Len(a) : q[i] = a[i]
         /\ \A i \in 1 .. Len(b) : q[Len(a) + i] = b[i]
         /\ \A i \in 1 .. Len(c) : q[m + i] = c[i]
         /\ \A i \in 1 .. Len(d) : q[l + i] = d[i]
<1> DEFINE u == a \o b
           v == u \o c
<1>1. u \in Seq(S)
  OBVIOUS
<1>2. /\ Len(u) = Len(a) + Len(b)
      /\ \A i \in 1 .. Len(a) : u[i] = a[i]
      /\ \A i \in 1 .. Len(b) : u[Len(a) + i] = b[i]
  OBVIOUS
<1> HIDE DEF u
<1>3. v \in Seq(S)
  BY <1>1
<1>4. /\ Len(v) = Len(u) + Len(c)
      /\ \A i \in 1 .. Len(u) : v[i] = u[i]
      /\ \A i \in 1 .. Len(c) : v[Len(u) + i] = c[i]
  BY <1>1
<1>5. q = v \o d
  BY DEF u
<1> HIDE DEF v
<1>6. q \in Seq(S)
  BY <1>3, <1>5
<1>7. /\ Len(q) = Len(v) + Len(d)
      /\ \A i \in 1 .. Len(v) : q[i] = v[i]
      /\ \A i \in 1 .. Len(d) : q[Len(v) + i] = d[i]
  BY <1>3, <1>5
<1>8. /\ Len(a) \in Nat /\ Len(b) \in Nat /\ Len(c) \in Nat /\ Len(d) \in Nat
  OBVIOUS
<1>9. \A i \in 1 .. Len(a) : q[i] = a[i]
  BY <1>2, <1>4, <1>7, <1>8
<1>10. \A i \in 1 .. Len(b) : q[Len(a) + i] = b[i]
  <2>1. \A i \in 1 .. Len(b) : Len(a) + i \in 1 .. Len(u)
                               /\ Len(a) + i \in 1 .. Len(v)
    BY <1>2, <1>4, <1>8
  <2>2. QED
    BY <1>2, <1>4, <1>7, <2>1
<1>11. \A i \in 1 .. Len(c) : q[Len(u) + i] = c[i]
  <2>1. \A i \in 1 .. Len(c) : Len(u) + i \in 1 .. Len(v)
    BY <1>2, <1>4, <1>8
  <2>2. QED
    BY <1>4, <1>7, <2>1
<1>12. QED
  BY <1>2, <1>4, <1>6, <1>7, <1>9, <1>10, <1>11, SMTT(30)

\* Where a request's line ends, its headers and its blank line.
LEMMA RequestShape ==
  ASSUME NEW k \in AllKinds
  PROVE  LET q == Request[k]
             h == Len(Names(k))
         IN
         /\ h \in 0 .. 2 /\ (k = "post" => h = 1)
         /\ \A j \in 1 .. h : Names(k)[j] \in HeaderNames
         /\ Len(q) = 6 + 6 * h + (IF k = "post" THEN 2 ELSE 0)
         /\ q[1] = "G" /\ q[2] = "line" /\ q[3] = "CR" /\ q[4] = "LF"
         /\ \A j \in 1 .. h :
              /\ q[6 * j - 1] = Names(k)[j] /\ q[6 * j] = "colon"
              /\ q[6 * j + 1] = "space" /\ q[6 * j + 2] = "value"
              /\ q[6 * j + 3] = "CR" /\ q[6 * j + 4] = "LF"
         /\ q[5 + 6 * h] = "CR" /\ q[6 + 6 * h] = "LF"
         /\ k = "post" => q[13] = "body" /\ q[14] = "body"
<1> DEFINE heads == [n \in DOMAIN Names(k) |-> Header(Names(k)[n])]
           first == <<"G", "line", "CR", "LF">>
           blank == <<"CR", "LF">>
           last == IF k = "post" THEN [n \in 1 .. ContentLength |-> "body"]
                   ELSE <<>>
           r == FlattenSeq(heads)
           q == Request[k]
           h == Len(Names(k))
<1>1. q = first \o r \o blank \o last
  BY DEF Request
<1>2. /\ first \in Seq(Characters) /\ Len(first) = 4
      /\ first[1] = "G" /\ first[2] = "line" /\ first[3] = "CR" /\ first[4] = "LF"
  <2>1. \A a, b, c, d \in Characters : <<a, b, c, d>> \in Seq(Characters)
    OBVIOUS
  <2>2. first \in Seq(Characters)
    BY <2>1 DEF Characters, LineEnds
  <2>3. QED
    BY <2>2
<1>3. /\ blank \in Seq(Characters) /\ Len(blank) = 2
      /\ blank[1] = "CR" /\ blank[2] = "LF"
  BY DEF Characters, LineEnds
<1>4. /\ last \in Seq(Characters) /\ Len(last) = IF k = "post" THEN 2 ELSE 0
      /\ k = "post" => last[1] = "body" /\ last[2] = "body"
  <2>1. CASE k = "post"
    <3>1. last = [n \in 1 .. 2 |-> "body"]
      BY <2>1 DEF ContentLength
    <3> HIDE DEF last
    <3>2. "body" \in Characters
      BY DEF Characters
    <3>3. last \in Seq(Characters) /\ Len(last) = 2
      BY <3>1, <3>2
    <3>4. last[1] = "body" /\ last[2] = "body"
      BY <3>1
    <3>5. QED
      BY <2>1, <3>3, <3>4
  <2>2. CASE k # "post"
    <3>1. last = <<>>
      BY <2>2
    <3> HIDE DEF last
    <3>2. QED
      BY <2>2, <3>1
  <2>3. QED
    BY <2>1, <2>2
<1>5. /\ h \in 0 .. 2 /\ (k = "post" => h = 1)
      /\ \A j \in 1 .. h : Names(k)[j] \in HeaderNames
      /\ Names(k) \in Seq(HeaderNames)
  <2> DEFINE names == Names(k)
  <2>1. \/ names = <<>> /\ k # "post"
        \/ k # "post" /\ names = <<"host", "agent">>
        \/ \E name \in {"host", "Content-length"} : names = <<name>>
    BY DEF Names, AllKinds
  <2>2. {"host", "agent", "Content-length"} = HeaderNames
    BY DEF HeaderNames
  <2> HIDE DEF names
  <2>3. CASE names = <<>> /\ k # "post"
    BY <2>3 DEF names
  <2>4. CASE k # "post" /\ names = <<"host", "agent">>
    <3>1. \A x, y \in HeaderNames : <<x, y>> \in Seq(HeaderNames)
      OBVIOUS
    <3>2. names \in Seq(HeaderNames)
      BY <2>2, <2>4, <3>1
    <3>3. Len(names) = 2
      BY <2>4
    <3>4. QED
      BY <2>4, <3>2, <3>3 DEF names
  <2>5. CASE \E name \in {"host", "Content-length"} : names = <<name>>
    <3>1. PICK name \in HeaderNames : names = <<name>>
      BY <2>2, <2>5
    <3>2. names \in Seq(HeaderNames) /\ Len(names) = 1
      BY <3>1
    <3>3. QED
      BY <3>2 DEF names
  <2>6. QED
    BY <2>1, <2>3, <2>4, <2>5
<1>6. \A name \in HeaderNames :
        LET s == Header(name) IN
        /\ s \in Seq(Characters) /\ Len(s) = 6
        /\ s[1] = name /\ s[2] = "colon" /\ s[3] = "space" /\ s[4] = "value"
        /\ s[5] = "CR" /\ s[6] = "LF"
  <2>1. \A a, b, c, d, e, f \in Characters :
          <<a, b, c, d, e, f>> \in Seq(Characters)
    OBVIOUS
  <2>2. SUFFICES ASSUME NEW name \in HeaderNames
                 PROVE  LET s == Header(name) IN
                        /\ s \in Seq(Characters) /\ Len(s) = 6
                        /\ s[1] = name /\ s[2] = "colon" /\ s[3] = "space"
                        /\ s[4] = "value" /\ s[5] = "CR" /\ s[6] = "LF"
    OBVIOUS
  <2>3. /\ name \in Characters /\ "colon" \in Characters /\ "space" \in Characters
        /\ "value" \in Characters /\ "CR" \in Characters /\ "LF" \in Characters
    BY DEF Characters, LineEnds
  <2>4. Header(name) \in Seq(Characters)
    BY <2>1, <2>3, Zenon DEF Header
  <2>5. QED
    BY <2>4 DEF Header
<1>7. /\ heads \in Seq(Seq(Characters)) /\ Len(heads) = h
      /\ \A j \in 1 .. h : heads[j] = Header(Names(k)[j])
  <2> DEFINE names == Names(k)
  <2>1. names \in Seq(HeaderNames)
    BY <1>5
  <2>2. \A name \in HeaderNames : Header(name) \in Seq(Characters)
    BY <1>6, Zenon
  <2> HIDE DEF names
  <2>3. heads = [n \in DOMAIN names |-> Header(names[n])]
    BY DEF names
  <2>4. DOMAIN names = 1 .. Len(names)
    BY <2>1
  <2>5. \A n \in 1 .. Len(names) : Header(names[n]) \in Seq(Characters)
    BY <2>1, <2>2
  <2> HIDE DEF heads
  <2>6. heads \in Seq(Seq(Characters))
    BY <2>1, <2>3, <2>4, <2>5
  <2>7. Len(heads) = Len(names)
    BY <2>1, <2>3, <2>4, <2>6
  <2>8. \A j \in 1 .. Len(names) : heads[j] = Header(names[j])
    BY <2>3, <2>4
  <2>9. QED
    BY <2>6, <2>7, <2>8 DEF names
<1>8. r \in Seq(Characters)
  <2> HIDE DEF heads
  <2>1. QED
    BY <1>7, FlattenType
<1>9. LET m == Len(first) + Len(r)
          l == m + Len(blank)
      IN
      /\ Len(q) = l + Len(last)
      /\ \A i \in 1 .. Len(first) : q[i] = first[i]
      /\ \A i \in 1 .. Len(r) : q[Len(first) + i] = r[i]
      /\ \A i \in 1 .. Len(blank) : q[m + i] = blank[i]
      /\ \A i \in 1 .. Len(last) : q[l + i] = last[i]
  <2>1. first \in Seq(Characters)
    BY <1>2
  <2>2. blank \in Seq(Characters)
    BY <1>3
  <2>3. last \in Seq(Characters)
    BY <1>4
  <2> HIDE DEF first, r, blank, last, q
  <2>4. QED
    BY <1>1, <1>8, <2>1, <2>2, <2>3, Behind
<1>10. /\ h = 0 => r = <<>>
       /\ h = 1 => r = heads[1]
       /\ h = 2 => r = heads[1] \o heads[2]
  <2>1. heads = <<>> \/ h # 0
    BY <1>5
  <2> HIDE DEF heads, h
  <2>2. /\ Len(heads) = 0 => r = heads
        /\ Len(heads) = 1 => r = heads[1]
        /\ Len(heads) = 2 => r = heads[1] \o heads[2]
    BY FlattenFew
  <2>3. QED
    BY <1>7, <2>1, <2>2
<1>11. ASSUME NEW j \in 1 .. h
       PROVE  /\ heads[j] \in Seq(Characters) /\ Len(heads[j]) = 6
              /\ heads[j][1] = Names(k)[j] /\ heads[j][2] = "colon"
              /\ heads[j][3] = "space" /\ heads[j][4] = "value"
              /\ heads[j][5] = "CR" /\ heads[j][6] = "LF"
  <2> DEFINE name == Names(k)[j]
             s == heads[j]
  <2>1. name \in HeaderNames /\ s = Header(name)
    BY <1>5, <1>7
  <2> HIDE DEF name, s
  <2>2. /\ Header(name) \in Seq(Characters) /\ Len(Header(name)) = 6
        /\ Header(name)[1] = name /\ Header(name)[2] = "colon"
        /\ Header(name)[3] = "space" /\ Header(name)[4] = "value"
        /\ Header(name)[5] = "CR" /\ Header(name)[6] = "LF"
    BY <1>6, <2>1, Zenon
  <2>3. /\ s \in Seq(Characters) /\ Len(s) = 6
        /\ s[1] = name /\ s[2] = "colon" /\ s[3] = "space" /\ s[4] = "value"
        /\ s[5] = "CR" /\ s[6] = "LF"
    BY <2>1, <2>2, Zenon
  <2>4. QED
    BY <2>3 DEF name, s
<1>12. Len(first) = 4 /\ Len(blank) = 2 /\ Len(last) = IF k = "post" THEN 2 ELSE 0
  BY <1>2, <1>3, <1>4
<1>13. /\ Len(r) = 6 * h
       /\ h = 1 \/ h = 2 =>
                    /\ r[1] = Names(k)[1] /\ r[2] = "colon" /\ r[3] = "space"
                    /\ r[4] = "value" /\ r[5] = "CR" /\ r[6] = "LF"
       /\ h = 2 => /\ r[7] = Names(k)[2] /\ r[8] = "colon" /\ r[9] = "space"
                   /\ r[10] = "value" /\ r[11] = "CR" /\ r[12] = "LF"
  <2> HIDE DEF heads, h, r
  <2>1. CASE h = 0
    <3>1. Len(<<>>) = 0 /\ 6 * 0 = 0
      OBVIOUS
    <3>2. QED
      BY <1>10, <2>1, <3>1
  <2>2. CASE h = 1
    <3>1. 1 \in 1 .. h /\ 6 * 1 = 6
      BY <2>2
    <3> DEFINE a == heads[1]
    <3>2. r = a
      BY <1>10, <2>2
    <3>3. /\ Len(a) = 6 /\ a[1] = Names(k)[1] /\ a[2] = "colon" /\ a[3] = "space"
          /\ a[4] = "value" /\ a[5] = "CR" /\ a[6] = "LF"
      BY <1>11, <3>1, Zenon
    <3> HIDE DEF a
    <3>4. QED
      BY <2>2, <3>1, <3>2, <3>3
  <2>3. CASE h = 2
    <3>1. 1 \in 1 .. h /\ 2 \in 1 .. h
      BY <2>3
    <3> DEFINE a == heads[1]
               b == heads[2]
    <3>2. r = a \o b
      BY <1>10, <2>3
    <3>3. a \in Seq(Characters)
      BY <1>11, <3>1
    <3>4. b \in Seq(Characters)
      BY <1>11, <3>1
    <3>5. /\ Len(a) = 6 /\ a[1] = Names(k)[1] /\ a[2] = "colon" /\ a[3] = "space"
          /\ a[4] = "value" /\ a[5] = "CR" /\ a[6] = "LF"
      BY <1>11, <3>1, Zenon
    <3>6. /\ Len(b) = 6 /\ b[1] = Names(k)[2] /\ b[2] = "colon" /\ b[3] = "space"
          /\ b[4] = "value" /\ b[5] = "CR" /\ b[6] = "LF"
      BY <1>11, <3>1, Zenon
    <3> HIDE DEF a, b
    <3>7. /\ Len(r) = Len(a) + Len(b)
          /\ \A i \in 1 .. Len(a) : r[i] = a[i]
          /\ \A i \in 1 .. Len(b) : r[Len(a) + i] = b[i]
      BY <3>2, <3>3, <3>4
    <3>8. /\ Len(r) = 12
          /\ \A i \in 1 .. 6 : r[i] = a[i]
          /\ \A i \in 1 .. 6 : r[6 + i] = b[i]
      <4>1. Len(a) = 6
        BY <3>5, Zenon
      <4>2. Len(b) = 6
        BY <3>6, Zenon
      <4>3. QED
        BY <3>7, <4>1, <4>2
    <3>9. /\ r[1] = a[1] /\ r[2] = a[2] /\ r[3] = a[3] /\ r[4] = a[4]
          /\ r[5] = a[5] /\ r[6] = a[6]
          /\ r[7] = b[1] /\ r[8] = b[2] /\ r[9] = b[3] /\ r[10] = b[4]
          /\ r[11] = b[5] /\ r[12] = b[6]
      BY <3>8
    <3>10. Len(r) = 6 * h
      BY <2>3, <3>8
    <3>11. QED
      BY <3>5, <3>6, <3>9, <3>10, Zenon
  <2>4. h = 0 \/ h = 1 \/ h = 2
    BY <1>5 DEF h
  <2>5. QED
    BY <2>1, <2>2, <2>3, <2>4, Zenon
<1> HIDE DEF first, r, blank, last, q, heads
<1>14. /\ Len(q) = 6 + 6 * h + (IF k = "post" THEN 2 ELSE 0)
       /\ q[1] = "G" /\ q[2] = "line" /\ q[3] = "CR" /\ q[4] = "LF"
       /\ \A i \in 1 .. 6 * h : q[4 + i] = r[i]
       /\ q[5 + 6 * h] = "CR" /\ q[6 + 6 * h] = "LF"
       /\ k = "post" => q[7 + 6 * h] = "body" /\ q[8 + 6 * h] = "body"
  <2>1. h \in Nat
    BY <1>5
  <2>2. Len(r) = 6 * h
    BY <1>13
  <2> HIDE DEF h
  <2>3. Len(q) = 6 + 6 * h + (IF k = "post" THEN 2 ELSE 0)
    BY <1>9, <1>12, <2>1, <2>2
  <2>4. \A i \in 1 .. 4 : q[i] = first[i]
    BY <1>9, <1>12
  <2>5. q[1] = "G" /\ q[2] = "line" /\ q[3] = "CR" /\ q[4] = "LF"
    BY <1>2, <2>4
  <2>6. \A i \in 1 .. 6 * h : q[4 + i] = r[i]
    BY <1>9, <1>12, <2>2
  <2>7. \A i \in 1 .. 2 : q[4 + 6 * h + i] = blank[i]
    BY <1>9, <1>12, <2>2
  <2>8. /\ 4 + 6 * h + 1 = 5 + 6 * h /\ 4 + 6 * h + 2 = 6 + 6 * h
        /\ 6 + 6 * h + 1 = 7 + 6 * h /\ 6 + 6 * h + 2 = 8 + 6 * h
    BY <2>1
  <2>9. q[5 + 6 * h] = "CR" /\ q[6 + 6 * h] = "LF"
    BY <1>3, <2>7, <2>8
  <2>10. k = "post" => \A i \in 1 .. 2 : q[6 + 6 * h + i] = last[i]
    <3>1. 4 + 6 * h + 2 = 6 + 6 * h
      BY <2>1
    <3>2. QED
      BY <1>9, <1>12, <2>2, <3>1
  <2>11. k = "post" => q[7 + 6 * h] = "body" /\ q[8 + 6 * h] = "body"
    BY <1>4, <2>8, <2>10
  <2>12. QED
    BY <2>3, <2>5, <2>6, <2>9, <2>11
<1>15. ASSUME NEW j \in 1 .. h
       PROVE  /\ q[6 * j - 1] = Names(k)[j] /\ q[6 * j] = "colon"
              /\ q[6 * j + 1] = "space" /\ q[6 * j + 2] = "value"
              /\ q[6 * j + 3] = "CR" /\ q[6 * j + 4] = "LF"
  <2>1. h \in 0 .. 2
    BY <1>5
  <2> HIDE DEF h
  <2>2. CASE j = 1
    <3>1. \A i \in 1 .. 6 : i \in 1 .. 6 * h
      BY <2>1, <2>2
    <3>2. /\ q[5] = r[1] /\ q[6] = r[2] /\ q[7] = r[3]
          /\ q[8] = r[4] /\ q[9] = r[5] /\ q[10] = r[6]
      <4>1. \A i \in 1 .. 6 : q[4 + i] = r[i]
        BY <1>14, <3>1, Zenon
      <4>2. QED
        BY <4>1
    <3>3. h = 1 \/ h = 2
      BY <2>1, <2>2
    <3>4. /\ 6 * j - 1 = 5 /\ 6 * j = 6 /\ 6 * j + 1 = 7 /\ 6 * j + 2 = 8
          /\ 6 * j + 3 = 9 /\ 6 * j + 4 = 10
      BY <2>2
    <3>5. /\ r[1] = Names(k)[1] /\ r[2] = "colon" /\ r[3] = "space"
          /\ r[4] = "value" /\ r[5] = "CR" /\ r[6] = "LF"
      BY <1>13, <3>3, Zenon
    <3>6. QED
      BY <2>2, <3>2, <3>4, <3>5
  <2>3. CASE j = 2
    <3>1. h = 2
      BY <2>1, <2>3
    <3>2. /\ q[11] = r[7] /\ q[12] = r[8] /\ q[13] = r[9]
          /\ q[14] = r[10] /\ q[15] = r[11] /\ q[16] = r[12]
      <4>1. \A i \in 1 .. 12 : q[4 + i] = r[i]
        <5>1. 6 * h = 12
          BY <3>1
        <5>2. QED
          BY <1>14, <5>1
      <4>2. QED
        BY <4>1
    <3>3. /\ 6 * j - 1 = 11 /\ 6 * j = 12 /\ 6 * j + 1 = 13 /\ 6 * j + 2 = 14
          /\ 6 * j + 3 = 15 /\ 6 * j + 4 = 16
      BY <2>3
    <3>4. /\ r[7] = Names(k)[2] /\ r[8] = "colon" /\ r[9] = "space"
          /\ r[10] = "value" /\ r[11] = "CR" /\ r[12] = "LF"
      BY <1>13, <3>1, Zenon
    <3>5. QED
      BY <2>3, <3>2, <3>3, <3>4
  <2>4. j = 1 \/ j = 2
    BY <2>1
  <2>5. QED
    BY <2>2, <2>3, <2>4, Zenon
<1>16. k = "post" => q[13] = "body" /\ q[14] = "body"
  <2>1. k = "post" => h = 1
    BY <1>5
  <2> HIDE DEF h
  <2>2. QED
    BY <1>14, <2>1
<1>17. QED
  BY <1>5, <1>14, <1>15, <1>16 DEF q

-----------------------------------------------------------------------------
(* The grammar of what the client sends.                                   *)

\* What may come behind a character, within a request or in the next one.
Follows(c, d) ==
  \/ c = "G" /\ d = "line"
  \/ c \in {"line", "value"} /\ d = "CR"
  \/ c = "CR" /\ d = "LF"
  \/ c = "LF" /\ d \in HeaderNames \cup {"CR", "G", "body"}
  \/ c = "body" /\ d \in {"body", "G"}
  \/ c \in HeaderNames /\ d = "colon"
  \/ c = "colon" /\ d = "space"
  \/ c = "space" /\ d = "value"

\* The characters of a request follow each other so, only its first is a "G",
\* its names are those of its kind, and only a POST has a body.
LEMMA RequestGrammar ==
  ASSUME NEW k \in AllKinds
  PROVE  LET q == Request[k] IN
         /\ Len(q) >= 6 /\ q[1] = "G" /\ q[Len(q)] \in {"LF", "body"}
         /\ \A p \in 1 .. Len(q) - 1 : Follows(q[p], q[p + 1])
         /\ \A p \in 2 .. Len(q) : q[p] # "G"
         /\ \A p \in 1 .. Len(q) :
              /\ q[p] \in HeaderNames =>
                   \E j \in DOMAIN Names(k) : q[p] = Names(k)[j]
              /\ q[p] = "body" => k = "post"
<1> DEFINE q == Request[k]
           h == Len(Names(k))
<1>1. /\ h \in 0 .. 2 /\ (k = "post" => h = 1)
      /\ \A j \in 1 .. h : Names(k)[j] \in HeaderNames
      /\ Len(q) = 6 + 6 * h + (IF k = "post" THEN 2 ELSE 0)
      /\ q[1] = "G" /\ q[2] = "line" /\ q[3] = "CR" /\ q[4] = "LF"
      /\ \A j \in 1 .. h :
           /\ q[6 * j - 1] = Names(k)[j] /\ q[6 * j] = "colon"
           /\ q[6 * j + 1] = "space" /\ q[6 * j + 2] = "value"
           /\ q[6 * j + 3] = "CR" /\ q[6 * j + 4] = "LF"
      /\ q[5 + 6 * h] = "CR" /\ q[6 + 6 * h] = "LF"
      /\ k = "post" => q[13] = "body" /\ q[14] = "body"
  BY RequestShape
<1>2. h \in 0 .. 2 /\ (k = "post" => h = 1)
  BY <1>1, Zenon
<1>3. \A j \in 1 .. h : j \in DOMAIN Names(k)
  BY DEF Names, AllKinds
<1> DEFINE Goal == /\ Len(q) >= 6 /\ q[1] = "G" /\ q[Len(q)] \in {"LF", "body"}
                   /\ \A p \in 1 .. Len(q) - 1 : Follows(q[p], q[p + 1])
                   /\ \A p \in 2 .. Len(q) : q[p] # "G"
                   /\ \A p \in 1 .. Len(q) :
                        /\ q[p] \in HeaderNames =>
                             \E j \in DOMAIN Names(k) : q[p] = Names(k)[j]
                        /\ q[p] = "body" => k = "post"
<1> SUFFICES Goal
  OBVIOUS
<1> HIDE DEF q, h
<1>4. /\ Len(q) = 6 + 6 * h + (IF k = "post" THEN 2 ELSE 0)
      /\ k = "post" => q[13] = "body" /\ q[14] = "body"
  BY <1>1, Zenon
<1>5. /\ q[1] = "G" /\ q[2] = "line" /\ q[3] = "CR" /\ q[4] = "LF"
      /\ q[5 + 6 * h] = "CR" /\ q[6 + 6 * h] = "LF"
  BY <1>1, Zenon
<1> DEFINE HeaderAt(j, m) ==
             /\ q[m] = Names(k)[j] /\ Names(k)[j] \in HeaderNames
             /\ j \in DOMAIN Names(k) /\ q[m + 1] = "colon" /\ q[m + 2] = "space"
             /\ q[m + 3] = "value" /\ q[m + 4] = "CR" /\ q[m + 5] = "LF"
<1>6. /\ h # 0 => HeaderAt(1, 5)
      /\ h = 2 => HeaderAt(2, 11)
  <2>1. h # 0 => 1 \in 1 .. h
    BY <1>2
  <2>2. h = 2 => 2 \in 1 .. h
    BY <1>2
  <2>3. /\ 6 * 1 - 1 = 5 /\ 6 * 1 = 5 + 1 /\ 6 * 1 + 1 = 5 + 2
        /\ 6 * 1 + 2 = 5 + 3 /\ 6 * 1 + 3 = 5 + 4 /\ 6 * 1 + 4 = 5 + 5
    OBVIOUS
  <2>4. /\ 6 * 2 - 1 = 11 /\ 6 * 2 = 11 + 1 /\ 6 * 2 + 1 = 11 + 2
        /\ 6 * 2 + 2 = 11 + 3 /\ 6 * 2 + 3 = 11 + 4 /\ 6 * 2 + 4 = 11 + 5
    OBVIOUS
  <2>5. h # 0 => /\ q[6 * 1 - 1] = Names(k)[1] /\ q[6 * 1] = "colon"
                 /\ q[6 * 1 + 1] = "space" /\ q[6 * 1 + 2] = "value"
                 /\ q[6 * 1 + 3] = "CR" /\ q[6 * 1 + 4] = "LF"
    BY <1>1, <2>1, Zenon
  <2>6. h = 2 => /\ q[6 * 2 - 1] = Names(k)[2] /\ q[6 * 2] = "colon"
                 /\ q[6 * 2 + 1] = "space" /\ q[6 * 2 + 2] = "value"
                 /\ q[6 * 2 + 3] = "CR" /\ q[6 * 2 + 4] = "LF"
    BY <1>1, <2>2, Zenon
  <2>7. /\ h # 0 => Names(k)[1] \in HeaderNames /\ 1 \in DOMAIN Names(k)
        /\ h = 2 => Names(k)[2] \in HeaderNames /\ 2 \in DOMAIN Names(k)
    BY <1>1, <1>3, <2>1, <2>2, Zenon
  <2>8. h # 0 => HeaderAt(1, 5)
    BY <2>3, <2>5, <2>7, Zenon
  <2>9. h = 2 => HeaderAt(2, 11)
    BY <2>4, <2>6, <2>7, Zenon
  <2>10. QED
    BY <2>8, <2>9, Zenon
<1>7. \A p \in {"G", "line", "CR", "LF", "colon", "space", "value", "body"} :
        p \notin HeaderNames
  BY DEF HeaderNames
<1>8. CASE h = 0
  <2>1. Len(q) = 6 /\ k # "post"
    BY <1>2, <1>4, <1>8
  <2>2. q[5] = "CR" /\ q[6] = "LF"
    BY <1>5, <1>8
  <2>3. \A p \in 1 .. 6 : p \in {1, 2, 3, 4, 5, 6}
    OBVIOUS
  <2>4. QED
    BY <1>5, <1>7, <2>1, <2>2, <2>3 DEF Follows
<1> DEFINE a == Names(k)[1]
           b == Names(k)[2]
<1>9. ASSUME h # 0
      PROVE  /\ a \in HeaderNames /\ 1 \in DOMAIN Names(k)
             /\ q[5] = a /\ q[6] = "colon" /\ q[7] = "space" /\ q[8] = "value"
             /\ q[9] = "CR" /\ q[10] = "LF"
  <2>1. HeaderAt(1, 5)
    BY <1>6, <1>9
  <2> DEFINE m == Names(k)[1]
             in == 1 \in DOMAIN Names(k)
  <2>2. /\ q[5] = m /\ m \in HeaderNames /\ in /\ q[5 + 1] = "colon"
        /\ q[5 + 2] = "space" /\ q[5 + 3] = "value" /\ q[5 + 4] = "CR"
        /\ q[5 + 5] = "LF"
    BY <2>1, Zenon
  <2>3. m = a /\ (in = (1 \in DOMAIN Names(k)))
    OBVIOUS
  <2> HIDE DEF a, m, in
  <2>4. /\ q[5] = m /\ q[6] = "colon" /\ q[7] = "space" /\ q[8] = "value"
        /\ q[9] = "CR" /\ q[10] = "LF"
    BY <2>2
  <2>5. QED
    BY <2>2, <2>3, <2>4, Zenon
<1>10. ASSUME h = 2
       PROVE  /\ b \in HeaderNames /\ 2 \in DOMAIN Names(k)
              /\ q[11] = b /\ q[12] = "colon" /\ q[13] = "space" /\ q[14] = "value"
              /\ q[15] = "CR" /\ q[16] = "LF"
  <2>1. HeaderAt(2, 11)
    BY <1>6, <1>10
  <2> DEFINE m == Names(k)[2]
             in == 2 \in DOMAIN Names(k)
  <2>2. /\ q[11] = m /\ m \in HeaderNames /\ in /\ q[11 + 1] = "colon"
        /\ q[11 + 2] = "space" /\ q[11 + 3] = "value" /\ q[11 + 4] = "CR"
        /\ q[11 + 5] = "LF"
    BY <2>1, Zenon
  <2>3. m = b /\ (in = (2 \in DOMAIN Names(k)))
    OBVIOUS
  <2> HIDE DEF b, m, in
  <2>4. /\ q[11] = m /\ q[12] = "colon" /\ q[13] = "space" /\ q[14] = "value"
        /\ q[15] = "CR" /\ q[16] = "LF"
    BY <2>2
  <2>5. QED
    BY <2>2, <2>3, <2>4, Zenon
<1> HIDE DEF a, b, HeaderAt
<1>11. CASE h = 1 /\ k # "post"
  <2>1. Len(q) = 12
    BY <1>4, <1>11
  <2>2. q[11] = "CR" /\ q[12] = "LF"
    BY <1>5, <1>11
  <2>3. \A p \in 1 .. 12 : p \in {1, 2, 3, 4, 5, 6, 7, 8, 9, 10, 11, 12}
    OBVIOUS
  <2>4. QED
    BY <1>5, <1>7, <1>9, <1>11, <2>1, <2>2, <2>3 DEF Follows, a
<1>12. CASE k = "post"
  <2>1. h = 1 /\ Len(q) = 14
    BY <1>2, <1>4, <1>12
  <2>2. q[11] = "CR" /\ q[12] = "LF" /\ q[13] = "body" /\ q[14] = "body"
    BY <1>4, <1>5, <1>12, <2>1
  <2>3. \A p \in 1 .. 14 :
          p \in {1, 2, 3, 4, 5, 6, 7, 8, 9, 10, 11, 12, 13, 14}
    OBVIOUS
  <2>4. QED
    BY <1>5, <1>7, <1>9, <1>12, <2>1, <2>2, <2>3 DEF Follows, a
<1>13. CASE h = 2
  <2>1. Len(q) = 18 /\ k # "post"
    BY <1>2, <1>4, <1>13
  <2>2. q[17] = "CR" /\ q[18] = "LF"
    BY <1>5, <1>13
  <2>3. \A p \in 1 .. 18 :
          p \in {1, 2, 3, 4, 5, 6, 7, 8, 9, 10, 11, 12, 13, 14, 15, 16, 17, 18}
    OBVIOUS
  <2>4. QED
    BY <1>5, <1>7, <1>9, <1>10, <1>13, <2>1, <2>2, <2>3 DEF Follows, a, b
<1>14. h = 0 \/ h = 1 \/ h = 2
  BY <1>2
<1>15. Goal
  BY <1>8, <1>11, <1>12, <1>13, <1>14, Zenon
<1>16. QED
  BY <1>15 DEF q

\* The tokens t are the text of request i, of kind k: they follow each other as
\* its characters do, and only its first is a "G".
Spelled(t, i, k) ==
  /\ t \in Seq(Token) /\ Len(t) = Len(Request[k]) /\ Len(t) >= 6
  /\ \A p \in 1 .. Len(t) : t[p].c = Request[k][p] /\ t[p].id = i
  /\ t[1].c = "G" /\ t[Len(t)].c \in {"LF", "body"}
  /\ \A p \in 1 .. Len(t) - 1 : Follows(t[p].c, t[p + 1].c)
  /\ \A p \in 2 .. Len(t) : t[p].c # "G"
  /\ \A p \in 1 .. Len(t) :
       /\ t[p].c \in HeaderNames =>
            \E j \in DOMAIN Names(k) : t[p] = [c |-> Names(k)[j], id |-> i]
       /\ t[p].c = "body" => k = "post"

\* So is the text that the client sends.
LEMMA TextGrammar ==
  ASSUME NEW i \in 1 .. MaxRequests, NEW k \in AllKinds
  PROVE  Spelled(Text(i, k), i, k)
<1> DEFINE q == Request[k]
           t == Text(i, k)
<1>1. q \in Seq(Characters)
  BY RequestType
<1>2. t \in Seq(Token)
  BY TextType
<1>3. t = [n \in DOMAIN q |-> [c |-> q[n], id |-> i]]
  BY DEF Text
<1>4. /\ Len(q) >= 6 /\ q[1] = "G" /\ q[Len(q)] \in {"LF", "body"}
      /\ \A p \in 1 .. Len(q) - 1 : Follows(q[p], q[p + 1])
      /\ \A p \in 2 .. Len(q) : q[p] # "G"
      /\ \A p \in 1 .. Len(q) :
           /\ q[p] \in HeaderNames => \E j \in DOMAIN Names(k) : q[p] = Names(k)[j]
           /\ q[p] = "body" => k = "post"
  BY RequestGrammar
<1> HIDE DEF q, t
<1>5. Len(t) = Len(q)
  BY <1>1, <1>2, <1>3
<1>6. \A p \in 1 .. Len(q) : t[p] = [c |-> q[p], id |-> i]
  BY <1>1, <1>3
<1>7. \A p \in 1 .. Len(q) : t[p].c = q[p] /\ t[p].id = i
  <2>1. SUFFICES ASSUME NEW p \in 1 .. Len(q)
                 PROVE  t[p].c = q[p] /\ t[p].id = i
    OBVIOUS
  <2>2. t[p] = [c |-> q[p], id |-> i]
    BY <1>6, Zenon
  <2>3. QED
    BY <2>2
<1>8. t[1].c = "G" /\ t[Len(t)].c \in {"LF", "body"}
  BY <1>4, <1>5, <1>7
<1>9. \A p \in 1 .. Len(t) - 1 : Follows(t[p].c, t[p + 1].c)
  <2>1. \A p \in 1 .. Len(q) - 1 : p \in 1 .. Len(q) /\ p + 1 \in 1 .. Len(q)
    BY <1>1
  <2>2. QED
    BY <1>4, <1>5, <1>7, <2>1
<1>10. \A p \in 2 .. Len(t) : t[p].c # "G"
  BY <1>4, <1>5, <1>7
<1>11. \A p \in 1 .. Len(t) :
         /\ t[p].c \in HeaderNames =>
              \E j \in DOMAIN Names(k) : t[p] = [c |-> Names(k)[j], id |-> i]
         /\ t[p].c = "body" => k = "post"
  BY <1>4, <1>5, <1>6, <1>7
<1>12. QED
  BY <1>2, <1>4, <1>5, <1>7, <1>8, <1>9, <1>10, <1>11 DEF Spelled, q, t

-----------------------------------------------------------------------------
(* Text that has been sent and not been parsed: K are the requests sent.   *)

\* It keeps to the grammar, and ends where a request does.
Grammar(X) ==
  /\ \A i \in 1 .. Len(X) - 1 : Follows(X[i].c, X[i + 1].c)
  /\ X # <<>> => X[Len(X)].c \in {"LF", "body"}

\* It is of requests that were sent, in their order and to the last of them,
\* and each begins with its "G".
Numbered(X, K) ==
  /\ \A i \in 1 .. Len(X) : X[i].id \in 1 .. Len(K)
  /\ X # <<>> => X[Len(X)].id = Len(K)
  /\ \A i, j \in 1 .. Len(X) : i <= j => X[i].id <= X[j].id
  /\ \A i, j \in 1 .. Len(X) :
       i <= j /\ (\A m \in i + 1 .. j : X[m].c # "G") => X[i].id = X[j].id
  /\ \A g \in 2 .. Len(X) : X[g].c = "G" => X[g].id = X[g - 1].id + 1

\* From m on, X has request i from its token a on, and then the next one.
WholeAt(X, m, K, i, a) ==
  LET t == Text(i, K[i]) IN
  /\ \A p \in a .. Len(t) : m + (p - a) <= Len(X) /\ X[m + (p - a)] = t[p]
  /\ m + (Len(t) - a) + 1 <= Len(X) => X[m + (Len(t) - a) + 1].c = "G"

\* The names of the headers of request i.
OwnNames(K, i) == {[c |-> Names(K[i])[j], id |-> i] : j \in DOMAIN Names(K[i])}

\* Its names are those of the requests, only a POST has a body, and a request
\* that begins in it is there to the end.
Contents(X, K) ==
  /\ \A i \in 1 .. Len(X) :
       /\ X[i].c \in HeaderNames => X[i] \in OwnNames(K, X[i].id)
       /\ X[i].c = "body" => K[X[i].id] \in Posts
       /\ X[i].c = "G" => WholeAt(X, i, K, X[i].id, 1)

Chain(X, K) == Grammar(X) /\ Numbered(X, K) /\ Contents(X, K)

\* All this holds of what is left when the first d tokens are gone.
LEMMA LaterText ==
  ASSUME NEW K \in Seq(AllKinds), NEW X \in Seq(Token), NEW Y \in Seq(Token),
         NEW d \in 0 .. Len(X), Len(Y) = Len(X) - d,
         \A i \in 1 .. Len(Y) : Y[i] = X[d + i],
         Chain(X, K)
  PROVE  Chain(Y, K)
<1>1. /\ Len(X) \in Nat /\ Len(Y) \in Nat /\ Len(Y) = Len(X) - d /\ d \in Nat
      /\ Len(K) \in Nat
      /\ \A i \in 1 .. Len(Y) : d + i \in 1 .. Len(X) /\ Y[i] = X[d + i]
      /\ X = <<>> <=> Len(X) = 0
      /\ Y = <<>> <=> Len(Y) = 0
  OBVIOUS
<1>2. Grammar(Y)
  <2>1. ASSUME NEW i \in 1 .. Len(Y) - 1
        PROVE  Follows(Y[i].c, Y[i + 1].c)
    <3>1. /\ Y[i] = X[d + i] /\ Y[i + 1] = X[(d + i) + 1]
          /\ d + i \in 1 .. Len(X) - 1
      BY <1>1
    <3>2. QED
      BY <3>1 DEF Chain, Grammar
  <2>2. Y # <<>> => Y[Len(Y)].c \in {"LF", "body"}
    <3>1. Y # <<>> => X # <<>> /\ Y[Len(Y)] = X[Len(X)]
      BY <1>1
    <3>2. QED
      BY <3>1 DEF Chain, Grammar
  <2>3. QED
    BY <2>1, <2>2 DEF Grammar
<1>3. Numbered(Y, K)
  <2>1. \A i \in 1 .. Len(Y) : Y[i].id \in 1 .. Len(K)
    BY <1>1 DEF Chain, Numbered
  <2>2. Y # <<>> => Y[Len(Y)].id = Len(K)
    <3>1. Y # <<>> => X # <<>> /\ Y[Len(Y)] = X[Len(X)]
      BY <1>1
    <3>2. QED
      BY <3>1 DEF Chain, Numbered
  <2>3. ASSUME NEW i \in 1 .. Len(Y), NEW j \in 1 .. Len(Y), i <= j
        PROVE  /\ Y[i].id <= Y[j].id
               /\ (\A m \in i + 1 .. j : Y[m].c # "G") => Y[i].id = Y[j].id
    <3>1. /\ Y[i] = X[d + i] /\ Y[j] = X[d + j] /\ d + i <= d + j
          /\ d + i \in 1 .. Len(X) /\ d + j \in 1 .. Len(X)
      BY <1>1, <2>3
    <3>2. ASSUME \A m \in i + 1 .. j : Y[m].c # "G"
          PROVE  \A m \in (d + i) + 1 .. d + j : X[m].c # "G"
      <4>1. SUFFICES ASSUME NEW m \in (d + i) + 1 .. d + j
                     PROVE  X[m].c # "G"
        OBVIOUS
      <4>2. /\ m - d \in i + 1 .. j /\ m - d \in 1 .. Len(Y)
            /\ d + (m - d) = m
        BY <1>1
      <4>3. QED
        BY <1>1, <3>2, <4>2
    <3> DEFINE a == d + i
               b == d + j
    <3>3. /\ X[a].id <= X[b].id
          /\ (\A m \in a + 1 .. b : X[m].c # "G") => X[a].id = X[b].id
      BY <3>1, Zenon DEF Chain, Numbered
    <3>4. Y[i] = X[a] /\ Y[j] = X[b]
      BY <3>1
    <3> HIDE DEF a, b
    <3>5. QED
      BY <3>2, <3>3, <3>4, Zenon DEF a, b
  <2>4. ASSUME NEW g \in 2 .. Len(Y), Y[g].c = "G"
        PROVE  Y[g].id = Y[g - 1].id + 1
    <3>1. /\ d + g \in 2 .. Len(X) /\ Y[g] = X[d + g]
          /\ Y[g - 1] = X[(d + g) - 1]
      <4>1. /\ g \in 1 .. Len(Y) /\ g - 1 \in 1 .. Len(Y)
            /\ d + (g - 1) = (d + g) - 1
        BY <1>1
      <4>2. Y[g] = X[d + g] /\ Y[g - 1] = X[d + (g - 1)]
        BY <1>1, <4>1, Zenon
      <4>3. d + g \in 2 .. Len(X)
        BY <1>1
      <4>4. QED
        BY <4>1, <4>2, <4>3
    <3>2. QED
      BY <2>4, <3>1 DEF Chain, Numbered
  <2>5. QED
    BY <2>1, <2>2, <2>3, <2>4 DEF Numbered
<1>4. Contents(Y, K)
  <2>1. SUFFICES ASSUME NEW i \in 1 .. Len(Y)
                 PROVE  /\ Y[i].c \in HeaderNames => Y[i] \in OwnNames(K, Y[i].id)
                        /\ Y[i].c = "body" => K[Y[i].id] \in Posts
                        /\ Y[i].c = "G" => WholeAt(Y, i, K, Y[i].id, 1)
    BY DEF Contents
  <2>2. Y[i] = X[d + i] /\ d + i \in 1 .. Len(X)
    BY <1>1
  <2>3. ASSUME Y[i].c = "G"
        PROVE  WholeAt(Y, i, K, Y[i].id, 1)
    <3> DEFINE t == Text(Y[i].id, K[Y[i].id])
    <3>1. WholeAt(X, d + i, K, Y[i].id, 1)
      BY <2>2, <2>3 DEF Chain, Contents
    <3>2. /\ \A p \in 1 .. Len(t) :
               d + i + (p - 1) <= Len(X) /\ X[d + i + (p - 1)] = t[p]
          /\ d + i + (Len(t) - 1) + 1 <= Len(X) =>
               X[d + i + (Len(t) - 1) + 1].c = "G"
      BY <3>1 DEF WholeAt
    <3>3. Len(t) \in Nat
      <4>1. Y[i].id \in 1 .. MaxRequests
        <5>1. Y[i] \in Token
          OBVIOUS
        <5>2. QED
          BY <5>1 DEF Token
      <4>2. Y[i].id \in 1 .. Len(K)
        BY <1>3 DEF Numbered
      <4>3. K[Y[i].id] \in AllKinds
        BY <4>2
      <4>4. QED
        BY <4>1, <4>3, TextGrammar DEF Spelled
    <3> HIDE DEF t
    <3>4. \A p \in 1 .. Len(t) : i + (p - 1) <= Len(Y) /\ Y[i + (p - 1)] = t[p]
      <4>1. SUFFICES ASSUME NEW p \in 1 .. Len(t)
                     PROVE  i + (p - 1) <= Len(Y) /\ Y[i + (p - 1)] = t[p]
        OBVIOUS
      <4>2. d + i + (p - 1) <= Len(X) /\ X[d + i + (p - 1)] = t[p]
        BY <3>2
      <4>3. i + (p - 1) \in 1 .. Len(Y) /\ d + (i + (p - 1)) = d + i + (p - 1)
        BY <1>1, <3>3, <4>2
      <4>4. Y[i + (p - 1)] = X[d + (i + (p - 1))]
        BY <1>1, <4>3, Zenon
      <4>5. i + (p - 1) <= Len(Y)
        BY <4>3
      <4>6. QED
        BY <4>2, <4>3, <4>4, <4>5, Zenon
    <3>5. ASSUME i + (Len(t) - 1) + 1 <= Len(Y)
          PROVE  Y[i + (Len(t) - 1) + 1].c = "G"
      <4>1. /\ i + (Len(t) - 1) + 1 \in 1 .. Len(Y)
            /\ d + (i + (Len(t) - 1) + 1) = d + i + (Len(t) - 1) + 1
            /\ d + i + (Len(t) - 1) + 1 <= Len(X)
        BY <1>1, <3>3, <3>5
      <4>2. QED
        BY <1>1, <3>2, <4>1
    <3>6. QED
      BY <3>4, <3>5 DEF WholeAt, t
  <2>4. QED
    BY <2>2, <2>3 DEF Chain, Contents
<1>5. QED
  BY <1>2, <1>3, <1>4 DEF Chain

\* And it holds still when another request has been sent.
LEMMA MoreText ==
  ASSUME NEW K \in Seq(AllKinds), NEW k \in AllKinds, NEW X \in Seq(Token),
         Len(K) + 1 <= MaxRequests, Chain(X, K)
  PROVE  Chain(X \o Text(Len(K) + 1, k), Append(K, k))
<1> DEFINE n == Len(K) + 1
           t == Text(n, k)
           Y == X \o t
           L == Append(K, k)
<1>1. n \in 1 .. MaxRequests /\ n \in Nat /\ Len(K) \in Nat /\ n = Len(K) + 1
  BY SessionAssumption
<1> HIDE DEF n
<1>0. Spelled(t, n, k)
  BY <1>1, TextGrammar
<1> HIDE DEF t
<1>2. /\ t \in Seq(Token) /\ Len(t) >= 6
      /\ \A p \in 1 .. Len(t) : t[p].id = n
      /\ t[1].c = "G" /\ t[Len(t)].c \in {"LF", "body"}
      /\ \A p \in 1 .. Len(t) - 1 : Follows(t[p].c, t[p + 1].c)
      /\ \A p \in 2 .. Len(t) : t[p].c # "G"
      /\ \A p \in 1 .. Len(t) :
           /\ t[p].c \in HeaderNames =>
                \E j \in DOMAIN Names(k) : t[p] = [c |-> Names(k)[j], id |-> n]
           /\ t[p].c = "body" => k = "post"
  BY <1>0 DEF Spelled
<1>3. /\ t \in Seq(Token) /\ Len(t) \in Nat /\ Len(t) >= 6 /\ Len(X) \in Nat
      /\ X = <<>> <=> Len(X) = 0
  BY <1>2
<1>4. /\ Y \in Seq(Token) /\ Len(Y) = Len(X) + Len(t) /\ Y # <<>>
      /\ \A i \in 1 .. Len(X) : Y[i] = X[i]
      /\ \A p \in 1 .. Len(t) : Y[Len(X) + p] = t[p]
  <2>1. t \in Seq(Token)
    BY <1>2
  <2>2. Y \in Seq(Token)
    BY <2>1
  <2>3. Len(Y) = Len(X) + Len(t)
    BY <2>1
  <2>4. \A i \in 1 .. Len(X) : Y[i] = X[i]
    BY <2>1
  <2>5. \A p \in 1 .. Len(t) : Y[Len(X) + p] = t[p]
    BY <2>1
  <2> HIDE DEF Y
  <2>6. Y # <<>>
    BY <1>3, <2>2, <2>3
  <2>7. QED
    BY <2>2, <2>3, <2>4, <2>5, <2>6
<1>5. /\ L \in Seq(AllKinds) /\ Len(L) = n /\ L[n] = k
      /\ \A i \in 1 .. Len(K) : L[i] = K[i]
  BY <1>1
<1> SUFFICES Chain(Y, L)
  BY DEF n, t
<1> HIDE DEF Y, L
<1>6. \A i \in 1 .. Len(Y) : \/ i \in 1 .. Len(X)
                             \/ /\ i - Len(X) \in 1 .. Len(t)
                                /\ Y[i] = t[i - Len(X)] /\ Y[i].id = n
  <2>1. SUFFICES ASSUME NEW i \in 1 .. Len(Y), i \notin 1 .. Len(X)
                 PROVE  /\ i - Len(X) \in 1 .. Len(t)
                        /\ Y[i] = t[i - Len(X)] /\ Y[i].id = n
    OBVIOUS
  <2>2. i - Len(X) \in 1 .. Len(t) /\ Len(X) + (i - Len(X)) = i
    BY <1>3, <1>4, <2>1
  <2>3. Y[i] = t[i - Len(X)]
    BY <1>4, <2>2
  <2>4. QED
    BY <1>2, <2>2, <2>3
<1>7. Y[Len(X) + 1].c = "G" /\ Len(X) + 1 \in 1 .. Len(Y)
  <2>1. 1 \in 1 .. Len(t)
    BY <1>3
  <2>2. Y[Len(X) + 1] = t[1]
    BY <1>4, <2>1
  <2>3. QED
    BY <1>2, <1>3, <1>4, <2>2
<1>8. Grammar(Y)
  <2>1. ASSUME NEW i \in 1 .. Len(Y) - 1
        PROVE  Follows(Y[i].c, Y[i + 1].c)
    <3>1. CASE i + 1 <= Len(X)
      <4>1. Y[i] = X[i] /\ Y[i + 1] = X[i + 1] /\ i \in 1 .. Len(X) - 1
        BY <1>3, <1>4, <3>1
      <4>2. QED
        BY <4>1 DEF Chain, Grammar
    <3>2. CASE i = Len(X)
      <4>1. Y[i] = X[Len(X)] /\ X # <<>>
        BY <1>3, <1>4, <3>2
      <4>2. X[Len(X)].c \in {"LF", "body"}
        BY <4>1 DEF Chain, Grammar
      <4>3. Y[i + 1].c = "G"
        BY <1>7, <3>2
      <4>4. QED
        BY <4>1, <4>2, <4>3 DEF Follows
    <3>3. CASE i > Len(X)
      <4> DEFINE p == i - Len(X)
      <4>1. p \in 1 .. Len(t) - 1 /\ p + 1 = (i + 1) - Len(X)
            /\ i \in 1 .. Len(Y) /\ i + 1 \in 1 .. Len(Y)
            /\ i \notin 1 .. Len(X) /\ i + 1 \notin 1 .. Len(X)
        BY <1>3, <1>4, <3>3
      <4>2. Y[i] = t[p] /\ Y[i + 1] = t[p + 1]
        BY <1>6, <4>1
      <4> HIDE DEF p
      <4>3. QED
        BY <1>2, <4>1, <4>2
    <3>4. QED
      BY <1>3, <3>1, <3>2, <3>3
  <2>2. Y[Len(Y)].c \in {"LF", "body"}
    <3>1. Len(t) \in 1 .. Len(t)
      BY <1>3
    <3>2. Y[Len(Y)] = t[Len(t)]
      BY <1>4, <3>1
    <3>3. QED
      BY <1>2, <3>2
  <2>3. QED
    BY <2>1, <2>2 DEF Grammar
<1>9. Numbered(Y, L)
  <2>1. \A i \in 1 .. Len(X) : X[i].id \in 1 .. Len(K)
    BY DEF Chain, Numbered
  <2>2. \A i \in 1 .. Len(Y) : Y[i].id \in 1 .. Len(L)
    BY <1>1, <1>4, <1>5, <1>6, <2>1
  <2>3. Y[Len(Y)].id = Len(L)
    <3>1. Len(Y) \in 1 .. Len(Y) /\ Len(Y) \notin 1 .. Len(X)
      BY <1>3, <1>4
    <3>2. QED
      BY <1>5, <1>6, <3>1
  <2>4. ASSUME NEW i \in 1 .. Len(Y), NEW j \in 1 .. Len(Y), i <= j
        PROVE  /\ Y[i].id <= Y[j].id
               /\ (\A m \in i + 1 .. j : Y[m].c # "G") => Y[i].id = Y[j].id
    <3>1. CASE j \in 1 .. Len(X)
      <4>1. i \in 1 .. Len(X) /\ Y[i] = X[i] /\ Y[j] = X[j]
        BY <1>3, <1>4, <2>4, <3>1
      <4>2. \A m \in i + 1 .. j : Y[m] = X[m]
        <5>1. \A m \in i + 1 .. j : m \in 1 .. Len(X)
          BY <1>3, <3>1
        <5>2. QED
          BY <1>4, <5>1, Zenon
      <4>3. /\ X[i].id <= X[j].id
            /\ (\A m \in i + 1 .. j : X[m].c # "G") => X[i].id = X[j].id
        BY <2>4, <3>1, <4>1, Zenon DEF Chain, Numbered
      <4>4. QED
        BY <4>1, <4>2, <4>3
    <3>2. CASE i \in 1 .. Len(X) /\ j \notin 1 .. Len(X)
      <4>1. Y[j].id = n /\ Y[i].id \in 1 .. Len(K)
        BY <1>4, <1>6, <2>1, <3>2
      <4>2. Len(X) + 1 \in i + 1 .. j
        BY <1>3, <3>2
      <4>3. QED
        BY <1>1, <1>7, <4>1, <4>2
    <3>3. CASE i \notin 1 .. Len(X)
      <4>1. j \notin 1 .. Len(X)
        BY <1>3, <2>4, <3>3
      <4>2. Y[i].id = n /\ Y[j].id = n
        BY <1>6, <3>3, <4>1
      <4>3. QED
        BY <1>1, <4>2
    <3>4. QED
      BY <3>1, <3>2, <3>3, Zenon
  <2>5. ASSUME NEW g \in 2 .. Len(Y), Y[g].c = "G"
        PROVE  Y[g].id = Y[g - 1].id + 1
    <3>1. CASE g \in 1 .. Len(X)
      <4>1. g \in 2 .. Len(X) /\ Y[g] = X[g] /\ Y[g - 1] = X[g - 1]
        <5>1. g \in 2 .. Len(X) /\ g - 1 \in 1 .. Len(X)
          BY <1>3, <3>1
        <5>2. QED
          BY <1>4, <3>1, <5>1, Zenon
      <4>2. QED
        BY <2>5, <4>1 DEF Chain, Numbered
    <3>2. CASE g = Len(X) + 1
      <4>1. X # <<>> /\ Y[g - 1] = X[Len(X)]
        <5>1. Len(X) \in 1 .. Len(X) /\ g - 1 = Len(X) /\ Len(X) # 0
          BY <1>3, <3>2
        <5>2. QED
          BY <1>3, <1>4, <5>1, Zenon
      <4>2. Y[g - 1].id = Len(K)
        BY <4>1 DEF Chain, Numbered
      <4>3. Y[g].id = n
        BY <1>3, <1>6, <1>7, <3>2
      <4>4. QED
        BY <1>1, <4>2, <4>3
    <3>3. CASE g > Len(X) + 1
      <4>1. g \notin 1 .. Len(X) /\ g \in 1 .. Len(Y)
            /\ g - Len(X) \in 2 .. Len(t)
        BY <1>3, <1>4, <3>3
      <4>2. Y[g] = t[g - Len(X)]
        BY <1>6, <4>1
      <4>3. QED
        BY <1>2, <2>5, <4>1, <4>2
    <3>4. QED
      BY <1>3, <3>1, <3>2, <3>3
  <2>6. QED
    BY <2>2, <2>3, <2>4, <2>5 DEF Numbered
<1>10. ASSUME NEW i \in 1 .. Len(X)
       PROVE  /\ X[i].c \in HeaderNames => X[i] \in OwnNames(L, X[i].id)
              /\ X[i].c = "body" => L[X[i].id] \in Posts
              /\ X[i].c = "G" => WholeAt(Y, i, L, X[i].id, 1)
  <2>1. L[X[i].id] = K[X[i].id] /\ X[i].id \in 1 .. Len(K)
    BY <1>5 DEF Chain, Numbered
  <2>2. OwnNames(L, X[i].id) = OwnNames(K, X[i].id)
    BY <2>1 DEF OwnNames
  <2>3. ASSUME X[i].c = "G"
        PROVE  WholeAt(Y, i, L, X[i].id, 1)
    <3> DEFINE s == Text(X[i].id, K[X[i].id])
    <3>1. WholeAt(X, i, K, X[i].id, 1)
      BY <2>3 DEF Chain, Contents
    <3>2. /\ \A p \in 1 .. Len(s) :
               i + (p - 1) <= Len(X) /\ X[i + (p - 1)] = s[p]
          /\ i + (Len(s) - 1) + 1 <= Len(X) =>
               X[i + (Len(s) - 1) + 1].c = "G"
      BY <3>1 DEF WholeAt
    <3>3. s = Text(X[i].id, L[X[i].id])
      BY <2>1
    <3>4. Len(s) \in Nat /\ Len(s) >= 6
      <4>1. X[i] \in Token /\ K[X[i].id] \in AllKinds
        BY <2>1
      <4>2. X[i].id \in 1 .. MaxRequests
        BY <4>1 DEF Token
      <4>3. QED
        BY <4>1, <4>2, TextGrammar, SMTT(30) DEF Spelled
    <3> HIDE DEF s
    <3>5. \A p \in 1 .. Len(s) : i + (p - 1) <= Len(Y) /\ Y[i + (p - 1)] = s[p]
      <4>1. SUFFICES ASSUME NEW p \in 1 .. Len(s)
                     PROVE  i + (p - 1) <= Len(Y) /\ Y[i + (p - 1)] = s[p]
        OBVIOUS
      <4>2. i + (p - 1) <= Len(X) /\ X[i + (p - 1)] = s[p]
        BY <3>2
      <4>3. i + (p - 1) \in 1 .. Len(X) /\ i + (p - 1) <= Len(Y)
        BY <1>3, <1>4, <3>4, <4>2
      <4>4. Y[i + (p - 1)] = X[i + (p - 1)]
        BY <1>4, <4>3, Zenon
      <4>5. QED
        BY <4>2, <4>3, <4>4, Zenon
    <3>6. ASSUME i + (Len(s) - 1) + 1 <= Len(Y)
          PROVE  Y[i + (Len(s) - 1) + 1].c = "G"
      <4> DEFINE e == i + (Len(s) - 1) + 1
      <4>1. e - 1 <= Len(X) /\ e \in Nat /\ e >= 1
        <5>1. Len(s) \in 1 .. Len(s) /\ i + (Len(s) - 1) = e - 1
          BY <3>4
        <5>2. i + (Len(s) - 1) <= Len(X)
          BY <3>2, <5>1
        <5>3. QED
          BY <3>4, <5>1, <5>2
      <4>2. e <= Len(X) => X[e].c = "G"
        BY <3>2
      <4> HIDE DEF e
      <4>3. CASE e <= Len(X)
        BY <1>4, <4>1, <4>2, <4>3 DEF e
      <4>4. CASE e > Len(X)
        <5>1. e = Len(X) + 1
          BY <1>3, <4>1, <4>4, SMTT(30)
        <5>2. QED
          BY <1>7, <5>1 DEF e
      <4>5. QED
        BY <1>3, <4>1, <4>3, <4>4
    <3>7. QED
      BY <3>3, <3>5, <3>6 DEF WholeAt
  <2>4. QED
    BY <2>1, <2>2, <2>3 DEF Chain, Contents
<1>11. ASSUME NEW i \in 1 .. Len(Y), i \notin 1 .. Len(X)
       PROVE  /\ Y[i].c \in HeaderNames => Y[i] \in OwnNames(L, Y[i].id)
              /\ Y[i].c = "body" => L[Y[i].id] \in Posts
              /\ Y[i].c = "G" => WholeAt(Y, i, L, Y[i].id, 1)
  <2> DEFINE p == i - Len(X)
  <2>1. p \in 1 .. Len(t) /\ Y[i] = t[p] /\ Y[i].id = n
    BY <1>6, <1>11
  <2> HIDE DEF p
  <2>2. Y[i].c \in HeaderNames => Y[i] \in OwnNames(L, Y[i].id)
    <3>1. SUFFICES ASSUME t[p].c \in HeaderNames
                   PROVE  t[p] \in OwnNames(L, n)
      BY <2>1
    <3>2. \E j \in DOMAIN Names(k) : t[p] = [c |-> Names(k)[j], id |-> n]
      BY <1>2, <2>1, <3>1, Zenon
    <3>3. QED
      BY <1>5, <3>2 DEF OwnNames
  <2>3. Y[i].c = "body" => L[Y[i].id] \in Posts
    <3>1. Y[i].c = "body" => k = "post"
      BY <1>2, <2>1, Zenon
    <3>2. QED
      BY <1>5, <2>1, <3>1 DEF Posts
  <2>4. ASSUME Y[i].c = "G"
        PROVE  WholeAt(Y, i, L, Y[i].id, 1)
    <3>1. i = Len(X) + 1
      <4>1. p \notin 2 .. Len(t)
        BY <1>2, <2>1, <2>4
      <4>2. p = 1
        BY <1>3, <2>1, <4>1
      <4>3. QED
        BY <1>3, <4>2 DEF p
    <3>2. Text(Y[i].id, L[Y[i].id]) = t
      BY <1>5, <2>1 DEF t
    <3>3. \A m \in 1 .. Len(t) : i + (m - 1) <= Len(Y) /\ Y[i + (m - 1)] = t[m]
      <4>1. SUFFICES ASSUME NEW m \in 1 .. Len(t)
                     PROVE  i + (m - 1) <= Len(Y) /\ Y[i + (m - 1)] = t[m]
        OBVIOUS
      <4>2. i + (m - 1) = Len(X) + m /\ Len(X) + m <= Len(Y)
        BY <1>3, <1>4, <3>1
      <4>3. QED
        BY <1>4, <4>2
    <3>4. ~(i + (Len(t) - 1) + 1 <= Len(Y))
      BY <1>3, <1>4, <3>1
    <3>5. QED
      BY <3>2, <3>3, <3>4 DEF WholeAt
  <2>5. QED
    BY <2>2, <2>3, <2>4
<1>12. Contents(Y, L)
  <2>1. SUFFICES ASSUME NEW i \in 1 .. Len(Y)
                 PROVE  /\ Y[i].c \in HeaderNames => Y[i] \in OwnNames(L, Y[i].id)
                        /\ Y[i].c = "body" => L[Y[i].id] \in Posts
                        /\ Y[i].c = "G" => WholeAt(Y, i, L, Y[i].id, 1)
    BY DEF Contents
  <2>2. CASE i \in 1 .. Len(X)
    <3>1. Y[i] = X[i]
      BY <1>4, <2>2
    <3>2. QED
      BY <1>10, <2>2, <3>1
  <2>3. QED
    BY <1>11, <2>2, Zenon
<1>13. QED
  BY <1>8, <1>9, <1>12 DEF Chain

-----------------------------------------------------------------------------
(* What the parser expects of the text that is left.                       *)

\* It looks for the request line of request k: that one is the first there is,
\* or has not been sent, and what is left of earlier ones has no body.
Due(X, K, k) ==
  /\ k <= Len(K) => \E i \in 1 .. Len(X) : X[i].c = "CR"
  /\ k > Len(K) => \A i \in 1 .. Len(X) : X[i].c # "G"
  /\ \A g \in 1 .. Len(X) :
       X[g].c = "G" /\ (\A j \in 1 .. g - 1 : X[j].c # "CR") => X[g].id = k
  /\ \A i \in 1 .. Len(X) : X[i].id < k => K[X[i].id] \notin Posts

\* The line from m on has a name, perhaps behind the line end before it.
NamedLine(X, m) ==
  \/ X[m].c \in HeaderNames
  \/ m + 1 <= Len(X) /\ X[m + 1].c \in HeaderNames

LineStarts == HeaderNames \cup {"LF", "body"}

\* It is at the headers of request k and will find its blank line: it starts
\* over with a line of them, and a value it still looks for is there.
Under(X, K, k, h) ==
  /\ h # "H_END_LF" /\ X # <<>>
  /\ X[1].c \in LineStarts /\ X[1].id = k
  /\ h \in {"H_SPACES_AFTER_COLON", "H_VALUE"} => NamedLine(X, 1)

\* It takes a request line for a header, and will fail.
Stuck(X, h) ==
  \E g \in 1 .. Len(X) :
    /\ X[g].c = "G"
    /\ \/ h = "H_START" /\ \A j \in 1 .. g - 1 : X[j].c = "LF"
       \/ h = "H_KEY" /\ g = 1

\* parseURI splits its text at the first CR, and looks for the method before
\* it; without a CR it looks everywhere, and takes nothing away.
LEMMA UriShape ==
  ASSUME NEW str \in Seq(Token)
  PROVE  \E pos \in 0 .. Len(str) :
           /\ pos = 0 => \A i \in 1 .. Len(str) : str[i].c # "CR"
           /\ pos # 0 => /\ str[pos].c = "CR"
                         /\ \A i \in 1 .. pos - 1 : str[i].c # "CR"
           /\ parseURI(str).str = SubSeq(str, pos + 1, Len(str))
           /\ parseURI(str).success =>
                \E g \in 1 .. Len(str) - 1 :
                  /\ pos # 0 => g + 1 < pos
                  /\ str[g].c = "G" /\ str[g + 1].c = "line"
                  /\ parseURI(str).id = str[g].id
           /\ \A g \in 1 .. Len(str) - 1 :
                /\ pos # 0 => g + 1 < pos
                /\ str[g].c = "G" /\ str[g + 1].c = "line"
                => parseURI(str).success
<1> DEFINE I == {i \in 1 .. Len(str) : str[i].c = "CR"}
           pos == SelectInSeq(str, LAMBDA t : t.c = "CR")
           line == IF pos = 0 THEN str ELSE SubSeq(str, 1, pos - 1)
           at == {n \in DOMAIN line : MethodAt(line, n)}
<1>1. /\ pos \in 0 .. Len(str)
      /\ pos = 0 => \A i \in 1 .. Len(str) : str[i].c # "CR"
      /\ pos # 0 => /\ str[pos].c = "CR"
                    /\ \A i \in 1 .. pos - 1 : str[i].c # "CR"
  <2>1. pos = IF I # {} THEN Min(I) ELSE 0
    BY DEF SelectInSeq
  <2>2. ASSUME I # {}
        PROVE  Min(I) \in I /\ \A y \in I : Min(I) <= y
    <3>1. \E x \in I : \A y \in I : x <= y
      <4>1. I \in SUBSET Nat /\ I # {}
        BY <2>2
      <4> HIDE DEF I
      <4>2. QED
        BY <4>1, LeastNumber
    <3>2. QED
      BY <3>1 DEF Min
  <2>3. CASE I = {}
    BY <2>1, <2>3
  <2>4. CASE I # {}
    <3>1. pos \in I /\ \A y \in I : pos <= y
      BY <2>1, <2>2, <2>4
    <3> HIDE DEF pos
    <3>2. \A i \in 1 .. pos - 1 : i \in 1 .. Len(str) /\ ~(pos <= i)
      BY <3>1
    <3>3. QED
      BY <3>1, <3>2
  <2>5. QED
    BY <2>3, <2>4
<1> HIDE DEF pos
<1>2. /\ line \in Seq(Token)
      /\ Len(line) = IF pos = 0 THEN Len(str) ELSE pos - 1
      /\ \A i \in 1 .. Len(line) : line[i] = str[i]
  BY <1>1
<1>3. parseURI(str).str = SubSeq(str, pos + 1, Len(str))
  BY DEF parseURI, pos
<1>4. parseURI(str).success = (at # {})
  BY DEF parseURI, pos
<1>5. parseURI(str).id = IF at = {} THEN 0 ELSE line[CHOOSE n \in at : TRUE].id
  BY DEF parseURI, pos
<1> HIDE DEF line
<1>6. ASSUME at # {}
      PROVE  \E g \in 1 .. Len(str) - 1 :
               /\ pos # 0 => g + 1 < pos
               /\ str[g].c = "G" /\ str[g + 1].c = "line"
               /\ parseURI(str).id = str[g].id
  <2> DEFINE g == CHOOSE n \in at : TRUE
  <2>1. g \in at /\ parseURI(str).id = line[g].id
    BY <1>5, <1>6
  <2> HIDE DEF g
  <2>2. /\ g \in 1 .. Len(line) /\ g < Len(line)
        /\ line[g].c = "G" /\ line[g + 1].c = "line"
    BY <1>2, <2>1 DEF MethodAt
  <2>3. /\ g + 1 \in 1 .. Len(line) /\ g \in 1 .. Len(str) - 1
        /\ pos # 0 => g + 1 < pos
    BY <1>1, <1>2, <2>2
  <2>4. line[g] = str[g] /\ line[g + 1] = str[g + 1]
    BY <1>2, <2>2, <2>3
  <2>5. QED
    BY <2>1, <2>2, <2>3, <2>4
<1>7. ASSUME NEW g \in 1 .. Len(str) - 1, pos # 0 => g + 1 < pos,
             str[g].c = "G", str[g + 1].c = "line"
      PROVE  at # {}
  <2>1. g \in 1 .. Len(line) /\ g + 1 \in 1 .. Len(line) /\ g < Len(line)
    BY <1>1, <1>2, <1>7
  <2>2. line[g].c = "G" /\ line[g + 1].c = "line"
    BY <1>2, <1>7, <2>1
  <2>3. DOMAIN line = 1 .. Len(line)
    BY <1>2
  <2>4. g \in at
    BY <2>1, <2>2, <2>3 DEF MethodAt
  <2>5. QED
    BY <2>4
<1> HIDE DEF at
<1>8. QED
  BY <1>1, <1>3, <1>4, <1>6, <1>7

\* Y is what is left of X when its first d tokens are gone.
Later(X, Y, d) ==
  d \in 0 .. Len(X) /\ Len(Y) = Len(X) - d /\ \A i \in 1 .. Len(Y) : Y[i] = X[d + i]

\* So it is when they are taken from the buffer before what follows it.
LEMMA TakenAway ==
  ASSUME NEW str \in Seq(Token), NEW rest \in Seq(Token), NEW d \in 0 .. Len(str)
  PROVE  LET X == str \o rest
             Y == SubSeq(str, d + 1, Len(str)) \o rest
         IN /\ X \in Seq(Token) /\ Y \in Seq(Token) /\ Later(X, Y, d)
            /\ Len(X) = Len(str) + Len(rest)
            /\ \A i \in 1 .. Len(str) : X[i] = str[i]
<1> DEFINE X == str \o rest
           u == SubSeq(str, d + 1, Len(str))
           Y == u \o rest
<1>1. u \in Seq(Token) /\ Len(u) = Len(str) - d
  OBVIOUS
<1>2. \A i \in 1 .. Len(u) : u[i] = str[d + i]
  OBVIOUS
<1> HIDE DEF u
<1>3. X \in Seq(Token) /\ Len(X) = Len(str) + Len(rest)
  OBVIOUS
<1>4. Y \in Seq(Token) /\ Len(Y) = Len(u) + Len(rest)
  BY <1>1
<1>5. \A i \in 1 .. Len(str) : X[i] = str[i]
  OBVIOUS
<1>6. \A i \in 1 .. Len(rest) : X[Len(str) + i] = rest[i]
  OBVIOUS
<1>7. \A i \in 1 .. Len(u) : Y[i] = u[i]
  BY <1>1
<1>8. \A i \in 1 .. Len(rest) : Y[Len(u) + i] = rest[i]
  BY <1>1
<1> HIDE DEF X, Y
<1>9. Len(str) \in Nat /\ Len(rest) \in Nat
  OBVIOUS
<1>10. ASSUME NEW i \in 1 .. Len(Y)
       PROVE  Y[i] = X[d + i]
  <2>1. CASE i \in 1 .. Len(u)
    <3>1. d + i \in 1 .. Len(str)
      BY <1>1, <1>9, <2>1
    <3>2. QED
      BY <1>2, <1>5, <1>7, <2>1, <3>1
  <2>2. CASE i \notin 1 .. Len(u)
    <3>1. i - Len(u) \in 1 .. Len(rest)
      BY <1>1, <1>4, <1>9, <2>2
    <3>2. /\ Y[Len(u) + (i - Len(u))] = rest[i - Len(u)]
          /\ X[Len(str) + (i - Len(u))] = rest[i - Len(u)]
      BY <1>6, <1>8, <3>1
    <3>3. Len(u) + (i - Len(u)) = i /\ Len(str) + (i - Len(u)) = d + i
      BY <1>1, <1>9
    <3>4. QED
      BY <3>2, <3>3
  <2>3. QED
    BY <2>1, <2>2
<1>11. Later(X, Y, d)
  BY <1>1, <1>3, <1>4, <1>9, <1>10 DEF Later
<1>12. QED
  BY <1>3, <1>4, <1>5, <1>11 DEF X, Y, u

\* A request line is there as a whole, and the line end behind it.
LEMMA RequestLine ==
  ASSUME NEW K, NEW X \in Seq(Token), Chain(X, K),
         NEW g \in 1 .. Len(X), X[g].c = "G"
  PROVE  /\ g + 3 \in 1 .. Len(X)
         /\ X[g + 1].c = "line" /\ X[g + 2].c = "CR" /\ X[g + 3].c = "LF"
         /\ X[g + 1].id = X[g].id /\ X[g + 2].id = X[g].id
         /\ X[g + 3].id = X[g].id
<1>1. /\ Len(X) \in Nat /\ X # <<>> /\ X[Len(X)].c \in {"LF", "body"}
      /\ \A i \in 1 .. Len(X) - 1 : Follows(X[i].c, X[i + 1].c)
  BY DEF Chain, Grammar
<1>2. /\ \A d : Follows("G", d) => d = "line"
      /\ \A d : Follows("line", d) => d = "CR"
      /\ \A d : Follows("CR", d) => d = "LF"
  BY DEF Follows, HeaderNames
<1>3. g # Len(X) /\ g + 1 \in 1 .. Len(X) /\ X[g + 1].c = "line"
  BY <1>1, <1>2
<1>4. g + 2 \in 1 .. Len(X) /\ X[g + 2].c = "CR"
  BY <1>1, <1>2, <1>3
<1>5. g + 3 \in 1 .. Len(X) /\ X[g + 3].c = "LF"
  BY <1>1, <1>2, <1>4
<1>6. \A i, j \in 1 .. Len(X) :
        i <= j /\ (\A m \in i + 1 .. j : X[m].c # "G") => X[i].id = X[j].id
  BY DEF Chain, Numbered
<1>7. \A m \in g + 1 .. g + 3 : X[m].c # "G"
  <2>1. \A m \in g + 1 .. g + 3 : m = g + 1 \/ m = g + 2 \/ m = g + 3
    OBVIOUS
  <2>2. QED
    BY <1>3, <1>4, <1>5, <2>1
<1>8. X[g].id = X[g + 1].id /\ X[g].id = X[g + 2].id /\ X[g].id = X[g + 3].id
  <2>1. ASSUME NEW m \in {g + 1, g + 2, g + 3}
        PROVE  X[g].id = X[m].id
    <3>1. m \in 1 .. Len(X) /\ g <= m /\ \A a \in g + 1 .. m : a \in g + 1 .. g + 3
      BY <1>3, <1>4, <1>5
    <3>2. QED
      BY <1>6, <1>7, <3>1
  <2>2. QED
    BY <2>1
<1>9. QED
  BY <1>3, <1>4, <1>5, <1>8

\* What comes before a request line, or before a line end.
LEMMA LineBefore ==
  ASSUME NEW K, NEW X \in Seq(Token), Chain(X, K), NEW i \in 2 .. Len(X)
  PROVE  /\ X[i].c = "G" => X[i - 1].c \in {"LF", "body"}
         /\ X[i].c = "LF" => X[i - 1].c = "CR"
         /\ X[i].c = "G" => X[i].id = X[i - 1].id + 1
<1>1. Follows(X[i - 1].c, X[(i - 1) + 1].c)
  BY DEF Chain, Grammar
<1>2. X[(i - 1) + 1] = X[i]
  OBVIOUS
<1>3. Follows(X[i - 1].c, X[i].c)
  BY <1>1, <1>2
<1>4. X[i].c = "G" => X[i].id = X[i - 1].id + 1
  BY DEF Chain, Numbered
<1>5. QED
  BY <1>3, <1>4 DEF Follows, HeaderNames

\* A request line that is found is that of the request that is due.  When it is
\* complete the parser goes on behind it; else it stays, and the parser, which
\* takes it for the headers' text, is stuck.
LEMMA UriTurn ==
  ASSUME NEW K \in Seq(AllKinds), NEW k \in 1 .. Len(K) + 1,
         NEW str \in Seq(Token), NEW rest \in Seq(Token),
         Chain(str \o rest, K), Due(str \o rest, K, k),
         parseURI(str).success
  PROVE  LET Y == parseURI(str).str \o rest IN
         /\ Y \in Seq(Token) /\ Chain(Y, K)
         /\ k <= Len(K) /\ parseURI(str).id = k
         /\ Under(Y, K, k, "H_START") \/ Stuck(Y, "H_START")
<1> DEFINE X == str \o rest
           Y == parseURI(str).str \o rest
<1>1. PICK pos \in 0 .. Len(str) :
        /\ pos = 0 => \A i \in 1 .. Len(str) : str[i].c # "CR"
        /\ pos # 0 => /\ str[pos].c = "CR"
                      /\ \A i \in 1 .. pos - 1 : str[i].c # "CR"
        /\ parseURI(str).str = SubSeq(str, pos + 1, Len(str))
        /\ \E g \in 1 .. Len(str) - 1 :
             /\ pos # 0 => g + 1 < pos
             /\ str[g].c = "G" /\ str[g + 1].c = "line"
             /\ parseURI(str).id = str[g].id
  BY UriShape
<1>2. PICK g \in 1 .. Len(str) - 1 :
        /\ pos # 0 => g + 1 < pos
        /\ str[g].c = "G" /\ str[g + 1].c = "line"
        /\ parseURI(str).id = str[g].id
  BY <1>1
<1>3. /\ X \in Seq(Token) /\ Y \in Seq(Token) /\ Later(X, Y, pos)
      /\ Len(X) = Len(str) + Len(rest)
      /\ \A i \in 1 .. Len(str) : X[i] = str[i]
  BY <1>1, TakenAway
<1>4. /\ Chain(X, K) /\ Due(X, K, k)
  OBVIOUS
<1> HIDE DEF X, Y
<1>5. Len(str) \in Nat /\ Len(rest) \in Nat /\ Len(K) \in Nat
  OBVIOUS
<1>6. /\ g \in 1 .. Len(X) /\ X[g].c = "G" /\ X[g].id = parseURI(str).id
      /\ pos # 0 => pos \in 1 .. Len(X) /\ X[pos].c = "CR"
      /\ \A i \in 1 .. Len(str) : i \in 1 .. Len(X)
  <2>1. g \in 1 .. Len(str) /\ pos <= Len(str)
        /\ \A i \in 1 .. Len(str) : i \in 1 .. Len(X)
    BY <1>3, <1>5
  <2>2. X[g] = str[g] /\ (pos # 0 => pos \in 1 .. Len(str) /\ X[pos] = str[pos])
    BY <1>3, <1>5, <2>1
  <2>3. pos # 0 => str[pos].c = "CR"
    BY <1>1
  <2>4. QED
    BY <1>2, <2>1, <2>2, <2>3
<1>7. \A i \in 1 .. Len(str) : pos = 0 \/ i < pos => X[i].c # "CR"
  <2>1. ASSUME NEW i \in 1 .. Len(str), pos = 0 \/ i < pos
        PROVE  str[i].c # "CR"
    <3>1. CASE pos = 0
      BY <1>1, <3>1
    <3>2. CASE pos # 0
      <4>1. i \in 1 .. pos - 1
        BY <2>1, <3>2
      <4>2. QED
        BY <1>1, <3>2, <4>1
    <3>3. QED
      BY <3>1, <3>2
  <2>2. \A i \in 1 .. Len(str) : X[i] = str[i]
    BY <1>3
  <2>3. QED
    BY <2>1, <2>2
<1>8. X[g].id = k
  <2>1. \A j \in 1 .. g - 1 : j \in 1 .. Len(str) /\ (pos = 0 \/ j < pos)
    BY <1>2, <1>5
  <2>2. QED
    BY <1>4, <1>6, <1>7, <2>1 DEF Due
<1>9. k <= Len(K)
  BY <1>4, <1>6, <1>8 DEF Chain, Numbered
<1>10. /\ g + 3 \in 1 .. Len(X)
       /\ X[g + 2].c = "CR" /\ X[g + 3].c = "LF" /\ X[g + 3].id = k
  BY <1>3, <1>4, <1>6, <1>8, RequestLine, ZenonT(60)
<1>11. Chain(Y, K)
  BY <1>3, <1>4, LaterText DEF Later
<1>12. CASE pos # 0
  <2>1. pos = g + 2
    <3>1. pos <= g + 2
      <4>1. SUFFICES ASSUME g + 2 < pos
                     PROVE  FALSE
        BY <1>5
      <4>2. g + 2 \in 1 .. Len(str)
        BY <1>5, <4>1
      <4>3. QED
        BY <1>7, <1>10, <4>1, <4>2
    <3>2. QED
      BY <1>2, <1>5, <1>12, <3>1
  <2>2. 1 \in 1 .. Len(Y) /\ Y[1] = X[g + 3]
    BY <1>3, <1>10, <2>1 DEF Later
  <2>3. Y # <<>>
    BY <1>3, <2>2
  <2>4. Under(Y, K, k, "H_START")
    BY <1>10, <2>2, <2>3 DEF Under, LineStarts
  <2>5. QED
    BY <1>3, <1>6, <1>8, <1>9, <1>11, <2>4 DEF X, Y
<1>13. CASE pos = 0
  <2>1. Len(Y) = Len(X) /\ \A i \in 1 .. Len(Y) : Y[i] = X[i]
    BY <1>3, <1>13 DEF Later
  <2>2. ASSUME NEW j \in 1 .. g - 1
        PROVE  X[j].c = "LF"
    <3>1. g \in 2 .. Len(X) /\ g - 1 \in 1 .. Len(str)
      BY <1>5, <1>6, <2>2
    <3>2. X[g - 1].c \in {"LF", "body"} /\ X[g].id = X[g - 1].id + 1
      BY <1>3, <1>4, <1>6, <3>1, LineBefore
    <3>3. X[g - 1].c # "body"
      <4>1. X[g - 1].id \in 1 .. Len(K) /\ g - 1 \in 1 .. Len(X)
        BY <1>4, <1>6, <3>1 DEF Chain, Numbered
      <4>2. X[g - 1].id < k
        BY <1>5, <1>8, <3>2, <4>1
      <4>3. K[X[g - 1].id] \notin Posts
        BY <1>4, <4>1, <4>2 DEF Due
      <4>4. QED
        BY <1>4, <4>1, <4>3 DEF Chain, Contents
    <3>4. X[g - 1].c = "LF"
      BY <3>2, <3>3
    <3>5. g - 1 = 1
      <4>1. SUFFICES ASSUME g - 1 # 1
                     PROVE  FALSE
        OBVIOUS
      <4>2. g - 1 \in 2 .. Len(X) /\ (g - 1) - 1 \in 1 .. Len(str)
        BY <1>5, <1>6, <3>1, <4>1
      <4>3. X[(g - 1) - 1].c = "CR"
        BY <1>3, <1>4, <3>4, <4>2, LineBefore
      <4>4. QED
        BY <1>7, <1>13, <4>2, <4>3
    <3>6. j = g - 1
      BY <2>2, <3>5
    <3>7. QED
      BY <3>4, <3>6
  <2>3. Stuck(Y, "H_START")
    <3>1. g \in 1 .. Len(Y) /\ Y[g].c = "G"
      BY <1>6, <2>1
    <3>2. \A j \in 1 .. g - 1 : Y[j].c = "LF"
      BY <1>5, <1>6, <2>1, <2>2
    <3>3. QED
      BY <3>1, <3>2 DEF Stuck
  <2>4. QED
    BY <1>3, <1>6, <1>8, <1>9, <1>11, <2>3 DEF X, Y
<1>14. QED
  BY <1>12, <1>13

-----------------------------------------------------------------------------
(* The loop of parseHeaders.                                               *)

\* The loop goes on from s to r in state h, which has the names and the
\* positions of s.
GoesOn(s, r, h) ==
  /\ r.hState_ = h /\ r.notFinish /\ ~r.error
  /\ r.headers_ = s.headers_ /\ r.key_start = s.key_start
  /\ r.key_end = s.key_end /\ r.line_begin = s.line_begin

\* What a round does in each state, of a loop that has not ended.
Effect(s, r, i, c) ==
  /\ s.hState_ = "H_START" =>
       /\ c \in LineEnds => GoesOn(s, r, "H_START")
       /\ c \notin LineEnds =>
            /\ r.hState_ = "H_KEY" /\ r.notFinish /\ ~r.error
            /\ r.headers_ = s.headers_ /\ r.key_start = i /\ r.line_begin = i
  /\ s.hState_ = "H_KEY" =>
       IF c = "colon" /\ i > s.key_start
       THEN /\ r.hState_ = "H_COLON" /\ r.notFinish /\ ~r.error
            /\ r.headers_ = s.headers_ /\ r.key_start = s.key_start
            /\ r.key_end = i /\ r.line_begin = s.line_begin
       ELSE IF c \in LineEnds \cup {"colon"} THEN r.error
            ELSE GoesOn(s, r, "H_KEY")
  /\ s.hState_ = "H_COLON" =>
       IF c = "space" THEN GoesOn(s, r, "H_SPACES_AFTER_COLON") ELSE r.error
  /\ s.hState_ = "H_SPACES_AFTER_COLON" => GoesOn(s, r, "H_VALUE")
  /\ s.hState_ = "H_VALUE" =>
       GoesOn(s, r, IF c = "CR" THEN "H_CR" ELSE "H_VALUE")
  /\ s.hState_ = "H_CR" =>
       IF c = "LF"
       THEN /\ r.hState_ = "H_LF" /\ r.notFinish /\ ~r.error
            /\ r.headers_ = s.headers_ \cup NameRead(s) /\ r.line_begin = i
            /\ r.key_start = s.key_start
       ELSE r.error
  /\ s.hState_ = "H_LF" =>
       IF c = "CR" THEN GoesOn(s, r, "H_END_CR")
       ELSE /\ r.hState_ = "H_KEY" /\ r.notFinish /\ ~r.error
            /\ r.headers_ = s.headers_ /\ r.key_start = i
            /\ r.line_begin = s.line_begin
  /\ s.hState_ = "H_END_CR" =>
       IF c = "LF" THEN GoesOn(s, r, "H_END_LF") ELSE r.error
  /\ s.hState_ = "H_END_LF" =>
       /\ r.hState_ = "H_END_LF" /\ ~r.notFinish /\ ~r.error
       /\ r.headers_ = s.headers_

\* This is what it does.
LEMMA RoundEffect ==
  ASSUME NEW str \in Seq(Token), NEW i \in 1 .. Len(str),
         NEW s \in Scanned(str), s.notFinish, ~s.error
  PROVE  Round(i)[s].read = i /\ Effect(s, Round(i)[s], i, str[i].c)
<1> DEFINE t == Step(s, i)
           r == [t EXCEPT !.read = i]
           c == str[i].c
           to(state) == [s EXCEPT !.hState_ = state]
<1>1. s \in Parsing /\ s.str = str
  BY DEF Scanned
<1>2. Round(i)[s] = r
  BY <1>1 DEF Round
<1>3. t \in Parsing
  BY StepType DEF Scanned
<1>4. i \in Nat
  OBVIOUS
<1>5. /\ r.read = i /\ r.hState_ = t.hState_ /\ r.notFinish = t.notFinish
      /\ r.error = t.error /\ r.headers_ = t.headers_
      /\ r.key_start = t.key_start /\ r.key_end = t.key_end
      /\ r.line_begin = t.line_begin
  <2> HIDE DEF t
  <2>1. QED
    BY <1>3 DEF Parsing
<1>6. \A q \in ParseStates : GoesOn(s, to(q), q)
  BY <1>1 DEF GoesOn, Parsing
<1>7. Fail(s).error
  BY <1>1 DEF Fail, Parsing
<1>8. Effect(s, t, i, c)
  <2>1. CASE s.hState_ = "H_START"
    <3>1. c \in LineEnds => t = s
      BY <1>1, <2>1 DEF Step
    <3>2. c \notin LineEnds =>
            t = [to("H_KEY") EXCEPT !.key_start = i, !.line_begin = i]
      BY <1>1, <2>1 DEF Step
    <3>3. GoesOn(s, s, "H_START")
      BY <2>1 DEF GoesOn
    <3> DEFINE u == [to("H_KEY") EXCEPT !.key_start = i, !.line_begin = i]
    <3>4. /\ u.hState_ = "H_KEY" /\ u.notFinish /\ ~u.error
          /\ u.headers_ = s.headers_ /\ u.key_start = i /\ u.line_begin = i
      BY <1>1 DEF Parsing
    <3> HIDE DEF t, u
    <3>5. QED
      BY <2>1, <3>1, <3>2, <3>3, <3>4 DEF Effect, u
  <2>2. CASE s.hState_ = "H_KEY"
    <3> DEFINE u == [to("H_COLON") EXCEPT !.key_end = i]
    <3>1. t = IF c = "colon" /\ i > s.key_start THEN u
              ELSE IF c \in LineEnds \cup {"colon"} THEN Fail(s) ELSE s
      BY <1>1, <2>2 DEF Step
    <3>2. /\ u.hState_ = "H_COLON" /\ u.notFinish /\ ~u.error
          /\ u.headers_ = s.headers_ /\ u.key_start = s.key_start
          /\ u.key_end = i /\ u.line_begin = s.line_begin
      BY <1>1 DEF Parsing
    <3>3. GoesOn(s, s, "H_KEY")
      BY <2>2 DEF GoesOn
    <3> HIDE DEF t, u
    <3>4. QED
      BY <1>7, <2>2, <3>1, <3>2, <3>3 DEF Effect
  <2>3. CASE s.hState_ = "H_COLON"
    <3>1. t = IF c = "space" THEN to("H_SPACES_AFTER_COLON") ELSE Fail(s)
      BY <1>1, <2>3 DEF Step
    <3>2. GoesOn(s, to("H_SPACES_AFTER_COLON"), "H_SPACES_AFTER_COLON")
      BY <1>6 DEF ParseStates
    <3> HIDE DEF t, to
    <3>3. QED
      BY <1>7, <2>3, <3>1, <3>2 DEF Effect
  <2>4. CASE s.hState_ = "H_SPACES_AFTER_COLON"
    <3>1. t = to("H_VALUE")
      BY <1>1, <2>4 DEF Step
    <3>2. GoesOn(s, to("H_VALUE"), "H_VALUE")
      BY <1>6 DEF ParseStates
    <3> HIDE DEF t, to
    <3>3. QED
      BY <2>4, <3>1, <3>2 DEF Effect
  <2>5. CASE s.hState_ = "H_VALUE"
    <3>1. t = IF c = "CR" THEN to("H_CR") ELSE s
      BY <1>1, <2>5 DEF Step
    <3>2. GoesOn(s, to("H_CR"), "H_CR")
      BY <1>6 DEF ParseStates
    <3>3. GoesOn(s, s, "H_VALUE")
      BY <2>5 DEF GoesOn
    <3> HIDE DEF t, to
    <3>4. QED
      BY <2>5, <3>1, <3>2, <3>3 DEF Effect
  <2>6. CASE s.hState_ = "H_CR"
    <3> DEFINE u == [to("H_LF") EXCEPT !.headers_ = @ \cup NameRead(s),
                                       !.line_begin = i]
    <3>1. t = IF c = "LF" THEN u ELSE Fail(s)
      BY <1>1, <2>6 DEF Step
    <3>2. /\ u.hState_ = "H_LF" /\ u.notFinish /\ ~u.error
          /\ u.headers_ = s.headers_ \cup NameRead(s) /\ u.line_begin = i
          /\ u.key_start = s.key_start
      BY <1>1 DEF Parsing
    <3> HIDE DEF t, u
    <3>3. QED
      BY <1>7, <2>6, <3>1, <3>2 DEF Effect
  <2>7. CASE s.hState_ = "H_LF"
    <3> DEFINE u == [to("H_KEY") EXCEPT !.key_start = i]
    <3>1. t = IF c = "CR" THEN to("H_END_CR") ELSE u
      BY <1>1, <2>7 DEF Step
    <3>2. GoesOn(s, to("H_END_CR"), "H_END_CR")
      BY <1>6 DEF ParseStates
    <3>3. /\ u.hState_ = "H_KEY" /\ u.notFinish /\ ~u.error
          /\ u.headers_ = s.headers_ /\ u.key_start = i
          /\ u.line_begin = s.line_begin
      BY <1>1 DEF Parsing
    <3> HIDE DEF t, u, to
    <3>4. QED
      BY <2>7, <3>1, <3>2, <3>3 DEF Effect
  <2>8. CASE s.hState_ = "H_END_CR"
    <3>1. t = IF c = "LF" THEN to("H_END_LF") ELSE Fail(s)
      BY <1>1, <2>8 DEF Step
    <3>2. GoesOn(s, to("H_END_LF"), "H_END_LF")
      BY <1>6 DEF ParseStates
    <3> HIDE DEF t, to
    <3>3. QED
      BY <1>7, <2>8, <3>1, <3>2 DEF Effect
  <2>9. CASE s.hState_ = "H_END_LF"
    <3> DEFINE u == [s EXCEPT !.notFinish = FALSE]
    <3>1. t = u
      BY <1>1, <2>9 DEF Step
    <3>2. /\ u.hState_ = "H_END_LF" /\ ~u.notFinish /\ ~u.error
          /\ u.headers_ = s.headers_
      BY <1>1, <2>9 DEF Parsing
    <3> HIDE DEF t, u
    <3>3. QED
      BY <2>9, <3>1, <3>2 DEF Effect
  <2>10. s.hState_ \in ParseStates
    BY <1>1 DEF Parsing
  <2>11. QED
    BY <2>1, <2>2, <2>3, <2>4, <2>5, <2>6, <2>7, <2>8, <2>9, <2>10
       DEF ParseStates
<1> HIDE DEF t
<1>9. Effect(s, r, i, c)
  <2> HIDE DEF r, c
  <2>1. QED
    BY <1>5, <1>8 DEF Effect, GoesOn
<1>10. QED
  BY <1>2, <1>5, <1>9

-----------------------------------------------------------------------------
(* The loop finds the blank line of its request.                           *)

\* No request begins in the first n tokens.
CleanTo(X, n) == \A j \in 1 .. n : X[j].c # "G"

\* What the loop has read last.
LastRead(X, i, h, b) ==
  /\ h = "H_START" => X[i].c \in LineEnds
  /\ h = "H_KEY" =>
       /\ X[i].c \in HeaderNames => NamedLine(X, b)
       /\ X[i].c = "LF" => i = 1 /\ b = 1
       /\ X[i].c # "CR"
  /\ h = "H_COLON" => X[i].c = "colon" /\ NamedLine(X, b)
  /\ h = "H_SPACES_AFTER_COLON" => X[i].c = "space" /\ NamedLine(X, b)
  /\ h = "H_VALUE" =>
       /\ NamedLine(X, b)
       /\ \/ X[i].c \in HeaderNames \cup {"colon", "space", "value"}
          \/ X[i].c = "LF" /\ i = 1 /\ b = 1
  /\ h = "H_CR" => X[i].c = "CR"
  /\ h = "H_LF" => X[i].c = "LF" /\ b = i
  /\ h = "H_END_CR" => X[i].c = "CR"
  /\ h = "H_END_LF" => X[i].c = "LF"

\* The loop has read i tokens of X, is in state h, and will keep its text from
\* b on: it has met no other request, unless it takes that for a header.
Going(X, i, h, b) ==
  /\ CleanTo(X, i) \/ (h = "H_KEY" /\ i >= 1 /\ X[i].c \in {"G", "line"})
  /\ b \in 1 .. Len(X) /\ (i >= 1 => b <= i)
  /\ \/ X[b].c \in LineStarts /\ CleanTo(X, b)
     \/ h = "H_KEY" /\ X[b].c = "G"
  /\ i = 0 => /\ b = 1 /\ h # "H_END_LF"
              /\ h \in {"H_SPACES_AFTER_COLON", "H_VALUE"} => NamedLine(X, 1)
  /\ i > 0 => LastRead(X, i, h, b)

\* What holds of the loop after i rounds.
OnCourse(X, i, s, own) ==
  \/ s.error
  \/ /\ ~s.notFinish /\ s.hState_ = "H_END_LF" /\ s.headers_ \subseteq own
     /\ s.read \in 1 .. i /\ CleanTo(X, s.read - 1)
  \/ /\ s.notFinish /\ s.read = i /\ s.headers_ \subseteq own
     /\ s.key_start <= i
     /\ Going(X, i, s.hState_, s.line_begin)

\* One token more.
LEMMA GoingOn ==
  ASSUME NEW K, NEW X \in Seq(Token), Chain(X, K), X[1].c \in LineStarts,
         NEW i \in 1 .. Len(X), NEW s, NEW r, NEW own,
         s.hState_ \in ParseStates,
         Going(X, i - 1, s.hState_, s.line_begin),
         s.headers_ \subseteq own, s.key_start <= i - 1, s.key_start \in Nat,
         CleanTo(X, i - 1) => NameRead(s) \subseteq own,
         Effect(s, r, i, X[i].c), r.read = i
  PROVE  OnCourse(X, i, r, own)
<1> DEFINE h == s.hState_
           b == s.line_begin
           c == X[i].c
           p == X[i - 1].c
<1>1. i \in Nat /\ i >= 1 /\ i <= Len(X) /\ Len(X) \in Nat /\ i - 1 \in Nat
  OBVIOUS
<1>2. i # 1 => Follows(p, c)
  <2>1. i # 1 => i - 1 \in 1 .. Len(X) - 1 /\ (i - 1) + 1 = i
    BY <1>1
  <2>2. \A j \in 1 .. Len(X) - 1 : Follows(X[j].c, X[j + 1].c)
    BY DEF Chain, Grammar
  <2>3. QED
    BY <2>1, <2>2
<1>3. i = 1 => c \in LineStarts
  OBVIOUS
<1>4. c # "G" /\ CleanTo(X, i - 1) => CleanTo(X, i)
  <2>1. \A j \in 1 .. i : j = i \/ j \in 1 .. i - 1
    BY <1>1
  <2>2. QED
    BY <2>1 DEF CleanTo
<1>5. /\ CleanTo(X, i - 1) \/ (h = "H_KEY" /\ i - 1 >= 1 /\ p \in {"G", "line"})
      /\ b \in 1 .. Len(X) /\ b <= i /\ (i # 1 => b <= i - 1)
      /\ \/ X[b].c \in LineStarts /\ CleanTo(X, b)
         \/ h = "H_KEY" /\ X[b].c = "G"
      /\ i = 1 => /\ b = 1 /\ h # "H_END_LF"
                  /\ h \in {"H_SPACES_AFTER_COLON", "H_VALUE"} => NamedLine(X, 1)
      /\ i # 1 => LastRead(X, i - 1, h, b)
  <2>1. (i - 1 = 0 <=> i = 1) /\ (i - 1 > 0 <=> i # 1) /\ (i - 1 >= 1 <=> i # 1)
    BY <1>1
  <2>2. b \in 1 .. Len(X) /\ (i # 1 => b <= i - 1) /\ (i = 1 => b = 1)
    BY <2>1 DEF Going
  <2>3. b <= i
    BY <1>1, <2>2
  <2>4. QED
    BY <2>1, <2>2, <2>3 DEF Going
<1>6. \/ r.error
      \/ /\ ~r.notFinish /\ r.hState_ = "H_END_LF" /\ r.headers_ \subseteq own
         /\ CleanTo(X, i - 1)
      \/ /\ r.notFinish /\ r.headers_ \subseteq own /\ r.key_start <= i
         /\ Going(X, i, r.hState_, r.line_begin)
  <2>1. CASE h = "H_START"
    <3>1. i # 1 => p \in LineEnds /\ b <= i - 1
      BY <1>5, <2>1 DEF LastRead
    <3>2. CleanTo(X, i - 1) /\ X[b].c \in LineStarts /\ CleanTo(X, b)
      BY <1>5, <2>1
    <3>3. CASE c \in LineEnds
      <4>1. GoesOn(s, r, "H_START") /\ CleanTo(X, i)
        BY <1>4, <2>1, <3>2, <3>3 DEF Effect, LineEnds
      <4>2. LastRead(X, i, "H_START", b)
        BY <3>3 DEF LastRead
      <4>3. Going(X, i, "H_START", b)
        BY <1>1, <1>5, <3>2, <4>1, <4>2 DEF Going
      <4>4. QED
        BY <1>1, <4>1, <4>3 DEF GoesOn
    <3>4. CASE c \notin LineEnds
      <4>1. /\ r.hState_ = "H_KEY" /\ r.notFinish /\ ~r.error
            /\ r.headers_ = s.headers_ /\ r.key_start = i /\ r.line_begin = i
        BY <2>1, <3>4 DEF Effect
      <4>2. c \in HeaderNames \cup {"body", "G"}
        BY <1>2, <1>3, <3>1, <3>4 DEF LineEnds, LineStarts, Follows, HeaderNames
      <4>3. LastRead(X, i, "H_KEY", i)
        BY <3>4 DEF LastRead, NamedLine, LineEnds
      <4>4. CASE c = "G"
        <5>1. Going(X, i, "H_KEY", i)
          BY <1>1, <4>3, <4>4 DEF Going
        <5>2. QED
          BY <1>1, <4>1, <5>1
      <4>5. CASE c # "G"
        <5>1. CleanTo(X, i) /\ c \in LineStarts
          BY <1>4, <3>2, <4>2, <4>5 DEF LineStarts
        <5>2. Going(X, i, "H_KEY", i)
          BY <1>1, <4>3, <5>1 DEF Going
        <5>3. QED
          BY <1>1, <4>1, <5>2
      <4>6. QED
        BY <4>4, <4>5
    <3>5. QED
      BY <3>3, <3>4
  <2>2. CASE h = "H_KEY"
    <3>1. i # 1 => /\ p \in HeaderNames => NamedLine(X, b)
                   /\ p = "LF" => i = 2 /\ b = 1
      BY <1>1, <1>5, <2>2 DEF LastRead
    <3>2. CASE c = "colon" /\ i > s.key_start
      <4>1. /\ r.hState_ = "H_COLON" /\ r.notFinish /\ ~r.error
            /\ r.headers_ = s.headers_ /\ r.key_start = s.key_start
            /\ r.line_begin = b
        BY <2>2, <3>2 DEF Effect
      <4>2. i # 1 /\ p \in HeaderNames
        BY <1>2, <1>3, <3>2 DEF Follows, LineStarts, HeaderNames
      <4>3. CleanTo(X, i - 1)
        BY <1>5, <4>2 DEF HeaderNames
      <4>4. CleanTo(X, i) /\ X[b].c # "G"
        <5>1. b \in 1 .. i - 1
          BY <1>1, <1>5, <4>2
        <5>2. QED
          BY <1>4, <3>2, <4>3, <5>1 DEF CleanTo
      <4>5. LastRead(X, i, "H_COLON", b)
        BY <3>1, <3>2, <4>2 DEF LastRead
      <4>6. Going(X, i, "H_COLON", b)
        BY <1>1, <1>5, <4>4, <4>5 DEF Going
      <4>7. QED
        BY <1>1, <4>1, <4>6
    <3>3. CASE ~(c = "colon" /\ i > s.key_start) /\ c \in LineEnds \cup {"colon"}
      <4>1. r.error
        BY <2>2, <3>3 DEF Effect
      <4>2. QED
        BY <4>1
    <3>4. CASE c \notin LineEnds \cup {"colon"}
      <4>1. GoesOn(s, r, "H_KEY")
        BY <2>2, <3>4 DEF Effect
      <4>2. CleanTo(X, i) \/ c \in {"G", "line"}
        <5>1. CASE CleanTo(X, i - 1)
          BY <1>4, <5>1
        <5>2. CASE i # 1 /\ p \in {"G", "line"}
          BY <1>2, <3>4, <5>2 DEF Follows, LineEnds, HeaderNames
        <5>3. QED
          BY <1>1, <1>5, <5>1, <5>2
      <4>3. c \in HeaderNames => NamedLine(X, b)
        <5>1. CASE i = 1
          BY <1>5, <5>1 DEF NamedLine
        <5>2. CASE i # 1 /\ c \in HeaderNames
          <6>1. p = "LF"
            BY <1>2, <5>2 DEF Follows, HeaderNames
          <6>2. i = 2 /\ b = 1
            BY <3>1, <5>2, <6>1
          <6>3. QED
            BY <1>1, <5>2, <6>2 DEF NamedLine
        <5>3. QED
          BY <5>1, <5>2
      <4>4. LastRead(X, i, "H_KEY", b)
        BY <3>4, <4>3 DEF LastRead, LineEnds
      <4>5. Going(X, i, "H_KEY", b)
        BY <1>1, <1>5, <4>2, <4>4 DEF Going
      <4>6. QED
        BY <1>1, <4>1, <4>5 DEF GoesOn
    <3>5. QED
      BY <3>2, <3>3, <3>4
  <2>3. CASE h = "H_COLON"
    <3>1. CASE c # "space"
      BY <2>3, <3>1 DEF Effect
    <3>2. CASE c = "space"
      <4>1. i # 1 /\ GoesOn(s, r, "H_SPACES_AFTER_COLON")
        BY <1>3, <2>3, <3>2 DEF Effect, LineStarts, HeaderNames
      <4>2. NamedLine(X, b) /\ CleanTo(X, i)
        BY <1>4, <1>5, <2>3, <3>2, <4>1 DEF LastRead
      <4>3. LastRead(X, i, "H_SPACES_AFTER_COLON", b)
        BY <3>2, <4>2 DEF LastRead
      <4>4. Going(X, i, "H_SPACES_AFTER_COLON", b)
        BY <1>1, <1>5, <2>3, <4>2, <4>3 DEF Going
      <4>5. QED
        BY <1>1, <4>1, <4>4 DEF GoesOn
    <3>3. QED
      BY <3>1, <3>2
  <2>4. CASE h \in {"H_SPACES_AFTER_COLON", "H_VALUE"}
    <3>1. NamedLine(X, b)
      BY <1>5, <2>4 DEF LastRead
    <3>2. i = 1 => c \in HeaderNames \cup {"LF"}
      <4>1. SUFFICES ASSUME i = 1, c \notin HeaderNames
                     PROVE  c = "LF"
        OBVIOUS
      <4>2. b = 1 /\ 2 <= Len(X) /\ X[2].c \in HeaderNames
        BY <1>1, <1>5, <3>1, <4>1 DEF NamedLine
      <4>3. Follows(X[1].c, X[1 + 1].c)
        BY <4>2 DEF Chain, Grammar
      <4>4. QED
        BY <4>1, <4>2, <4>3 DEF Follows, HeaderNames
    <3>3. i # 1 => \/ p \in HeaderNames \cup {"colon", "space", "value"}
                   \/ p = "LF" /\ i = 2 /\ b = 1
      BY <1>1, <1>5, <2>4 DEF LastRead
    <3>4. \/ c \in HeaderNames \cup {"colon", "space", "value"}
          \/ c = "LF" /\ i = 1 /\ b = 1
          \/ c = "CR" /\ i # 1 /\ p # "space"
      <4>1. CASE i = 1
        BY <1>5, <3>2, <4>1
      <4>2. CASE i # 1 /\ p = "LF"
        <5>1. i = 2 /\ b = 1
          BY <3>3, <4>2 DEF HeaderNames
        <5>2. X[1].c = "LF"
          BY <4>2, <5>1
        <5>3. c \in HeaderNames
          BY <3>1, <5>1, <5>2 DEF NamedLine, HeaderNames
        <5>4. QED
          BY <5>3
      <4>3. CASE i # 1 /\ p # "LF"
        BY <1>2, <3>3, <4>3 DEF Follows, HeaderNames
      <4>4. QED
        BY <4>1, <4>2, <4>3
    <3>5. CleanTo(X, i) /\ CleanTo(X, i - 1)
      BY <1>4, <1>5, <2>4, <3>4 DEF HeaderNames
    <3>6. CASE c = "CR"
      <4>1. h = "H_VALUE"
        BY <1>5, <2>4, <3>4, <3>6 DEF LastRead, HeaderNames
      <4>2. GoesOn(s, r, "H_CR")
        BY <3>6, <4>1 DEF Effect
      <4>3. LastRead(X, i, "H_CR", b)
        BY <3>6 DEF LastRead
      <4>4. Going(X, i, "H_CR", b)
        BY <1>1, <1>5, <2>4, <3>5, <4>3 DEF Going
      <4>5. QED
        BY <1>1, <4>2, <4>4 DEF GoesOn
    <3>7. CASE c # "CR"
      <4>1. GoesOn(s, r, "H_VALUE")
        BY <2>4, <3>7 DEF Effect
      <4>2. LastRead(X, i, "H_VALUE", b)
        BY <3>1, <3>4, <3>7 DEF LastRead
      <4>3. Going(X, i, "H_VALUE", b)
        BY <1>1, <1>5, <2>4, <3>5, <4>2 DEF Going
      <4>4. QED
        BY <1>1, <4>1, <4>3 DEF GoesOn
    <3>8. QED
      BY <3>6, <3>7
  <2>5. CASE h = "H_CR"
    <3>1. CASE c # "LF"
      BY <2>5, <3>1 DEF Effect
    <3>2. CASE c = "LF"
      <4>1. /\ r.hState_ = "H_LF" /\ r.notFinish /\ ~r.error
            /\ r.headers_ = s.headers_ \cup NameRead(s) /\ r.line_begin = i
            /\ r.key_start = s.key_start
        BY <2>5, <3>2 DEF Effect
      <4>2. CleanTo(X, i - 1) /\ CleanTo(X, i)
        BY <1>4, <1>5, <2>5, <3>2
      <4>3. LastRead(X, i, "H_LF", i)
        BY <3>2 DEF LastRead
      <4>4. Going(X, i, "H_LF", i)
        BY <1>1, <3>2, <4>2, <4>3 DEF Going, LineStarts
      <4>5. r.headers_ \subseteq own
        BY <4>1, <4>2
      <4>6. QED
        BY <1>1, <4>1, <4>4, <4>5
    <3>3. QED
      BY <3>1, <3>2
  <2>6. CASE h = "H_LF"
    <3>1. CleanTo(X, i - 1) /\ X[b].c \in LineStarts /\ CleanTo(X, b)
      BY <1>5, <2>6
    <3>2. i # 1 => p = "LF" /\ b = i - 1
      BY <1>5, <2>6 DEF LastRead
    <3>3. CASE c = "CR"
      <4>1. GoesOn(s, r, "H_END_CR") /\ CleanTo(X, i)
        BY <1>4, <2>6, <3>1, <3>3 DEF Effect
      <4>2. LastRead(X, i, "H_END_CR", b)
        BY <3>3 DEF LastRead
      <4>3. Going(X, i, "H_END_CR", b)
        BY <1>1, <1>5, <3>1, <4>1, <4>2 DEF Going
      <4>4. QED
        BY <1>1, <4>1, <4>3 DEF GoesOn
    <3>4. CASE c # "CR"
      <4>1. /\ r.hState_ = "H_KEY" /\ r.notFinish /\ ~r.error
            /\ r.headers_ = s.headers_ /\ r.key_start = i
            /\ r.line_begin = b
        BY <2>6, <3>4 DEF Effect
      <4>2. CleanTo(X, i) \/ c = "G"
        BY <1>4, <3>1
      <4>3. c \in HeaderNames => NamedLine(X, b)
        <5>1. CASE i = 1
          BY <1>5, <5>1 DEF NamedLine
        <5>2. CASE i # 1
          <6>1. b + 1 = i
            BY <1>1, <3>2, <5>2
          <6>2. QED
            BY <1>1, <6>1 DEF NamedLine
        <5>3. QED
          BY <5>1, <5>2
      <4>4. c = "LF" => i = 1 /\ b = 1
        BY <1>2, <1>5, <3>2 DEF Follows, HeaderNames
      <4>5. LastRead(X, i, "H_KEY", b)
        BY <3>4, <4>3, <4>4 DEF LastRead
      <4>6. Going(X, i, "H_KEY", b)
        BY <1>1, <1>5, <3>1, <4>2, <4>5 DEF Going
      <4>7. QED
        BY <1>1, <4>1, <4>6
    <3>5. QED
      BY <3>3, <3>4
  <2>7. CASE h = "H_END_CR"
    <3>1. CASE c # "LF"
      BY <2>7, <3>1 DEF Effect
    <3>2. CASE c = "LF"
      <4>1. GoesOn(s, r, "H_END_LF") /\ CleanTo(X, i)
        BY <1>4, <1>5, <2>7, <3>2 DEF Effect
      <4>2. LastRead(X, i, "H_END_LF", b)
        BY <3>2 DEF LastRead
      <4>3. Going(X, i, "H_END_LF", b)
        BY <1>1, <1>5, <2>7, <4>1, <4>2 DEF Going
      <4>4. QED
        BY <1>1, <4>1, <4>3 DEF GoesOn
    <3>3. QED
      BY <3>1, <3>2
  <2>8. CASE h = "H_END_LF"
    BY <1>5, <2>8 DEF Effect
  <2>9. QED
    BY <2>1, <2>2, <2>3, <2>4, <2>5, <2>6, <2>7, <2>8 DEF ParseStates
<1>7. CASE r.error
  BY <1>7 DEF OnCourse
<1>8. CASE /\ ~r.notFinish /\ r.hState_ = "H_END_LF" /\ r.headers_ \subseteq own
           /\ CleanTo(X, i - 1)
  <2>1. r.read \in 1 .. i /\ CleanTo(X, r.read - 1)
    BY <1>1, <1>8
  <2>2. QED
    BY <1>8, <2>1 DEF OnCourse
<1>9. CASE /\ r.notFinish /\ r.headers_ \subseteq own /\ r.key_start <= i
           /\ Going(X, i, r.hState_, r.line_begin)
  BY <1>9 DEF OnCourse
<1>10. QED
  BY <1>6, <1>7, <1>8, <1>9

\* All tokens before the next request are of the first one.
LEMMA CleanId ==
  ASSUME NEW K, NEW X \in Seq(Token), Chain(X, K), X # <<>>,
         NEW n \in 1 .. Len(X), CleanTo(X, n)
  PROVE  X[n].id = X[1].id
<1>1. 1 \in 1 .. Len(X) /\ 1 <= n
  OBVIOUS
<1>2. \A m \in 1 + 1 .. n : m \in 1 .. n
  OBVIOUS
<1>3. \A m \in 1 + 1 .. n : X[m].c # "G"
  BY <1>2 DEF CleanTo
<1>4. QED
  BY <1>1, <1>3, Zenon DEF Chain, Numbered

\* When the head of request k has been found, and it has no body, the next
\* request is due.
LEMMA NextDue ==
  ASSUME NEW K \in Seq(AllKinds), NEW X \in Seq(Token), NEW Y \in Seq(Token),
         NEW k \in 1 .. Len(K), Chain(X, K), X # <<>>, X[1].id = k,
         K[k] \notin Posts,
         NEW d \in 1 .. Len(X), CleanTo(X, d - 1), Later(X, Y, d)
  PROVE  Due(Y, K, k + 1)
<1>1. /\ Len(X) \in Nat /\ Len(K) \in Nat /\ Len(Y) \in Nat /\ d \in Nat
      /\ Len(Y) = Len(X) - d
      /\ \A i \in 1 .. Len(Y) : d + i \in 1 .. Len(X) /\ Y[i] = X[d + i]
  BY DEF Later
<1>2. /\ \A i \in 1 .. Len(X) : X[i].id \in 1 .. Len(K)
      /\ X[Len(X)].id = Len(K)
      /\ \A i, j \in 1 .. Len(X) : i <= j => X[i].id <= X[j].id
      /\ \A g \in 2 .. Len(X) : X[g].c = "G" => X[g].id = X[g - 1].id + 1
  BY DEF Chain, Numbered
<1>3. \A i \in 1 .. Len(X) : X[i].id >= k
  <2>1. 1 \in 1 .. Len(X) /\ \A i \in 1 .. Len(X) : 1 <= i
    BY <1>1
  <2>2. \A i \in 1 .. Len(X) : X[1].id <= X[i].id
    BY <1>2, <2>1
  <2>3. QED
    BY <1>2, <2>2
\* The first "G" of all.
<1>4. ASSUME NEW j \in 1 .. Len(X), X[j].c = "G"
      PROVE  \E g \in 1 .. j : X[g].c = "G" /\ CleanTo(X, g - 1)
  <2> DEFINE Gs == {g \in 1 .. j : X[g].c = "G"}
  <2>1. Gs \in SUBSET Nat /\ Gs # {}
    BY <1>4, SMTT(30)
  <2>2. \E g \in Gs : \A y \in Gs : g <= y
    <3> HIDE DEF Gs
    <3>1. QED
      BY <2>1, LeastNumber
  <2>3. PICK g \in Gs : \A y \in Gs : g <= y
    BY <2>2
  <2>4. \A i \in 1 .. g - 1 : i \in 1 .. j /\ ~(g <= i)
    OBVIOUS
  <2>5. CleanTo(X, g - 1)
    BY <2>3, <2>4 DEF CleanTo
  <2>6. QED
    BY <2>5
<1>5. ASSUME NEW g \in 1 .. Len(X), X[g].c = "G", CleanTo(X, g - 1)
      PROVE  /\ g >= d /\ g + 2 <= Len(X) /\ X[g + 2].c = "CR"
             /\ g # 1 => X[g].id = k + 1
  <2>1. g >= d
    <3>1. SUFFICES ASSUME g < d
                   PROVE  FALSE
      BY <1>1
    <3>2. g \in 1 .. d - 1
      BY <1>1, <3>1
    <3>3. QED
      BY <1>5, <3>2 DEF CleanTo
  <2>2. g + 3 \in 1 .. Len(X) /\ X[g + 2].c = "CR"
    BY <1>5, RequestLine
  <2>3. ASSUME g # 1
        PROVE  X[g].id = k + 1
    <3>1. g - 1 \in 1 .. Len(X) /\ g \in 2 .. Len(X)
      BY <1>1, <2>3
    <3>2. X[g - 1].id = k
      BY <1>5, <3>1, CleanId
    <3>3. QED
      BY <1>2, <1>5, <3>1, <3>2
  <2>4. QED
    BY <1>1, <2>1, <2>2, <2>3
<1>6. ASSUME k + 1 <= Len(K)
      PROVE  \E i \in 1 .. Len(Y) : Y[i].c = "CR"
  <2>1. \E j \in 1 .. Len(X) : X[j].c = "G"
    <3>1. SUFFICES ASSUME \A j \in 1 .. Len(X) : X[j].c # "G"
                   PROVE  FALSE
      OBVIOUS
    <3>2. Len(X) \in 1 .. Len(X) /\ CleanTo(X, Len(X))
      BY <1>1, <3>1 DEF CleanTo
    <3>3. X[Len(X)].id = k
      BY <3>2, CleanId
    <3>4. QED
      BY <1>1, <1>2, <1>6, <3>3
  <2>2. PICK g \in 1 .. Len(X) : X[g].c = "G" /\ CleanTo(X, g - 1)
    BY <1>4, <2>1
  <2>3. g >= d /\ g + 2 <= Len(X) /\ X[g + 2].c = "CR"
    BY <1>5, <2>2
  <2>4. g + 2 - d \in 1 .. Len(Y) /\ d + (g + 2 - d) = g + 2
    BY <1>1, <2>3
  <2>5. Y[g + 2 - d] = X[g + 2]
    BY <1>1, <2>4
  <2>6. QED
    BY <2>3, <2>4, <2>5
<1>7. ASSUME k + 1 > Len(K), NEW i \in 1 .. Len(Y)
      PROVE  Y[i].c # "G"
  <2>1. SUFFICES ASSUME X[d + i].c = "G"
                 PROVE  FALSE
    BY <1>1
  <2>2. d + i \in 2 .. Len(X) /\ (d + i) - 1 \in 1 .. Len(X)
    BY <1>1
  <2>3. X[d + i].id = X[(d + i) - 1].id + 1
    BY <1>2, <2>1, <2>2
  <2>4. X[(d + i) - 1].id >= k /\ X[d + i].id \in 1 .. Len(K)
        /\ X[(d + i) - 1].id \in 1 .. Len(K)
    BY <1>1, <1>2, <1>3, <2>2
  <2>5. QED
    BY <1>1, <1>7, <2>3, <2>4
<1>8. ASSUME NEW a \in 1 .. Len(Y), Y[a].c = "G",
             \A j \in 1 .. a - 1 : Y[j].c # "CR"
      PROVE  Y[a].id = k + 1
  <2>1. d + a \in 1 .. Len(X) /\ Y[a] = X[d + a]
    BY <1>1
  <2>2. PICK g \in 1 .. d + a : X[g].c = "G" /\ CleanTo(X, g - 1)
    BY <1>4, <1>8, <2>1
  <2>3. g \in 1 .. Len(X)
    BY <1>1, <2>1
  <2>4. g >= d /\ g + 2 <= Len(X) /\ X[g + 2].c = "CR" /\ (g # 1 => X[g].id = k + 1)
    BY <1>5, <2>2, <2>3
  <2>5. X[g + 1].c = "line"
    BY <2>2, <2>3, RequestLine
  <2>6. g = d + a
    <3>1. SUFFICES ASSUME g # d + a
                   PROVE  FALSE
      OBVIOUS
    <3>2. X[d + a].c = "G"
      BY <1>8, <2>1
    <3>3. g + 1 # d + a /\ g + 2 # d + a
      BY <2>4, <2>5, <3>2
    <3>4. g + 2 - d \in 1 .. a - 1 /\ d + (g + 2 - d) = g + 2
          /\ g + 2 - d \in 1 .. Len(Y)
      BY <1>1, <2>4, <3>1, <3>3
    <3>5. Y[g + 2 - d] = X[g + 2]
      BY <1>1, <3>4
    <3>6. QED
      BY <1>8, <2>4, <3>4, <3>5
  <2>7. g # 1
    BY <1>1, <2>6
  <2>8. QED
    BY <2>1, <2>4, <2>6, <2>7
<1>9. ASSUME NEW i \in 1 .. Len(Y), Y[i].id < k + 1
      PROVE  K[Y[i].id] \notin Posts
  <2>1. Y[i].id \in Nat /\ Y[i].id >= k
    <3>1. d + i \in 1 .. Len(X) /\ Y[i] = X[d + i]
      BY <1>1
    <3>2. X[d + i].id \in 1 .. Len(K) /\ X[d + i].id >= k
      BY <1>2, <1>3, <3>1, Zenon
    <3>3. QED
      BY <1>1, <3>1, <3>2
  <2>2. Y[i].id = k
    BY <1>1, <1>9, <2>1
  <2>3. QED
    BY <2>2
<1>10. QED
  BY <1>6, <1>7, <1>8, <1>9 DEF Due

\* The names the loop has read of request k are names of it.
LEMMA OwnRead ==
  ASSUME NEW K, NEW X \in Seq(Token), Chain(X, K), X # <<>>,
         NEW str \in Seq(Token), Len(str) <= Len(X),
         \A j \in 1 .. Len(str) : X[j] = str[j],
         NEW s \in Scanned(str), NEW n \in 0 .. Len(str),
         s.key_start <= n, CleanTo(X, n)
  PROVE  NameRead(s) \subseteq OwnNames(K, X[1].id)
<1>1. s.str = str /\ s.key_start \in Nat
  BY DEF Scanned, Parsing
<1> DEFINE a == s.key_start
<1>2. CASE a > 0 /\ s.str[a].c \in HeaderNames
  <2>1. a \in 1 .. n /\ a \in 1 .. Len(str) /\ a \in 1 .. Len(X)
    <3>1. a \in Nat /\ a > 0 /\ a <= n
      BY <1>1, <1>2
    <3>2. n \in Nat /\ n <= Len(str) /\ Len(str) \in Nat /\ Len(X) \in Nat
      OBVIOUS
    <3> HIDE DEF a
    <3>3. QED
      BY <3>1, <3>2
  <2>2. X[a] = str[a] /\ X[a].c \in HeaderNames
    BY <1>1, <1>2, <2>1
  <2>3. CleanTo(X, a)
    <3>1. \A j \in 1 .. a : j \in 1 .. n
      BY <2>1
    <3>2. QED
      BY <3>1 DEF CleanTo
  <2>4. X[a].id = X[1].id
    BY <2>1, <2>3, CleanId
  <2>5. X[a] \in OwnNames(K, X[a].id)
    BY <2>1, <2>2 DEF Chain, Contents
  <2>6. NameRead(s) \subseteq {str[a]}
    BY <1>1 DEF NameRead
  <2>7. QED
    BY <2>2, <2>4, <2>5, <2>6
<1>3. CASE ~(a > 0 /\ s.str[a].c \in HeaderNames)
  <2>1. NameRead(s) = {}
    BY <1>3 DEF NameRead
  <2>2. QED
    BY <2>1
<1>4. QED
  BY <1>2, <1>3

\* So all along the loop, and where it ends.
LEMMA LoopOnCourse ==
  ASSUME NEW K, NEW str \in Seq(Token), NEW rest \in Seq(Token),
         NEW h \in ParseStates, NEW H \in SUBSET Token, NEW k,
         H \subseteq OwnNames(K, k),
         Chain(str \o rest, K), Under(str \o rest, K, k, h)
  PROVE  OnCourse(str \o rest, Len(str), Scan(str, h, H), OwnNames(K, k))
<1> DEFINE X == str \o rest
           n == Len(str)
           own == OwnNames(K, k)
<1>1. /\ X \in Seq(Token) /\ n \in Nat /\ n <= Len(X)
      /\ \A j \in 1 .. n : X[j] = str[j]
  BY TakenAway
<1>2. Chain(X, K) /\ Under(X, K, k, h)
  OBVIOUS
<1>3. PICK f : /\ f[0] = Begin(str, h, H)
               /\ \A i \in 1 .. n : f[i] = Round(i)[f[i - 1]]
               /\ \A i \in 0 .. n : f[i] \in Scanned(str)
               /\ Scan(str, h, H) = f[n]
  BY ScanSteps
<1> HIDE DEF X, own
<1>4. X # <<>> /\ X[1].c \in LineStarts /\ X[1].id = k /\ Len(X) \in Nat \ {0}
  BY <1>1, <1>2 DEF Under
<1>5. OnCourse(X, 0, f[0], own)
  <2>1. /\ f[0].notFinish /\ f[0].read = 0 /\ f[0].headers_ = H
        /\ f[0].key_start = 0 /\ f[0].hState_ = h /\ f[0].line_begin = 1
    BY <1>3 DEF Begin
  <2>2. CleanTo(X, 0)
    BY DEF CleanTo
  <2>3. CleanTo(X, 1)
    <3>1. \A j \in 1 .. 1 : j = 1
      OBVIOUS
    <3>2. X[1].c # "G"
      BY <1>4 DEF LineStarts, HeaderNames
    <3>3. QED
      BY <3>1, <3>2 DEF CleanTo
  <2>4. Going(X, 0, h, 1)
    BY <1>2, <1>4, <2>2, <2>3 DEF Going, Under
  <2>5. H \subseteq own
    BY DEF own
  <2>6. QED
    BY <2>1, <2>4, <2>5 DEF OnCourse
<1>6. ASSUME NEW i \in 1 .. n, OnCourse(X, i - 1, f[i - 1], own)
      PROVE  OnCourse(X, i, f[i], own)
  <2> DEFINE s == f[i - 1]
             r == f[i]
  <2>1. /\ i - 1 \in 0 .. n /\ i \in 0 .. n /\ i \in 1 .. Len(X) /\ i \in Nat
        /\ i - 1 \in Nat /\ i - 1 < i
    BY <1>1
  <2>2. r = Round(i)[s] /\ s \in Scanned(str)
    BY <1>3, <2>1
  <2>3. /\ s \in Parsing /\ s.hState_ \in ParseStates /\ s.key_start \in Nat
        /\ s.read \in Nat
    BY <2>2 DEF Scanned, Parsing
  <2>4. CASE s.error \/ ~s.notFinish
    <3>1. r = s
      BY <2>2, <2>3, <2>4 DEF Round
    <3>2. s.read \in 1 .. i - 1 => s.read \in 1 .. i
      BY <2>1
    <3> HIDE DEF s, r
    <3>3. OnCourse(X, i - 1, s, own)
      BY <1>6 DEF s
    <3>4. OnCourse(X, i, s, own)
      BY <2>4, <3>2, <3>3 DEF OnCourse
    <3>5. QED
      BY <3>1, <3>4 DEF r
  <2>5. CASE ~s.error /\ s.notFinish
    <3>1. r.read = i /\ Effect(s, r, i, str[i].c)
      BY <2>2, <2>5, RoundEffect
    <3>2. str[i] = X[i]
      BY <1>1
    <3> HIDE DEF s, r
    <3>3. OnCourse(X, i - 1, s, own)
      BY <1>6 DEF s
    <3>4. /\ s.headers_ \subseteq own /\ s.key_start <= i - 1
          /\ Going(X, i - 1, s.hState_, s.line_begin)
      BY <2>5, <3>3 DEF OnCourse
    <3>5. CleanTo(X, i - 1) => NameRead(s) \subseteq own
      BY <1>1, <1>2, <1>4, <2>1, <2>2, <3>4, OwnRead DEF own
    <3>6. Effect(s, r, i, X[i].c)
      BY <3>1, <3>2
    <3>7. OnCourse(X, i, r, own)
      BY <1>1, <1>2, <1>4, <2>1, <2>3, <3>1, <3>4, <3>5, <3>6, GoingOn
    <3>8. QED
      BY <3>7 DEF r
  <2>6. QED
    BY <2>4, <2>5
<1>7. OnCourse(X, n, f[n], own)
  <2> DEFINE P == [i \in 0 .. n |-> OnCourse(X, i, f[i], own)]
  <2>1. 0 \in 0 .. n /\ n \in 0 .. n
        /\ \A i \in 1 .. n : i - 1 \in 0 .. n /\ i \in 0 .. n
    BY <1>1
  <2>2. P[0] \in {TRUE}
    BY <1>5, <2>1
  <2>3. \A i \in 1 .. n : P[i - 1] \in {TRUE} => P[i] \in {TRUE}
    <3>1. SUFFICES ASSUME NEW i \in 1 .. n, P[i - 1] \in {TRUE}
                   PROVE  P[i] \in {TRUE}
      OBVIOUS
    <3>2. P[i - 1] = OnCourse(X, i - 1, f[i - 1], own)
          /\ P[i] = OnCourse(X, i, f[i], own)
      BY <2>1
    <3> HIDE DEF P
    <3>3. OnCourse(X, i - 1, f[i - 1], own)
      BY <3>1, <3>2
    <3>4. OnCourse(X, i, f[i], own)
      BY <1>6, <3>3
    <3>5. QED
      BY <3>2, <3>4
  <2>4. P[n] = OnCourse(X, n, f[n], own)
    BY <2>1
  <2> DEFINE Yes == {TRUE}
  <2>5. P[0] \in Yes /\ \A i \in 1 .. n : P[i - 1] \in Yes => P[i] \in Yes
    BY <2>2, <2>3
  <2> HIDE DEF P, Yes
  <2>6. \A i \in 0 .. n : P[i] \in Yes
    BY <1>1, <2>5, AllAlong
  <2>7. QED
    BY <2>1, <2>4, <2>6 DEF Yes
<1>8. QED
  BY <1>3, <1>7 DEF X, own

\* parseHeaders at the headers of request k: the names it has are of that
\* request; as long as the head is not complete it stays there or is stuck, and
\* behind a head without a body the next request is due.
LEMMA HeadersTurn ==
  ASSUME NEW K \in Seq(AllKinds), NEW k \in 1 .. Len(K),
         NEW str \in Seq(Token), NEW rest \in Seq(Token),
         NEW h \in ParseStates, NEW H \in SUBSET Token,
         H \subseteq OwnNames(K, k),
         Chain(str \o rest, K), Under(str \o rest, K, k, h)
  PROVE  LET head == parseHeaders(str, h, H)
             Y == head.str \o rest
         IN /\ Y \in Seq(Token) /\ Chain(Y, K)
            /\ head.flag # "error" => head.headers_ \subseteq OwnNames(K, k)
            /\ head.flag = "again" =>
                 Under(Y, K, k, head.hState_) \/ Stuck(Y, head.hState_)
            /\ head.flag = "success" /\ K[k] \notin Posts => Due(Y, K, k + 1)
<1> DEFINE X == str \o rest
           n == Len(str)
           own == OwnNames(K, k)
           s == Scan(str, h, H)
           from == IF s.hState_ = "H_END_LF" THEN s.read + 1 ELSE s.line_begin
           head == parseHeaders(str, h, H)
           Y == head.str \o rest
<1>1. /\ X \in Seq(Token) /\ n \in Nat /\ n <= Len(X)
      /\ \A j \in 1 .. n : X[j] = str[j]
  BY TakenAway
<1>2. Chain(X, K) /\ Under(X, K, k, h)
  OBVIOUS
<1>3. OnCourse(X, n, s, own)
  BY LoopOnCourse
<1>4. s \in Scanned(str)
  BY ScanType
<1>5. head =
        [flag |-> IF s.error THEN "error"
                  ELSE IF s.hState_ = "H_END_LF" THEN "success" ELSE "again",
         hState_ |-> s.hState_, headers_ |-> s.headers_,
         str |-> IF s.error THEN str ELSE SubSeq(str, from, Len(str))]
  BY DEF parseHeaders
<1>6. \A d \in 0 .. Len(str) :
        /\ X \in Seq(Token)
        /\ SubSeq(str, d + 1, Len(str)) \o rest \in Seq(Token)
        /\ Later(X, SubSeq(str, d + 1, Len(str)) \o rest, d)
  BY TakenAway
<1>7. s.read \in Nat /\ s.line_begin \in Nat /\ s.hState_ \in ParseStates
  BY <1>4 DEF Scanned, Parsing
<1> HIDE DEF s, own, head, X
<1>8. X # <<>> /\ X[1].c \in LineStarts /\ X[1].id = k /\ Len(X) \in Nat \ {0}
  BY <1>1, <1>2 DEF Under
<1>9. CASE s.error
  <2>1. head.flag = "error" /\ head.str = str
    BY <1>5, <1>9
  <2>2. Y = X
    BY <2>1 DEF X
  <2> HIDE DEF Y
  <2>3. QED
    BY <1>1, <1>2, <2>1, <2>2 DEF own, head, Y
<1>10. CASE ~s.error
  <2> DEFINE d == from - 1
  <2>1. \/ /\ ~s.notFinish /\ s.hState_ = "H_END_LF"
           /\ s.read \in 1 .. n /\ CleanTo(X, s.read - 1)
        \/ /\ s.notFinish /\ s.read = n
           /\ Going(X, n, s.hState_, s.line_begin)
    BY <1>3, <1>10 DEF OnCourse
  <2>2. s.headers_ \subseteq own
    BY <1>3, <1>10 DEF OnCourse
  <2>3. s.hState_ = "H_END_LF" => s.read \in 1 .. n /\ CleanTo(X, s.read - 1)
    <3>1. CASE s.notFinish /\ s.hState_ = "H_END_LF"
      <4>1. s.read = n /\ CleanTo(X, n) /\ n # 0
        BY <1>1, <2>1, <3>1 DEF Going
      <4>2. \A j \in 1 .. n - 1 : j \in 1 .. n
        BY <1>1
      <4>3. CleanTo(X, n - 1)
        BY <4>1, <4>2 DEF CleanTo
      <4>4. QED
        BY <1>1, <4>1, <4>3
    <3>2. QED
      BY <2>1, <3>1
  <2>4. /\ head.flag = IF s.hState_ = "H_END_LF" THEN "success" ELSE "again"
        /\ head.hState_ = s.hState_ /\ head.headers_ = s.headers_
        /\ head.str = SubSeq(str, from, Len(str))
    BY <1>5, <1>10
  <2>5. d \in 0 .. Len(str) /\ from = d + 1
    <3>1. CASE s.hState_ = "H_END_LF"
      BY <1>1, <2>3, <3>1
    <3>2. CASE s.hState_ # "H_END_LF"
      <4>1. s.line_begin \in 1 .. Len(X) /\ (n >= 1 => s.line_begin <= n)
            /\ (n = 0 => s.line_begin = 1)
        BY <2>1, <3>2 DEF Going
      <4>2. QED
        BY <1>1, <3>2, <4>1
    <3>3. QED
      BY <3>1, <3>2
  <2> HIDE DEF from
  <2>6. Y = SubSeq(str, d + 1, Len(str)) \o rest
    BY <2>4, <2>5
  <2>7. Y \in Seq(Token) /\ Later(X, Y, d)
    BY <1>6, <2>5, <2>6
  <2> HIDE DEF Y, d
  <2>8. Chain(Y, K)
    BY <1>1, <1>2, <2>7, LaterText DEF Later
  <2>9. ASSUME s.hState_ = "H_END_LF", K[k] \notin Posts
        PROVE  Due(Y, K, k + 1)
    <3>1. d = s.read /\ d \in 1 .. Len(X) /\ CleanTo(X, d - 1)
      BY <1>1, <1>7, <2>3, <2>9 DEF from, d
    <3>2. QED
      BY <1>1, <1>2, <1>8, <2>7, <2>9, <3>1, NextDue
  <2>10. ASSUME s.hState_ # "H_END_LF"
         PROVE  Under(Y, K, k, s.hState_) \/ Stuck(Y, s.hState_)
    <3> DEFINE b == s.line_begin
    <3>1. b = d + 1 /\ Going(X, n, s.hState_, b)
      BY <1>7, <2>1, <2>10 DEF from, d
    <3>2. b \in 1 .. Len(X)
      BY <3>1 DEF Going
    <3>3. d \in Nat /\ Len(Y) = Len(X) - d /\ Len(Y) \in Nat
          /\ \A i \in 1 .. Len(Y) : Y[i] = X[d + i]
      BY <2>7 DEF Later
    <3> HIDE DEF b
    <3>4. 1 \in 1 .. Len(Y) /\ Y # <<>> /\ Y[1] = X[b]
      BY <1>8, <2>7, <3>1, <3>2, <3>3
    <3>5. CASE s.hState_ = "H_KEY" /\ X[b].c = "G"
      <4>1. Stuck(Y, "H_KEY")
        BY <3>4, <3>5 DEF Stuck
      <4>2. QED
        BY <3>5, <4>1
    <3>6. CASE X[b].c \in LineStarts /\ CleanTo(X, b)
      <4>1. X[b].id = k
        BY <1>1, <1>2, <1>8, <3>2, <3>6, CleanId
      <4>2. ASSUME s.hState_ \in {"H_SPACES_AFTER_COLON", "H_VALUE"}
            PROVE  NamedLine(Y, 1)
        <5>1. NamedLine(X, b)
          <6>1. CASE n = 0
            BY <3>1, <4>2, <6>1 DEF Going
          <6>2. CASE n # 0
            <7>1. LastRead(X, n, s.hState_, b)
              BY <1>1, <3>1, <6>2 DEF Going
            <7>2. QED
              BY <4>2, <7>1 DEF LastRead
          <6>3. QED
            BY <6>1, <6>2
        <5>2. CASE X[b].c \in HeaderNames
          BY <3>4, <5>2 DEF NamedLine
        <5>3. CASE b + 1 <= Len(X) /\ X[b + 1].c \in HeaderNames
          <6>1. 2 \in 1 .. Len(Y) /\ d + 2 = b + 1
            BY <1>8, <3>1, <3>3, <5>3
          <6>2. Y[2] = X[b + 1]
            BY <3>3, <6>1
          <6>3. 1 + 1 = 2 /\ 1 + 1 <= Len(Y)
            BY <3>3, <6>1
          <6>4. QED
            BY <5>3, <6>2, <6>3 DEF NamedLine
        <5>4. QED
          BY <5>1, <5>2, <5>3 DEF NamedLine
      <4>3. QED
        BY <2>10, <3>4, <3>6, <4>1, <4>2 DEF Under
    <3>7. QED
      BY <3>1, <3>5, <3>6 DEF Going
  <2>11. QED
    BY <2>2, <2>4, <2>7, <2>8, <2>9, <2>10 DEF own, head, Y
<1>11. QED
  BY <1>9, <1>10

\* What holds of the loop after i rounds, when it comes to a request line at g
\* instead of a header.
Jammed(i, s, g, headers) ==
  \/ s.error
  \/ /\ s.notFinish /\ s.headers_ = headers
     /\ \/ s.hState_ = "H_START" /\ i < g /\ s.line_begin = 1
        \/ s.hState_ = "H_KEY" /\ i \in g - 1 .. g + 1 /\ s.line_begin = g

\* Once it is stuck parseHeaders finds no header, and no blank line.
LEMMA StuckTurn ==
  ASSUME NEW K \in Seq(AllKinds), NEW str \in Seq(Token), NEW rest \in Seq(Token),
         NEW h \in ParseStates, NEW H \in SUBSET Token,
         Chain(str \o rest, K), Stuck(str \o rest, h)
  PROVE  LET head == parseHeaders(str, h, H)
             Y == head.str \o rest
         IN /\ Y \in Seq(Token) /\ Chain(Y, K)
            /\ head.flag # "success"
            /\ head.flag = "again" => head.headers_ = H /\ Stuck(Y, head.hState_)
<1> DEFINE X == str \o rest
           n == Len(str)
           s == Scan(str, h, H)
           head == parseHeaders(str, h, H)
           Y == head.str \o rest
<1>1. /\ X \in Seq(Token) /\ n \in Nat /\ n <= Len(X)
      /\ \A j \in 1 .. n : X[j] = str[j]
  BY TakenAway
<1>2. Chain(X, K) /\ Stuck(X, h)
  OBVIOUS
<1>3. PICK f : /\ f[0] = Begin(str, h, H)
               /\ \A i \in 1 .. n : f[i] = Round(i)[f[i - 1]]
               /\ \A i \in 0 .. n : f[i] \in Scanned(str)
               /\ s = f[n]
  BY ScanSteps
<1>4. \A d \in 0 .. Len(str) :
        /\ X \in Seq(Token)
        /\ SubSeq(str, d + 1, Len(str)) \o rest \in Seq(Token)
        /\ Later(X, SubSeq(str, d + 1, Len(str)) \o rest, d)
  BY TakenAway
<1>5. s \in Scanned(str)
  BY ScanType
<1>6. head =
        [flag |-> IF s.error THEN "error"
                  ELSE IF s.hState_ = "H_END_LF" THEN "success" ELSE "again",
         hState_ |-> s.hState_, headers_ |-> s.headers_,
         str |-> IF s.error THEN str
                 ELSE SubSeq(str, IF s.hState_ = "H_END_LF" THEN s.read + 1
                                  ELSE s.line_begin, Len(str))]
  BY DEF parseHeaders
<1> HIDE DEF X, s, head
<1>7. PICK g \in 1 .. Len(X) :
        /\ X[g].c = "G"
        /\ \/ h = "H_START" /\ \A j \in 1 .. g - 1 : X[j].c = "LF"
           \/ h = "H_KEY" /\ g = 1
  BY <1>2 DEF Stuck
<1>8. /\ X[g + 1].c = "line" /\ X[g + 2].c = "CR" /\ g \in Nat /\ g >= 1
      /\ Len(X) \in Nat
  BY <1>1, <1>2, <1>7, RequestLine
<1>9. Jammed(0, f[0], g, H)
  <2>1. /\ f[0].notFinish /\ f[0].headers_ = H /\ f[0].hState_ = h
        /\ f[0].line_begin = 1
    BY <1>3 DEF Begin
  <2>2. h = "H_START" => 0 < g
    BY <1>8
  <2>3. h = "H_KEY" => 0 \in g - 1 .. g + 1 /\ g = 1
    BY <1>7, <1>8
  <2>4. h = "H_START" \/ h = "H_KEY"
    BY <1>7
  <2>5. QED
    BY <2>1, <2>2, <2>3, <2>4 DEF Jammed
<1>10. ASSUME NEW i \in 1 .. n, Jammed(i - 1, f[i - 1], g, H)
       PROVE  Jammed(i, f[i], g, H)
  <2> DEFINE q == f[i - 1]
             r == f[i]
  <2>1. i - 1 \in 0 .. n /\ i \in Nat /\ i >= 1 /\ i \in 1 .. Len(X)
    BY <1>1
  <2>2. r = Round(i)[q] /\ q \in Scanned(str)
    BY <1>3, <2>1
  <2>3. q \in Parsing /\ q.key_start \in Nat
    BY <2>2 DEF Scanned, Parsing
  <2>4. str[i] = X[i]
    BY <1>1
  <2>5. Jammed(i - 1, q, g, H)
    BY <1>10
  <2>6. CASE q.error
    <3>1. r = q
      BY <2>2, <2>3, <2>6 DEF Round
    <3> HIDE DEF q, r
    <3>2. Jammed(i, r, g, H)
      BY <2>6, <3>1 DEF Jammed
    <3>3. QED
      BY <3>2 DEF r
  <2>7. CASE ~q.error
    <3>1. q.notFinish
      BY <2>5, <2>7 DEF Jammed
    <3>2. Effect(q, r, i, X[i].c)
      BY <2>2, <2>4, <2>7, <3>1, RoundEffect
    <3> HIDE DEF q, r
    <3>3. CASE /\ q.hState_ = "H_START" /\ i - 1 < g /\ q.line_begin = 1
               /\ q.headers_ = H
      <4>1. h = "H_START" \/ g = 1
        BY <1>7
      <4>2. CASE i = g
        <5>1. X[i].c = "G" /\ "G" \notin LineEnds
          BY <1>7, <4>2 DEF LineEnds
        <5>2. /\ r.hState_ = "H_KEY" /\ r.notFinish /\ ~r.error
              /\ r.headers_ = H /\ r.line_begin = i
          BY <3>2, <3>3, <5>1 DEF Effect
        <5>3. i \in g - 1 .. g + 1
          BY <1>8, <4>2
        <5>4. Jammed(i, r, g, H)
          BY <4>2, <5>2, <5>3 DEF Jammed
        <5>5. QED
          BY <5>4 DEF r
      <4>3. CASE i # g
        <5>1. i < g /\ i \in 1 .. g - 1 /\ g # 1
          BY <1>8, <2>1, <3>3, <4>3
        <5>2. X[i].c = "LF" /\ "LF" \in LineEnds
          BY <1>7, <5>1 DEF LineEnds
        <5>3. GoesOn(q, r, "H_START")
          BY <3>2, <3>3, <5>2 DEF Effect
        <5>4. Jammed(i, r, g, H)
          BY <3>3, <5>1, <5>3 DEF Jammed, GoesOn
        <5>5. QED
          BY <5>4 DEF r
      <4>4. QED
        BY <4>2, <4>3
    <3>4. CASE /\ q.hState_ = "H_KEY" /\ i - 1 \in g - 1 .. g + 1
               /\ q.line_begin = g /\ q.headers_ = H
      <4>1. CASE i = g + 2
        <5>1. X[i].c = "CR"
          BY <1>8, <4>1
        <5>2. r.error
          BY <3>2, <3>4, <5>1 DEF Effect, LineEnds
        <5>3. Jammed(i, r, g, H)
          BY <5>2 DEF Jammed
        <5>4. QED
          BY <5>3 DEF r
      <4>2. CASE i # g + 2
        <5>1. i = g \/ i = g + 1
          BY <1>8, <2>1, <3>4, <4>2
        <5>2. X[i].c \in {"G", "line"}
          BY <1>7, <1>8, <5>1
        <5>3. GoesOn(q, r, "H_KEY")
          BY <3>2, <3>4, <5>2 DEF Effect, LineEnds
        <5>4. i \in g - 1 .. g + 1
          BY <1>8, <5>1
        <5>5. Jammed(i, r, g, H)
          BY <3>4, <5>3, <5>4 DEF Jammed, GoesOn
        <5>6. QED
          BY <5>5 DEF r
      <4>3. QED
        BY <4>1, <4>2
    <3>5. QED
      BY <2>5, <2>7, <3>3, <3>4 DEF Jammed
  <2>8. QED
    BY <2>6, <2>7
<1>11. Jammed(n, s, g, H)
  <2> DEFINE P == [i \in 0 .. n |-> Jammed(i, f[i], g, H)]
             Yes == {TRUE}
  <2>1. 0 \in 0 .. n /\ n \in 0 .. n
        /\ \A i \in 1 .. n : i - 1 \in 0 .. n /\ i \in 0 .. n
    BY <1>1
  <2>2. P[0] \in Yes
    BY <1>9, <2>1
  <2>3. \A i \in 1 .. n : P[i - 1] \in Yes => P[i] \in Yes
    <3>1. SUFFICES ASSUME NEW i \in 1 .. n, P[i - 1] \in Yes
                   PROVE  P[i] \in Yes
      OBVIOUS
    <3>2. P[i - 1] = Jammed(i - 1, f[i - 1], g, H) /\ P[i] = Jammed(i, f[i], g, H)
      BY <2>1
    <3> HIDE DEF P
    <3>3. Jammed(i - 1, f[i - 1], g, H)
      BY <3>1, <3>2
    <3>4. Jammed(i, f[i], g, H)
      BY <1>10, <3>3
    <3>5. QED
      BY <3>2, <3>4
  <2>4. P[n] = Jammed(n, f[n], g, H)
    BY <2>1
  <2> HIDE DEF P, Yes
  <2>5. \A i \in 0 .. n : P[i] \in Yes
    BY <1>1, <2>2, <2>3, AllAlong
  <2>6. QED
    BY <1>3, <2>1, <2>4, <2>5 DEF Yes
<1>12. CASE s.error
  <2>1. head.flag = "error" /\ head.str = str
    BY <1>6, <1>12
  <2>2. Y = X
    BY <2>1 DEF X
  <2> HIDE DEF Y
  <2>3. QED
    BY <1>1, <1>2, <2>1, <2>2 DEF head, Y
<1>13. CASE ~s.error
  <2> DEFINE d == s.line_begin - 1
  <2>1. /\ s.headers_ = H /\ s.hState_ # "H_END_LF"
        /\ \/ s.hState_ = "H_START" /\ n < g /\ s.line_begin = 1
           \/ s.hState_ = "H_KEY" /\ n \in g - 1 .. g + 1 /\ s.line_begin = g
    BY <1>11, <1>13 DEF Jammed
  <2>2. d \in 0 .. Len(str) /\ s.line_begin = d + 1
    BY <1>1, <1>8, <2>1
  <2>3. /\ head.flag = "again" /\ head.hState_ = s.hState_ /\ head.headers_ = H
        /\ head.str = SubSeq(str, s.line_begin, Len(str))
    BY <1>6, <1>13, <2>1
  <2>4. Y = SubSeq(str, d + 1, Len(str)) \o rest
    BY <2>2, <2>3
  <2>5. Y \in Seq(Token) /\ Later(X, Y, d)
    BY <1>4, <2>2, <2>4
  <2> HIDE DEF Y, d
  <2>6. Chain(Y, K)
    BY <1>1, <1>2, <2>5, LaterText DEF Later
  <2>7. d \in Nat /\ Len(Y) = Len(X) - d /\ Len(Y) \in Nat
        /\ \A i \in 1 .. Len(Y) : Y[i] = X[d + i]
    BY <2>5 DEF Later
  <2>8. CASE s.hState_ = "H_START"
    <3>1. h = "H_START" \/ g = 1
      BY <1>7
    <3>2. d = 0 /\ g \in 1 .. Len(Y)
      BY <1>8, <2>1, <2>2, <2>7, <2>8 DEF d
    <3>3. \A i \in 1 .. Len(Y) : Y[i] = X[i]
      BY <2>7, <3>2
    <3>4. \A j \in 1 .. g - 1 : Y[j].c = "LF" /\ g # 1
      <4>1. \A j \in 1 .. g - 1 : j \in 1 .. Len(Y) /\ g # 1
        BY <1>8, <3>2
      <4>2. QED
        BY <1>7, <3>3, <4>1
    <3>5. Y[g].c = "G"
      BY <1>7, <3>2, <3>3
    <3>6. Stuck(Y, "H_START")
      BY <3>2, <3>4, <3>5 DEF Stuck
    <3>7. QED
      BY <2>3, <2>5, <2>6, <2>8, <3>6 DEF head, Y
  <2>9. CASE s.hState_ = "H_KEY"
    <3>1. g = d + 1 /\ 1 \in 1 .. Len(Y)
      BY <1>7, <1>8, <2>1, <2>2, <2>7, <2>9
    <3>2. Y[1] = X[g]
      BY <2>7, <3>1
    <3>3. Stuck(Y, "H_KEY")
      BY <1>7, <3>1, <3>2 DEF Stuck
    <3>4. QED
      BY <2>3, <2>5, <2>6, <2>9, <3>3 DEF head, Y
  <2>10. QED
    BY <2>1, <2>8, <2>9
<1>14. QED
  BY <1>12, <1>13

-----------------------------------------------------------------------------
(* A request that is in the buffer as a whole.                             *)

\* f are the rounds of the loop over str.
Rounds(str, f) ==
  /\ \A i \in 1 .. Len(str) : f[i] = Round(i)[f[i - 1]]
  /\ \A i \in 0 .. Len(str) : f[i] \in Scanned(str)

At(s, h) == s.notFinish /\ ~s.error /\ s.hState_ = h

\* One of them.
LEMMA OneRound ==
  ASSUME NEW str \in Seq(Token), NEW f, Rounds(str, f),
         NEW i \in 1 .. Len(str), f[i - 1].notFinish, ~f[i - 1].error
  PROVE  /\ f[i].read = i /\ Effect(f[i - 1], f[i], i, str[i].c)
         /\ f[i - 1].str = str /\ f[i - 1].key_start \in Nat
<1>1. i - 1 \in 0 .. Len(str)
  OBVIOUS
<1>2. f[i] = Round(i)[f[i - 1]] /\ f[i - 1] \in Scanned(str)
  BY <1>1 DEF Rounds
<1>3. f[i - 1].str = str /\ f[i - 1].key_start \in Nat
  BY <1>2 DEF Scanned, Parsing
<1>4. QED
  BY <1>2, <1>3, RoundEffect

\* Six more tokens are six places in the text.
LEMMA SixPlaces ==
  ASSUME NEW n \in Nat, NEW j \in Nat, j + 6 <= n
  PROVE  /\ j + 1 \in 1 .. n /\ j + 2 \in 1 .. n
         /\ j + 3 \in 1 .. n /\ j + 4 \in 1 .. n
         /\ j + 5 \in 1 .. n /\ j + 6 \in 1 .. n
OBVIOUS

\* A header line is read to its end, and its name is known then.
LEMMA HeaderLine ==
  ASSUME NEW str \in Seq(Token), NEW f, Rounds(str, f),
         NEW m \in Nat, m + 6 <= Len(str),
         At(f[m], "H_START") \/ At(f[m], "H_LF"),
         str[m + 1].c \in HeaderNames, str[m + 2].c = "colon",
         str[m + 3].c = "space", str[m + 4].c = "value",
         str[m + 5].c = "CR", str[m + 6].c = "LF"
  PROVE  /\ At(f[m + 6], "H_LF")
         /\ f[m + 6].headers_ = f[m].headers_ \cup {str[m + 1]}
<1>1. /\ m + 1 \in 1 .. Len(str) /\ m + 2 \in 1 .. Len(str)
      /\ m + 3 \in 1 .. Len(str) /\ m + 4 \in 1 .. Len(str)
      /\ m + 5 \in 1 .. Len(str) /\ m + 6 \in 1 .. Len(str)
  <2>1. Len(str) \in Nat
    OBVIOUS
  <2>2. QED
    BY <2>1, SixPlaces, ZenonT(30)
<1>2. /\ (m + 1) - 1 = m /\ (m + 2) - 1 = m + 1 /\ (m + 3) - 1 = m + 2
      /\ (m + 4) - 1 = m + 3 /\ (m + 5) - 1 = m + 4 /\ (m + 6) - 1 = m + 5
  OBVIOUS
<1>3. /\ At(f[m + 1], "H_KEY") /\ f[m + 1].headers_ = f[m].headers_
      /\ f[m + 1].key_start = m + 1
  <2>1. Effect(f[m], f[m + 1], m + 1, str[m + 1].c)
    BY <1>1, <1>2, OneRound DEF At
  <2>2. str[m + 1].c \notin LineEnds /\ str[m + 1].c # "CR"
    BY DEF HeaderNames, LineEnds
  <2>3. QED
    BY <2>1, <2>2 DEF Effect, At
<1>4. /\ At(f[m + 2], "H_COLON") /\ f[m + 2].headers_ = f[m].headers_
      /\ f[m + 2].key_start = m + 1 /\ f[m + 2].key_end = m + 2
  <2>1. Effect(f[m + 1], f[m + 2], m + 2, str[m + 2].c)
    BY <1>1, <1>2, <1>3, OneRound DEF At
  <2>2. m + 2 > f[m + 1].key_start
    BY <1>3
  <2>3. QED
    BY <1>3, <2>1, <2>2 DEF Effect, At
<1>5. /\ At(f[m + 3], "H_SPACES_AFTER_COLON")
      /\ f[m + 3].headers_ = f[m].headers_
      /\ f[m + 3].key_start = m + 1 /\ f[m + 3].key_end = m + 2
  <2>1. Effect(f[m + 2], f[m + 3], m + 3, str[m + 3].c)
    BY <1>1, <1>2, <1>4, OneRound DEF At
  <2>2. QED
    BY <1>4, <2>1 DEF Effect, At, GoesOn
<1>6. /\ At(f[m + 4], "H_VALUE") /\ f[m + 4].headers_ = f[m].headers_
      /\ f[m + 4].key_start = m + 1 /\ f[m + 4].key_end = m + 2
  <2>1. Effect(f[m + 3], f[m + 4], m + 4, str[m + 4].c)
    BY <1>1, <1>2, <1>5, OneRound DEF At
  <2>2. QED
    BY <1>5, <2>1 DEF Effect, At, GoesOn
<1>7. /\ At(f[m + 5], "H_CR") /\ f[m + 5].headers_ = f[m].headers_
      /\ f[m + 5].key_start = m + 1 /\ f[m + 5].key_end = m + 2
  <2>1. Effect(f[m + 4], f[m + 5], m + 5, str[m + 5].c)
    BY <1>1, <1>2, <1>6, OneRound DEF At
  <2>2. QED
    BY <1>6, <2>1 DEF Effect, At, GoesOn
<1>8. Effect(f[m + 5], f[m + 6], m + 6, str[m + 6].c) /\ f[m + 5].str = str
  BY <1>1, <1>2, <1>7, OneRound DEF At
<1>9. NameRead(f[m + 5]) = {str[m + 1]}
  <2>1. m + 1 > 0 /\ m + 2 = (m + 1) + 1
    OBVIOUS
  <2>2. QED
    BY <1>7, <1>8, <2>1 DEF NameRead
<1>10. QED
  BY <1>7, <1>8, <1>9 DEF Effect, At

\* When the loop has ended it stays as it is.
LEMMA LoopEnded ==
  ASSUME NEW str \in Seq(Token), NEW f, Rounds(str, f),
         NEW m \in 0 .. Len(str), ~f[m].notFinish \/ f[m].error
  PROVE  f[Len(str)] = f[m]
<1> DEFINE n == Len(str)
           S == {p \in (0 .. n) \X Scanned(str) : p[1] >= m => p[2] = f[m]}
           q == [i \in 0 .. n |-> <<i, f[i]>>]
<1>1. n \in Nat /\ m \in Nat /\ m <= n
  OBVIOUS
<1>2. \A i \in 0 .. n : f[i] \in Scanned(str)
  BY DEF Rounds
<1>3. \A i \in 0 .. n : q[i] = <<i, f[i]>>
  OBVIOUS
<1>4. \A i \in 0 .. n : q[i] \in S <=> (i >= m => f[i] = f[m])
  BY <1>2
<1> HIDE DEF n, S, q
<1>5. q[0] \in S
  <2>1. 0 \in 0 .. n /\ (0 >= m => m = 0)
    BY <1>1
  <2>2. QED
    BY <1>4, <2>1
<1>6. ASSUME NEW i \in 1 .. n, q[i - 1] \in S
      PROVE  q[i] \in S
  <2>1. i \in 0 .. n /\ i - 1 \in 0 .. n /\ (i >= m => i - 1 >= m \/ i = m)
    BY <1>1
  <2>2. i - 1 >= m => f[i - 1] = f[m]
    BY <1>4, <1>6, <2>1
  <2>3. f[i] = Round(i)[f[i - 1]] /\ f[i - 1] \in Parsing
    BY <1>2, <2>1 DEF Rounds, Scanned, n
  <2>4. i - 1 >= m => f[i] = f[i - 1]
    BY <2>2, <2>3 DEF Round
  <2>5. i >= m => f[i] = f[m]
    BY <2>1, <2>2, <2>4
  <2>6. QED
    BY <1>4, <2>1, <2>5
<1>7. \A i \in 0 .. n : q[i] \in S
  BY <1>1, <1>5, <1>6, AllAlong
<1>8. n \in 0 .. n /\ n >= m
  BY <1>1
<1>9. QED
  BY <1>4, <1>7, <1>8 DEF n

\* The head of request k is in the buffer from the line end behind its request
\* line on, and what follows in the buffer is the next request.
HeadAt(str, K, k) ==
  LET h == Len(Names(K[k])) IN
  /\ h \in 0 .. 2 /\ 3 + 6 * h <= Len(str)
  /\ str[1].c = "LF" /\ str[2 + 6 * h].c = "CR" /\ str[3 + 6 * h].c = "LF"
  /\ \A j \in 1 .. h :
       /\ str[6 * j - 4] = [c |-> Names(K[k])[j], id |-> k]
       /\ str[6 * j - 4].c \in HeaderNames
       /\ str[6 * j - 3].c = "colon" /\ str[6 * j - 2].c = "space"
       /\ str[6 * j - 1].c = "value" /\ str[6 * j].c = "CR"
       /\ str[6 * j + 1].c = "LF"
  /\ K[k] \notin Posts /\ 4 + 6 * h <= Len(str) => str[4 + 6 * h].c = "G"

\* So it is when the request is there as a whole.
LEMMA WholeHead ==
  ASSUME NEW K \in Seq(AllKinds), NEW k \in 1 .. Len(K), k <= MaxRequests,
         NEW str \in Seq(Token), NEW rest \in Seq(Token),
         WholeAt(str \o rest, 1, K, k, 4),
         Len(str) >= Len(Text(k, K[k])) - 3
  PROVE  HeadAt(str, K, k)
<1> DEFINE kd == K[k]
           h == Len(Names(kd))
           q == Request[kd]
           t == Text(k, kd)
           X == str \o rest
           N == Names(kd)
<1>1. kd \in AllKinds /\ k \in 1 .. MaxRequests /\ Len(str) \in Nat
  OBVIOUS
<1>2. /\ h \in 0 .. 2 /\ (kd = "post" => h = 1)
      /\ \A j \in 1 .. h : N[j] \in HeaderNames
      /\ Len(q) = 6 + 6 * h + (IF kd = "post" THEN 2 ELSE 0)
      /\ q[4] = "LF"
      /\ \A j \in 1 .. h :
           /\ q[6 * j - 1] = N[j] /\ q[6 * j] = "colon"
           /\ q[6 * j + 1] = "space" /\ q[6 * j + 2] = "value"
           /\ q[6 * j + 3] = "CR" /\ q[6 * j + 4] = "LF"
      /\ q[5 + 6 * h] = "CR" /\ q[6 + 6 * h] = "LF"
  BY <1>1, RequestShape
<1>3. Spelled(t, k, kd)
  BY <1>1, TextGrammar
<1>4. /\ \A p \in 4 .. Len(t) : 1 + (p - 4) <= Len(X) /\ X[1 + (p - 4)] = t[p]
      /\ 1 + (Len(t) - 4) + 1 <= Len(X) => X[1 + (Len(t) - 4) + 1].c = "G"
  BY DEF WholeAt
<1>5. /\ \A j \in 1 .. Len(str) : X[j] = str[j]
      /\ Len(X) = Len(str) + Len(rest) /\ Len(rest) \in Nat
  BY TakenAway
<1>6. /\ Len(str) >= Len(t) - 3 /\ k \in Nat
      /\ \A j \in 1 .. Len(str) : str[j] \in Token
  OBVIOUS
<1> DEFINE Goal ==
         /\ h \in 0 .. 2 /\ 3 + 6 * h <= Len(str)
         /\ str[1].c = "LF" /\ str[2 + 6 * h].c = "CR" /\ str[3 + 6 * h].c = "LF"
         /\ \A j \in 1 .. h :
              /\ str[6 * j - 4] = [c |-> N[j], id |-> k]
              /\ str[6 * j - 4].c \in HeaderNames
              /\ str[6 * j - 3].c = "colon" /\ str[6 * j - 2].c = "space"
              /\ str[6 * j - 1].c = "value" /\ str[6 * j].c = "CR"
              /\ str[6 * j + 1].c = "LF"
         /\ kd \notin Posts /\ 4 + 6 * h <= Len(str) => str[4 + 6 * h].c = "G"
<1> SUFFICES Goal
  BY DEF HeadAt
<1> HIDE DEF kd, h, q, t, X, N
<1>7. /\ Len(t) = Len(q)
      /\ \A p \in 1 .. Len(t) : t[p].c = q[p] /\ t[p].id = k
  BY <1>3 DEF Spelled, q
<1>8. /\ Len(t) = 6 + 6 * h + (IF kd = "post" THEN 2 ELSE 0)
      /\ Len(t) \in Nat /\ Len(t) >= 6 + 6 * h /\ Len(str) >= 3 + 6 * h
  BY <1>1, <1>2, <1>6, <1>7
<1>9. \A p \in 4 .. Len(t) : str[p - 3] = t[p] /\ str[p - 3] \in Token
  <2>1. SUFFICES ASSUME NEW p \in 4 .. Len(t)
                 PROVE  str[p - 3] = t[p] /\ str[p - 3] \in Token
    OBVIOUS
  <2>2. p - 3 \in 1 .. Len(str) /\ 1 + (p - 4) = p - 3
    BY <1>1, <1>6, <1>8
  <2>3. QED
    BY <1>4, <1>5, <1>6, <2>2
<1>10. \A p \in 4 .. Len(t) : str[p - 3].c = q[p] /\ str[p - 3].id = k
                              /\ str[p - 3] \in Token
  <2>1. \A p \in 4 .. Len(t) : p \in 1 .. Len(t)
    BY <1>8
  <2>2. QED
    BY <1>7, <1>9, <2>1
<1>11. str[1].c = "LF" /\ str[2 + 6 * h].c = "CR" /\ str[3 + 6 * h].c = "LF"
  <2>1. /\ 4 \in 4 .. Len(t) /\ 5 + 6 * h \in 4 .. Len(t)
        /\ 6 + 6 * h \in 4 .. Len(t)
        /\ 4 - 3 = 1 /\ (5 + 6 * h) - 3 = 2 + 6 * h /\ (6 + 6 * h) - 3 = 3 + 6 * h
    BY <1>2, <1>8
  <2>2. /\ str[4 - 3].c = q[4] /\ str[(5 + 6 * h) - 3].c = q[5 + 6 * h]
        /\ str[(6 + 6 * h) - 3].c = q[6 + 6 * h]
    BY <1>10, <2>1, Zenon
  <2>3. QED
    BY <1>2, <2>1, <2>2
<1>12. ASSUME NEW j \in 1 .. h
       PROVE  /\ str[6 * j - 4] = [c |-> N[j], id |-> k]
              /\ str[6 * j - 4].c \in HeaderNames
              /\ str[6 * j - 3].c = "colon" /\ str[6 * j - 2].c = "space"
              /\ str[6 * j - 1].c = "value" /\ str[6 * j].c = "CR"
              /\ str[6 * j + 1].c = "LF"
  <2>1. /\ 6 * j - 1 \in 4 .. Len(t) /\ 6 * j \in 4 .. Len(t)
        /\ 6 * j + 1 \in 4 .. Len(t) /\ 6 * j + 2 \in 4 .. Len(t)
        /\ 6 * j + 3 \in 4 .. Len(t) /\ 6 * j + 4 \in 4 .. Len(t)
    BY <1>2, <1>8
  <2>2. /\ (6 * j - 1) - 3 = 6 * j - 4 /\ (6 * j) - 3 = 6 * j - 3
        /\ (6 * j + 1) - 3 = 6 * j - 2 /\ (6 * j + 2) - 3 = 6 * j - 1
        /\ (6 * j + 3) - 3 = 6 * j /\ (6 * j + 4) - 3 = 6 * j + 1
    BY <1>2
  <2>3. /\ str[(6 * j - 1) - 3].c = q[6 * j - 1]
        /\ str[(6 * j - 1) - 3].id = k /\ str[(6 * j - 1) - 3] \in Token
        /\ str[(6 * j) - 3].c = q[6 * j]
        /\ str[(6 * j + 1) - 3].c = q[6 * j + 1]
        /\ str[(6 * j + 2) - 3].c = q[6 * j + 2]
        /\ str[(6 * j + 3) - 3].c = q[6 * j + 3]
        /\ str[(6 * j + 4) - 3].c = q[6 * j + 4]
    BY <1>10, <2>1, Zenon
  <2>4. /\ q[6 * j - 1] = N[j] /\ q[6 * j] = "colon"
        /\ q[6 * j + 1] = "space" /\ q[6 * j + 2] = "value"
        /\ q[6 * j + 3] = "CR" /\ q[6 * j + 4] = "LF" /\ N[j] \in HeaderNames
    BY <1>2
  <2>5. /\ str[6 * j - 3].c = "colon" /\ str[6 * j - 2].c = "space"
        /\ str[6 * j - 1].c = "value" /\ str[6 * j].c = "CR"
        /\ str[6 * j + 1].c = "LF"
    BY <2>2, <2>3, <2>4
  <2>6. /\ str[6 * j - 4].c = N[j] /\ str[6 * j - 4].id = k
        /\ str[6 * j - 4] \in Token
    BY <2>2, <2>3, <2>4
  <2>7. str[6 * j - 4] = [c |-> N[j], id |-> k]
    <3> DEFINE x == str[6 * j - 4]
    <3>1. x.c = N[j] /\ x.id = k /\ x \in Token
      BY <2>6
    <3> HIDE DEF x
    <3>2. x = [c |-> N[j], id |-> k]
      BY <3>1 DEF Token
    <3>3. QED
      BY <3>2 DEF x
  <2>8. QED
    BY <2>4, <2>5, <2>6, <2>7
<1>13. ASSUME kd \notin Posts, 4 + 6 * h <= Len(str)
       PROVE  str[4 + 6 * h].c = "G"
  <2>1. Len(t) = 6 + 6 * h
    <3>1. kd # "post"
      BY <1>13 DEF Posts
    <3>2. h \in Nat
      BY <1>2
    <3>3. Len(t) = 6 + 6 * h + 0
      BY <1>8, <3>1
    <3>4. QED
      BY <3>2, <3>3
  <2>2. /\ 1 + (Len(t) - 4) + 1 = 4 + 6 * h /\ 4 + 6 * h <= Len(X)
        /\ 4 + 6 * h \in 1 .. Len(str)
    <3>1. h \in Nat /\ Len(str) \in Nat /\ 4 + 6 * h \in Nat
      BY <1>1, <1>2
    <3>2. 4 + 6 * h \in 1 .. Len(str) /\ 4 + 6 * h <= Len(X)
      BY <1>5, <1>13, <3>1
    <3>3. 1 + (Len(t) - 4) + 1 = 4 + 6 * h
      BY <2>1, <3>1
    <3>4. QED
      BY <3>2, <3>3
  <2>3. X[4 + 6 * h].c = "G"
    BY <1>4, <2>2
  <2>4. QED
    BY <1>5, <2>2, <2>3
<1>14. QED
  BY <1>2, <1>8, <1>11, <1>12, <1>13

\* What is left of a request whose "G" has been taken: it will be refused.
Lost(X) == Len(X) >= 2 /\ X[1].c # "G" /\ X[2].c = "CR"

\* A name is one of the headers'.
LEMMA NamesType ==
  ASSUME NEW k \in AllKinds
  PROVE  Names(k) \in Seq(HeaderNames)
BY DEF Names, HeaderNames, AllKinds

\* The round after j, while the loop goes on.
LEMMA RoundAt ==
  ASSUME NEW str \in Seq(Token), NEW f, Rounds(str, f), NEW h,
         NEW j \in Nat, NEW i \in 1 .. Len(str), i = j + 1, At(f[j], h)
  PROVE  Effect(f[j], f[i], i, str[i].c) /\ f[i].read = i
<1>1. i - 1 = j
  OBVIOUS
<1>2. f[i - 1].notFinish /\ ~f[i - 1].error
  BY <1>1 DEF At
<1>3. Effect(f[i - 1], f[i], i, str[i].c) /\ f[i].read = i
  BY <1>2, OneRound
<1>4. QED
  BY <1>1, <1>3

\* The head of a request that is in the buffer as a whole is read at once, with
\* all its names, and with the first character behind it; unless it has no
\* names, then the parser goes on waiting, or fails at the next request line.
\* When no other request is in the buffer it neither fails nor leaves anything
\* of a request without a body.
LEMMA WholeTurn ==
  ASSUME NEW K \in Seq(AllKinds), NEW k \in 1 .. Len(K), k <= MaxRequests,
         NEW str \in Seq(Token), NEW rest \in Seq(Token),
         Chain(str \o rest, K), rest # <<>> => rest[1].c = "G",
         WholeAt(str \o rest, 1, K, k, 4),
         Len(str) >= Len(Text(k, K[k])) - 3
  PROVE  LET head == parseHeaders(str, "H_START", {})
             Y == head.str \o rest
         IN /\ head.flag = "again" =>
                 head.str = str /\ head.hState_ = "H_START" /\ head.headers_ = {}
            /\ head.flag = "success" =>
                 /\ head.headers_ = OwnNames(K, k)
                 /\ K[k] \in Posts \/ head.str = <<>> \/ Lost(Y)
            /\ (\A i \in 1 .. Len(str) : str[i].c # "G") =>
                 /\ head.flag # "error"
                 /\ head.flag = "success" /\ K[k] \notin Posts => head.str = <<>>
<1>0. HeadAt(str, K, k)
  BY WholeHead
<1> DEFINE h == Len(Names(K[k]))
           n == Len(str)
           X == str \o rest
           s == Scan(str, "H_START", {})
           head == parseHeaders(str, "H_START", {})
           Y == head.str \o rest
           N == Names(K[k])
<1>1. /\ h \in 0 .. 2 /\ 3 + 6 * h <= n
      /\ str[1].c = "LF" /\ str[2 + 6 * h].c = "CR" /\ str[3 + 6 * h].c = "LF"
      /\ \A j \in 1 .. h :
           /\ str[6 * j - 4] = [c |-> N[j], id |-> k]
           /\ str[6 * j - 4].c \in HeaderNames
           /\ str[6 * j - 3].c = "colon" /\ str[6 * j - 2].c = "space"
           /\ str[6 * j - 1].c = "value" /\ str[6 * j].c = "CR"
           /\ str[6 * j + 1].c = "LF"
      /\ K[k] \notin Posts /\ 4 + 6 * h <= n => str[4 + 6 * h].c = "G"
  BY <1>0 DEF HeadAt
<1>2. h = 0 => K[k] \notin Posts
  BY DEF Names, Posts
<1>3. DOMAIN N = 1 .. h
  <2>1. K[k] \in AllKinds
    OBVIOUS
  <2>2. N \in Seq(HeaderNames)
    BY <2>1, NamesType
  <2>3. QED
    BY <2>2
<1>4. /\ X \in Seq(Token) /\ n \in Nat /\ n <= Len(X)
      /\ Len(X) = n + Len(rest) /\ Len(rest) \in Nat
      /\ \A j \in 1 .. n : X[j] = str[j]
  BY TakenAway
<1>5. PICK f : /\ f[0] = Begin(str, "H_START", {})
               /\ \A i \in 1 .. n : f[i] = Round(i)[f[i - 1]]
               /\ \A i \in 0 .. n : f[i] \in Scanned(str)
               /\ s = f[n]
  BY ScanSteps DEF ParseStates
<1>6. Rounds(str, f)
  BY <1>5 DEF Rounds
<1>7. head =
        [flag |-> IF s.error THEN "error"
                  ELSE IF s.hState_ = "H_END_LF" THEN "success" ELSE "again",
         hState_ |-> s.hState_, headers_ |-> s.headers_,
         str |-> IF s.error THEN str
                 ELSE SubSeq(str, IF s.hState_ = "H_END_LF" THEN s.read + 1
                                  ELSE s.line_begin, Len(str))]
  BY DEF parseHeaders
<1>8. \A d \in 0 .. Len(str) :
        /\ SubSeq(str, d + 1, Len(str)) \o rest \in Seq(Token)
        /\ Later(X, SubSeq(str, d + 1, Len(str)) \o rest, d)
  BY TakenAway
<1>9. OwnNames(K, k) = {[c |-> N[j], id |-> k] : j \in 1 .. h}
  BY <1>3 DEF OwnNames
<1>10. \A i \in 1 .. Len(rest) : X[n + i] = rest[i]
  OBVIOUS
<1>11. Chain(X, K) /\ (rest # <<>> => rest[1].c = "G")
  OBVIOUS
<1> HIDE DEF s, head, h, N, X, n
<1>12. At(f[0], "H_START") /\ f[0].headers_ = {} /\ f[0].line_begin = 1
  BY <1>5 DEF Begin, At
<1>13. At(f[1], "H_START") /\ f[1].headers_ = {} /\ f[1].line_begin = 1
  <2>1. 1 \in 1 .. Len(str) /\ 1 - 1 = 0
    BY <1>1, <1>4 DEF n
  <2>2. Effect(f[0], f[1], 1, str[1].c)
    BY <1>6, <1>12, <2>1, OneRound DEF At
  <2>3. "LF" \in LineEnds
    BY DEF LineEnds
  <2>4. QED
    BY <1>1, <1>12, <2>2, <2>3 DEF Effect, At, GoesOn
<1>14. CASE h = 0
  <2>1. str[2].c = "CR" /\ str[3].c = "LF" /\ 3 <= n /\ (4 <= n => str[4].c = "G")
    BY <1>1, <1>2, <1>14
  <2>2. 2 \in 1 .. Len(str) /\ 2 - 1 = 1 /\ 3 \in 1 .. Len(str) /\ 3 - 1 = 2
    BY <1>4, <2>1 DEF n
  <2>3. "LF" \in LineEnds /\ "CR" \in LineEnds /\ "G" \notin LineEnds
        /\ "line" \notin LineEnds
    BY DEF LineEnds
  <2>4. At(f[2], "H_START") /\ f[2].headers_ = {} /\ f[2].line_begin = 1
    <3>1. Effect(f[1], f[2], 2, str[2].c)
      BY <1>6, <1>13, <2>2, OneRound DEF At
    <3>2. QED
      BY <1>13, <2>1, <2>3, <3>1 DEF Effect, At, GoesOn
  <2>5. At(f[3], "H_START") /\ f[3].headers_ = {} /\ f[3].line_begin = 1
    <3>1. Effect(f[2], f[3], 3, str[3].c)
      BY <1>6, <2>2, <2>4, OneRound DEF At
    <3>2. QED
      BY <2>1, <2>3, <2>4, <3>1 DEF Effect, At, GoesOn
  <2>6. CASE n = 3
    <3>1. /\ ~s.error /\ s.hState_ = "H_START" /\ s.headers_ = {}
          /\ s.line_begin = 1
      BY <1>5, <2>5, <2>6 DEF At
    <3>2. /\ head.flag = "again" /\ head.hState_ = "H_START"
          /\ head.headers_ = {} /\ head.str = SubSeq(str, 1, Len(str))
      BY <1>7, <3>1
    <3>3. SubSeq(str, 1, Len(str)) = str
      OBVIOUS
    <3> HIDE DEF Y
    <3>4. QED
      BY <3>2, <3>3 DEF head
  <2>7. CASE n # 3
    <3>1. 4 <= n /\ 4 \in 1 .. Len(X) /\ X[4].c = "G"
      BY <1>4, <2>1, <2>7
    <3>2. X[5].c = "line" /\ X[6].c = "CR" /\ 7 \in 1 .. Len(X)
      <4>1. 4 + 1 = 5 /\ 4 + 2 = 6 /\ 4 + 3 = 7
        OBVIOUS
      <4>2. /\ X[4 + 1].c = "line" /\ X[4 + 2].c = "CR"
            /\ 4 + 3 \in 1 .. Len(X)
        BY <1>4, <1>11, <3>1, RequestLine
      <4>3. QED
        BY <4>1, <4>2
    <3>3. rest # <<>> => X[n + 1].c = "G" /\ Len(rest) >= 1
      <4>1. rest # <<>> => 1 \in 1 .. Len(rest)
        OBVIOUS
      <4>2. QED
        BY <1>4, <1>10, <1>11, <4>1
    <3>4. rest = <<>> => Len(X) = n
      BY <1>4
    <3>5. n # 4 /\ n # 5
      BY <3>2, <3>3, <3>4
    <3>6. 6 <= n
      BY <1>4, <3>1, <3>5
    <3>7. /\ 4 \in 1 .. Len(str) /\ 5 \in 1 .. Len(str) /\ 6 \in 1 .. Len(str)
          /\ 4 - 1 = 3 /\ 5 - 1 = 4 /\ 6 - 1 = 5
          /\ 6 \in 0 .. Len(str)
      BY <1>4, <3>6 DEF n
    <3>8. str[4].c = "G" /\ str[5].c = "line" /\ str[6].c = "CR"
      BY <1>4, <3>1, <3>2, <3>7 DEF n
    <3>9. At(f[4], "H_KEY")
      <4>1. Effect(f[3], f[4], 4, str[4].c)
        BY <1>6, <2>5, <3>7, OneRound DEF At
      <4>2. QED
        BY <2>3, <2>5, <3>8, <4>1 DEF Effect, At
    <3>10. At(f[5], "H_KEY")
      <4>1. Effect(f[4], f[5], 5, str[5].c)
        BY <1>6, <3>7, <3>9, OneRound DEF At
      <4>2. QED
        BY <2>3, <3>8, <3>9, <4>1 DEF Effect, At, GoesOn
    <3>11. f[6].error
      <4>1. 5 \in Nat /\ 6 = 5 + 1
        OBVIOUS
      <4>2. Effect(f[5], f[6], 6, str[6].c)
        BY <1>6, <3>7, <3>10, <4>1, RoundAt
      <4>3. QED
        BY <2>3, <3>8, <3>10, <4>2 DEF Effect, At
    <3>12. s = f[6]
      BY <1>5, <1>6, <3>7, <3>11, LoopEnded DEF n
    <3>13. head.flag = "error"
      BY <1>7, <3>11, <3>12
    <3>14. \E i \in 1 .. Len(str) : str[i].c = "G"
      BY <3>7, <3>8
    <3> HIDE DEF Y
    <3>15. QED
      BY <3>13, <3>14 DEF head
  <2>8. QED
    BY <2>6, <2>7
<1>15. CASE h # 0
  <2>1. 1 \in 1 .. h /\ (h = 2 => 2 \in 1 .. h) /\ (h = 1 \/ h = 2)
    BY <1>1, <1>15
  <2>2. /\ At(f[7], "H_LF") /\ f[7].headers_ = {str[2]}
        /\ str[2] = [c |-> N[1], id |-> k]
    <3>1. /\ 6 * 1 - 4 = 2 /\ 6 * 1 - 3 = 3 /\ 6 * 1 - 2 = 4 /\ 6 * 1 - 1 = 5
          /\ 6 * 1 = 6 /\ 6 * 1 + 1 = 7
      OBVIOUS
    <3>2. /\ str[6 * 1 - 4] = [c |-> N[1], id |-> k]
          /\ str[6 * 1 - 4].c \in HeaderNames
          /\ str[6 * 1 - 3].c = "colon" /\ str[6 * 1 - 2].c = "space"
          /\ str[6 * 1 - 1].c = "value" /\ str[6 * 1].c = "CR"
          /\ str[6 * 1 + 1].c = "LF"
      BY <1>1, <2>1, Zenon
    <3>3. /\ str[2].c \in HeaderNames /\ str[2] = [c |-> N[1], id |-> k]
          /\ str[3].c = "colon" /\ str[4].c = "space" /\ str[5].c = "value"
          /\ str[6].c = "CR" /\ str[7].c = "LF"
      BY <3>1, <3>2
    <3>4. /\ 1 + 6 = 7 /\ 1 + 1 = 2 /\ 1 + 2 = 3 /\ 1 + 3 = 4 /\ 1 + 4 = 5
          /\ 1 + 5 = 6 /\ 1 \in Nat
      OBVIOUS
    <3>5. 1 + 6 <= Len(str)
      BY <1>1, <1>4, <2>1 DEF n
    <3>6. /\ At(f[1 + 6], "H_LF")
          /\ f[1 + 6].headers_ = f[1].headers_ \cup {str[1 + 1]}
      <4>1. /\ str[1 + 1].c \in HeaderNames /\ str[1 + 2].c = "colon"
            /\ str[1 + 3].c = "space" /\ str[1 + 4].c = "value"
            /\ str[1 + 5].c = "CR" /\ str[1 + 6].c = "LF"
        BY <3>3, <3>4
      <4>2. QED
        BY <1>6, <1>13, <3>4, <3>5, <4>1, HeaderLine, Zenon
    <3>7. QED
      BY <1>13, <3>3, <3>4, <3>6
  <2> DEFINE e == 1 + 6 * h
  <2>3. At(f[e], "H_LF") /\ f[e].headers_ = OwnNames(K, k)
    <3>1. CASE h = 1
      <4>1. OwnNames(K, k) = {[c |-> N[1], id |-> k]}
        BY <1>9, <3>1
      <4>2. e = 7
        BY <3>1
      <4> HIDE DEF e
      <4>3. QED
        BY <2>2, <4>1, <4>2
    <3>2. CASE h = 2
      <4>1. /\ 6 * 2 - 4 = 8 /\ 6 * 2 - 3 = 9 /\ 6 * 2 - 2 = 10
            /\ 6 * 2 - 1 = 11 /\ 6 * 2 = 12 /\ 6 * 2 + 1 = 13
        OBVIOUS
      <4>2. /\ str[6 * 2 - 4] = [c |-> N[2], id |-> k]
            /\ str[6 * 2 - 4].c \in HeaderNames
            /\ str[6 * 2 - 3].c = "colon" /\ str[6 * 2 - 2].c = "space"
            /\ str[6 * 2 - 1].c = "value" /\ str[6 * 2].c = "CR"
            /\ str[6 * 2 + 1].c = "LF"
        BY <1>1, <2>1, <3>2, Zenon
      <4>3. /\ str[8].c \in HeaderNames /\ str[8] = [c |-> N[2], id |-> k]
            /\ str[9].c = "colon" /\ str[10].c = "space" /\ str[11].c = "value"
            /\ str[12].c = "CR" /\ str[13].c = "LF"
        BY <4>1, <4>2
      <4>4. /\ 7 + 6 = 13 /\ 7 + 1 = 8 /\ 7 + 2 = 9 /\ 7 + 3 = 10 /\ 7 + 4 = 11
            /\ 7 + 5 = 12 /\ 7 \in Nat
        OBVIOUS
      <4>5. 7 + 6 <= Len(str)
        BY <1>1, <1>4, <3>2 DEF n
      <4>6. /\ At(f[7 + 6], "H_LF")
            /\ f[7 + 6].headers_ = f[7].headers_ \cup {str[7 + 1]}
        <5>1. /\ str[7 + 1].c \in HeaderNames /\ str[7 + 2].c = "colon"
              /\ str[7 + 3].c = "space" /\ str[7 + 4].c = "value"
              /\ str[7 + 5].c = "CR" /\ str[7 + 6].c = "LF"
          BY <4>3, <4>4
        <5>2. QED
          BY <1>6, <2>2, <4>4, <4>5, <5>1, HeaderLine, ZenonT(60)
      <4>7. OwnNames(K, k) = {[c |-> N[1], id |-> k], [c |-> N[2], id |-> k]}
        <5>1. \A j : j \in 1 .. 2 <=> j = 1 \/ j = 2
          OBVIOUS
        <5>2. OwnNames(K, k) = {[c |-> N[j], id |-> k] : j \in 1 .. 2}
          BY <1>9, <3>2
        <5>3. QED
          BY <5>1, <5>2
      <4>8. e = 13
        BY <3>2
      <4> HIDE DEF e
      <4>9. f[13].headers_ = {str[2]} \cup {str[8]} /\ At(f[13], "H_LF")
        BY <2>2, <4>4, <4>6
      <4>10. {str[2]} \cup {str[8]} = OwnNames(K, k)
        BY <2>2, <4>3, <4>7
      <4>11. QED
        BY <4>8, <4>9, <4>10
    <3>3. QED
      BY <2>1, <3>1, <3>2
  <2>4. /\ e \in Nat /\ e + 1 = 2 + 6 * h /\ e + 2 = 3 + 6 * h
        /\ e + 3 = 4 + 6 * h /\ e + 2 <= n
    BY <1>1
  <2>5. /\ e + 1 \in 1 .. Len(str) /\ e + 2 \in 1 .. Len(str)
        /\ e + 1 \in Nat /\ e + 2 \in Nat
        /\ e + 2 = (e + 1) + 1 /\ e + 3 = (e + 2) + 1
        /\ n # e + 2 => e + 3 \in 1 .. Len(str) /\ e + 3 <= n
    <3>1. n = Len(str)
      BY DEF n
    <3>2. e \in Nat /\ e + 2 <= n /\ n \in Nat
      BY <1>4, <2>4
    <3> HIDE DEF e
    <3>3. QED
      BY <3>1, <3>2, SMTT(30)
  <2>6. str[e + 1].c = "CR" /\ str[e + 2].c = "LF"
    BY <1>1, <2>4
  <2>7. K[k] \notin Posts /\ e + 3 <= n => str[e + 3].c = "G"
    BY <1>1, <2>4
  <2> HIDE DEF e
  <2>8. At(f[e + 1], "H_END_CR") /\ f[e + 1].headers_ = OwnNames(K, k)
    <3>1. Effect(f[e], f[e + 1], e + 1, str[e + 1].c)
      BY <1>6, <2>3, <2>4, <2>5, RoundAt
    <3>2. QED
      BY <2>3, <2>6, <3>1 DEF Effect, At, GoesOn
  <2>9. /\ At(f[e + 2], "H_END_LF") /\ f[e + 2].headers_ = OwnNames(K, k)
        /\ f[e + 2].read = e + 2
    <3>1. Effect(f[e + 1], f[e + 2], e + 2, str[e + 2].c) /\ f[e + 2].read = e + 2
      BY <1>6, <2>5, <2>8, RoundAt, ZenonT(60)
    <3>2. QED
      BY <2>6, <2>8, <3>1 DEF Effect, At, GoesOn
  <2>10. CASE n = e + 2
    <3>1. /\ ~s.error /\ s.hState_ = "H_END_LF" /\ s.headers_ = OwnNames(K, k)
          /\ s.read = n
      BY <1>5, <2>9, <2>10 DEF At
    <3>2. /\ head.flag = "success" /\ head.headers_ = OwnNames(K, k)
          /\ head.str = SubSeq(str, n + 1, n)
      BY <1>7, <3>1 DEF n
    <3>3. SubSeq(str, n + 1, n) = <<>>
      BY <1>4
    <3> HIDE DEF Y
    <3>4. QED
      BY <3>2, <3>3 DEF head
  <2>11. CASE n # e + 2
    <3>1. Effect(f[e + 2], f[e + 3], e + 3, str[e + 3].c) /\ f[e + 3].read = e + 3
      BY <1>6, <2>5, <2>9, <2>11, RoundAt, ZenonT(60)
    <3>2. /\ ~f[e + 3].notFinish /\ ~f[e + 3].error
          /\ f[e + 3].hState_ = "H_END_LF" /\ f[e + 3].headers_ = OwnNames(K, k)
      BY <2>9, <3>1 DEF Effect, At
    <3>3. s = f[e + 3]
      <4>1. e + 3 \in 0 .. Len(str)
        BY <2>5, <2>11
      <4>2. QED
        BY <1>5, <1>6, <3>2, <4>1, LoopEnded DEF n
    <3>4. /\ head.flag = "success" /\ head.headers_ = OwnNames(K, k)
          /\ head.str = SubSeq(str, (e + 3) + 1, Len(str))
      BY <1>7, <3>1, <3>2, <3>3
    <3>5. Later(X, Y, e + 3) /\ Y \in Seq(Token)
      <4>1. e + 3 \in 0 .. Len(str)
        BY <2>5, <2>11
      <4>2. QED
        BY <1>8, <3>4, <4>1
    <3> HIDE DEF Y
    <3>6. ASSUME K[k] \notin Posts
          PROVE  Lost(Y)
      <4> DEFINE g == e + 3
      <4>1. g \in 1 .. Len(X) /\ X[g].c = "G" /\ g \in Nat
        <5>1. g \in 1 .. Len(str) /\ g <= n
          BY <2>5, <2>11
        <5>2. str[g].c = "G"
          BY <2>7, <3>6, <5>1
        <5> HIDE DEF g
        <5>3. g \in 1 .. n /\ g \in 1 .. Len(X)
          BY <1>4, <5>1 DEF n
        <5>4. QED
          BY <1>4, <5>2, <5>3
      <4>2. Later(X, Y, g)
        BY <3>5
      <4> HIDE DEF g
      <4>3. /\ g + 3 \in 1 .. Len(X)
            /\ X[g + 1].c = "line" /\ X[g + 2].c = "CR"
        BY <1>4, <1>11, <4>1, RequestLine
      <4>4. /\ Len(Y) = Len(X) - g /\ \A i \in 1 .. Len(Y) : Y[i] = X[g + i]
        BY <4>2 DEF Later
      <4>5. Len(X) \in Nat
        BY <1>4
      <4>6. 1 \in 1 .. Len(Y) /\ 2 \in 1 .. Len(Y) /\ Len(Y) >= 2
        BY <4>1, <4>3, <4>4, <4>5
      <4>7. Y[1] = X[g + 1] /\ Y[2] = X[g + 2]
        BY <4>4, <4>6
      <4>8. QED
        BY <4>3, <4>6, <4>7 DEF Lost
    <3>7. K[k] \notin Posts => \E i \in 1 .. Len(str) : str[i].c = "G"
      BY <2>5, <2>7, <2>11
    <3>8. QED
      BY <3>4, <3>6, <3>7 DEF head, Y
  <2>12. QED
    BY <2>10, <2>11
<1>16. QED
  BY <1>14, <1>15

\* When requests arrive in one piece, so that what is not in the buffer yet
\* begins with one, the request line that is found is complete, and the rest of
\* its request is in the buffer.
LEMMA WholeLine ==
  ASSUME NEW K \in Seq(AllKinds), NEW k \in 1 .. Len(K), k <= MaxRequests,
         NEW str \in Seq(Token), NEW rest \in Seq(Token),
         Chain(str \o rest, K), rest # <<>> => rest[1].c = "G",
         parseURI(str).success, parseURI(str).id = k
  PROVE  /\ WholeAt(parseURI(str).str \o rest, 1, K, k, 4)
         /\ Len(parseURI(str).str) >= Len(Text(k, K[k])) - 3
<1> DEFINE X == str \o rest
           Y == parseURI(str).str \o rest
           t == Text(k, K[k])
           n == Len(str)
           L == Len(t)
<1>1. PICK pos \in 0 .. Len(str) :
        /\ pos = 0 => \A i \in 1 .. Len(str) : str[i].c # "CR"
        /\ pos # 0 => /\ str[pos].c = "CR"
                      /\ \A i \in 1 .. pos - 1 : str[i].c # "CR"
        /\ parseURI(str).str = SubSeq(str, pos + 1, Len(str))
        /\ \E g \in 1 .. Len(str) - 1 :
             /\ pos # 0 => g + 1 < pos
             /\ str[g].c = "G" /\ str[g + 1].c = "line"
             /\ parseURI(str).id = str[g].id
  BY UriShape
<1>2. PICK g \in 1 .. Len(str) - 1 :
        /\ pos # 0 => g + 1 < pos
        /\ str[g].c = "G" /\ str[g + 1].c = "line"
        /\ parseURI(str).id = str[g].id
  BY <1>1
<1>3. /\ X \in Seq(Token) /\ Y \in Seq(Token) /\ Later(X, Y, pos)
      /\ Len(X) = Len(str) + Len(rest)
      /\ \A i \in 1 .. Len(str) : X[i] = str[i]
  BY <1>1, TakenAway
<1>4. Chain(X, K)
  OBVIOUS
<1>5. /\ n \in Nat /\ n = Len(str) /\ Len(rest) \in Nat /\ Len(X) = n + Len(rest)
      /\ \A i \in 1 .. Len(rest) : X[n + i] = rest[i]
      /\ Len(parseURI(str).str) = n - pos
  BY <1>1
<1>6. rest # <<>> => rest[1].c = "G" /\ 1 \in 1 .. Len(rest)
  OBVIOUS
<1>7. rest = <<>> => Len(rest) = 0
  OBVIOUS
<1>8. Spelled(t, k, K[k])
  <2>1. K[k] \in AllKinds /\ k \in 1 .. MaxRequests
    BY SessionAssumption
  <2>2. QED
    BY <2>1, TextGrammar
<1> HIDE DEF X, Y, n, t
<1>9. L \in Nat /\ L >= 6 /\ \A p \in 2 .. L : t[p].c # "G"
  BY <1>8 DEF Spelled
<1>10. g \in 1 .. n /\ g \in 1 .. Len(X) /\ X[g].c = "G" /\ X[g].id = k
  <2>1. g \in 1 .. Len(str) /\ g \in 1 .. n /\ g \in 1 .. Len(X)
    BY <1>2, <1>5
  <2>2. X[g] = str[g]
    BY <1>3, <2>1
  <2>3. QED
    BY <1>2, <2>1, <2>2
<1>11. g + 3 \in 1 .. Len(X) /\ X[g + 2].c = "CR"
  BY <1>3, <1>4, <1>10, RequestLine
\* Behind the buffer there is a "G", if anything.
<1>12. Len(X) > n => X[n + 1].c = "G"
  <2>1. Len(X) > n => rest # <<>>
    BY <1>5, <1>7
  <2>2. rest # <<>> => X[n + 1] = rest[1]
    BY <1>5, <1>6
  <2>3. QED
    BY <1>6, <2>1, <2>2
<1>13. g + 2 <= n
  <2>1. g + 1 <= n /\ g \in Nat
    BY <1>2, <1>5
  <2>2. g + 1 # n
    <3>1. SUFFICES ASSUME g + 1 = n
                   PROVE  FALSE
      OBVIOUS
    <3>2. Len(X) > n /\ n + 1 = g + 2
      BY <1>5, <1>11, <2>1, <3>1
    <3>3. X[g + 2].c = "G"
      BY <1>12, <3>2
    <3>4. QED
      BY <1>11, <3>3
  <2>3. QED
    BY <1>5, <2>1, <2>2
<1>14. str[g + 2].c = "CR" /\ g + 2 \in 1 .. Len(str)
  <2>1. g + 2 \in 1 .. Len(str)
    BY <1>5, <1>13, <1>10
  <2>2. QED
    BY <1>3, <1>11, <2>1
<1>15. pos = g + 2
  <2>1. pos # 0
    BY <1>1, <1>14
  <2>2. g + 1 < pos
    BY <1>2, <2>1
  <2>3. ~(g + 2 < pos)
    <3>1. g + 2 < pos => g + 2 \in 1 .. pos - 1
      BY <1>14
    <3>2. QED
      BY <1>1, <1>14, <2>1, <3>1
  <2>4. QED
    BY <2>2, <2>3
<1>16. WholeAt(X, g, K, k, 1)
  BY <1>4, <1>10 DEF Chain, Contents
<1>17. /\ \A p \in 1 .. L : g + (p - 1) <= Len(X) /\ X[g + (p - 1)] = t[p]
       /\ g + (L - 1) + 1 <= Len(X) => X[g + (L - 1) + 1].c = "G"
  BY <1>16 DEF WholeAt, t
<1>18. g \in Nat /\ Len(X) \in Nat
  BY <1>5, <1>10
<1>19. /\ Len(Y) = Len(X) - (g + 2)
       /\ \A i \in 1 .. Len(Y) : Y[i] = X[(g + 2) + i]
  BY <1>3, <1>15 DEF Later
<1> HIDE DEF L
<1>20. \A p \in 4 .. L : 1 + (p - 4) <= Len(Y) /\ Y[1 + (p - 4)] = t[p]
  <2>1. SUFFICES ASSUME NEW p \in 4 .. L
                 PROVE  1 + (p - 4) <= Len(Y) /\ Y[1 + (p - 4)] = t[p]
    OBVIOUS
  <2>2. p \in 1 .. L /\ 1 + (p - 4) \in Nat /\ 1 + (p - 4) >= 1
        /\ (g + 2) + (1 + (p - 4)) = g + (p - 1)
    BY <1>9, <1>18
  <2>3. g + (p - 1) <= Len(X) /\ X[g + (p - 1)] = t[p]
    BY <1>17, <2>2
  <2>4. Len(Y) = Len(X) - (g + 2)
    BY <1>19
  <2>5. 1 + (p - 4) \in 1 .. Len(Y)
    BY <1>18, <2>2, <2>3, <2>4
  <2>6. Y[1 + (p - 4)] = X[(g + 2) + (1 + (p - 4))]
    BY <1>19, <2>5, Zenon
  <2>7. Y[1 + (p - 4)] = X[g + (p - 1)]
    BY <2>2, <2>6
  <2>8. 1 + (p - 4) <= Len(Y)
    BY <2>5
  <2>9. QED
    BY <2>3, <2>7, <2>8
<1>21. 1 + (L - 4) + 1 <= Len(Y) => Y[1 + (L - 4) + 1].c = "G"
  <2>1. SUFFICES ASSUME 1 + (L - 4) + 1 <= Len(Y)
                 PROVE  Y[1 + (L - 4) + 1].c = "G"
    OBVIOUS
  <2>2. Len(Y) = Len(X) - (g + 2) /\ L \in Nat /\ L >= 6
    BY <1>9, <1>19
  <2>3. 1 + (L - 4) + 1 \in 1 .. Len(Y)
        /\ (g + 2) + (1 + (L - 4) + 1) = g + (L - 1) + 1
        /\ g + (L - 1) + 1 <= Len(X)
    BY <1>18, <2>1, <2>2
  <2>4. Y[1 + (L - 4) + 1] = X[(g + 2) + (1 + (L - 4) + 1)]
    BY <1>19, <2>3, Zenon
  <2>5. QED
    BY <1>17, <2>3, <2>4
<1>22. WholeAt(Y, 1, K, k, 4)
  BY <1>20, <1>21 DEF WholeAt, t, L
<1>23. n - pos >= L - 3
  <2>1. SUFFICES ASSUME n - pos < L - 3
                 PROVE  FALSE
    BY <1>5, <1>9
  <2> DEFINE p == n + 2 - g
  <2>2. p \in 2 .. L /\ g + (p - 1) = n + 1 /\ p \in 1 .. L
    BY <1>5, <1>9, <1>13, <1>15, <1>18, <2>1
  <2> HIDE DEF p
  <2>3. n + 1 <= Len(X) /\ X[n + 1] = t[p]
    BY <1>17, <2>2
  <2>4. X[n + 1].c = "G"
    BY <1>5, <1>12, <1>18, <2>3
  <2>5. QED
    BY <1>9, <2>2, <2>3, <2>4
<1>24. QED
  BY <1>5, <1>22, <1>23 DEF Y, L, t

\* What the parser expects of the text it goes on to expect when the client
\* sends another request.
LEMMA MoreToCome ==
  ASSUME NEW K \in Seq(AllKinds), NEW kk \in AllKinds, NEW X \in Seq(Token),
         Len(K) + 1 <= MaxRequests, Chain(X, K)
  PROVE  LET Y == X \o Text(Len(K) + 1, kk)
             L == Append(K, kk)
         IN /\ \A k \in 1 .. Len(K) + 1 : Due(X, K, k) => Due(Y, L, k)
            /\ \A k, h : Under(X, K, k, h) => Under(Y, L, k, h)
            /\ \A h : Stuck(X, h) => Stuck(Y, h)
            /\ Lost(X) => Lost(Y)
            /\ \A k \in 1 .. Len(K) :
                 /\ L[k] = K[k] /\ OwnNames(L, k) = OwnNames(K, k)
                 /\ WholeAt(X, 1, K, k, 4) => WholeAt(Y, 1, L, k, 4)
<1> DEFINE n == Len(K) + 1
           t == Text(n, kk)
           Y == X \o t
           L == Append(K, kk)
<1>1. n \in 1 .. MaxRequests /\ n \in Nat /\ Len(K) \in Nat /\ n = Len(K) + 1
  BY SessionAssumption
<1>2. Spelled(t, n, kk)
  BY <1>1, TextGrammar
<1>3. Chain(Y, L)
  BY MoreText
<1>4. /\ Len(L) = n /\ L[n] = kk /\ \A k \in 1 .. Len(K) : L[k] = K[k]
  BY <1>1
<1>5. /\ t \in Seq(Token) /\ Len(t) >= 6 /\ Len(t) \in Nat
      /\ \A p \in 1 .. Len(t) : t[p].id = n
      /\ \A p \in 2 .. Len(t) : t[p].c # "G"
      /\ t[1].c = "G"
  <2> HIDE DEF t
  <2>1. QED
    BY <1>2 DEF Spelled
<1> HIDE DEF n, t, L
<1>6. /\ Y \in Seq(Token) /\ Len(Y) = Len(X) + Len(t) /\ Len(X) \in Nat
      /\ \A i \in 1 .. Len(X) : Y[i] = X[i]
      /\ \A p \in 1 .. Len(t) : Y[Len(X) + p] = t[p]
  BY <1>5
<1>7. /\ \A i \in 1 .. Len(X) : i \in 1 .. Len(Y)
      /\ Len(X) + 1 \in 1 .. Len(Y) /\ Y[Len(X) + 1].c = "G"
      /\ Y[Len(X) + 1].id = n
  <2>1. 1 \in 1 .. Len(t) /\ Len(X) + 1 \in 1 .. Len(Y)
        /\ \A i \in 1 .. Len(X) : i \in 1 .. Len(Y)
    BY <1>5, <1>6
  <2>2. Y[Len(X) + 1] = t[1]
    BY <1>6, <2>1
  <2>3. QED
    BY <1>5, <2>1, <2>2
<1> HIDE DEF Y
<1>8. \A i \in 1 .. Len(Y) :
        i \in 1 .. Len(X) \/ (i > Len(X) /\ Y[i].id = n)
  <2>1. SUFFICES ASSUME NEW i \in 1 .. Len(Y), i \notin 1 .. Len(X)
                 PROVE  i > Len(X) /\ Y[i].id = n
    OBVIOUS
  <2>2. i - Len(X) \in 1 .. Len(t) /\ Len(X) + (i - Len(X)) = i /\ i > Len(X)
    BY <1>5, <1>6, <2>1
  <2>3. Y[Len(X) + (i - Len(X))] = t[i - Len(X)]
    BY <1>6, <2>2, Zenon
  <2>4. QED
    BY <1>5, <2>2, <2>3
<1>9. \A g \in 1 .. Len(Y) :
        Y[g].c = "G" => g \in 1 .. Len(X) \/ g = Len(X) + 1
  <2>1. SUFFICES ASSUME NEW g \in 1 .. Len(Y), g \notin 1 .. Len(X),
                        g # Len(X) + 1
                 PROVE  Y[g].c # "G"
    OBVIOUS
  <2>2. g - Len(X) \in 2 .. Len(t) /\ g - Len(X) \in 1 .. Len(t)
        /\ Len(X) + (g - Len(X)) = g
    BY <1>5, <1>6, <2>1
  <2>3. Y[Len(X) + (g - Len(X))] = t[g - Len(X)]
    BY <1>6, <2>2, Zenon
  <2>4. QED
    BY <1>5, <2>2, <2>3
<1>10. ASSUME NEW k \in 1 .. Len(K) + 1, Due(X, K, k)
       PROVE  Due(Y, L, k)
  <2>1. \E i \in 1 .. Len(Y) : Y[i].c = "CR"
    <3>1. /\ (Len(X) + 1) + 3 \in 1 .. Len(Y)
          /\ Y[(Len(X) + 1) + 2].c = "CR"
      BY <1>3, <1>6, <1>7, RequestLine
    <3>2. (Len(X) + 1) + 2 \in 1 .. Len(Y)
      BY <1>6, <3>1
    <3>3. QED
      BY <3>1, <3>2
  <2>2. k <= Len(L)
    BY <1>1, <1>4
  <2>3. ASSUME NEW g \in 1 .. Len(Y), Y[g].c = "G",
               \A j \in 1 .. g - 1 : Y[j].c # "CR"
        PROVE  Y[g].id = k
    <3>1. CASE g \in 1 .. Len(X)
      <4>1. \A j \in 1 .. g - 1 : j \in 1 .. Len(X) /\ Y[j] = X[j]
        <5>1. \A j \in 1 .. g - 1 : j \in 1 .. Len(X)
          BY <1>6, <3>1
        <5>2. QED
          BY <1>6, <5>1
      <4>2. X[g] = Y[g]
        BY <1>6, <3>1
      <4>3. \A j \in 1 .. g - 1 : X[j].c # "CR"
        BY <2>3, <4>1
      <4>4. QED
        BY <1>10, <2>3, <3>1, <4>2, <4>3 DEF Due
    <3>2. CASE g = Len(X) + 1
      <4>1. \A j \in 1 .. Len(X) : j \in 1 .. g - 1 /\ Y[j] = X[j]
        BY <1>6, <3>2
      <4>2. ~\E i \in 1 .. Len(X) : X[i].c = "CR"
        BY <2>3, <4>1
      <4>3. ~(k <= Len(K))
        BY <1>10, <4>2 DEF Due
      <4>4. k = n
        BY <1>1, <4>3
      <4>5. QED
        BY <1>7, <3>2, <4>4
    <3>3. QED
      BY <1>9, <2>3, <3>1, <3>2
  <2>4. ASSUME NEW i \in 1 .. Len(Y), Y[i].id < k
        PROVE  L[Y[i].id] \notin Posts
    <3>1. i \in 1 .. Len(X)
      <4>1. Y[i].id # n
        BY <1>1, <2>4
      <4>2. QED
        BY <1>8, <4>1
    <3>2. Y[i] = X[i]
      BY <1>6, <3>1
    <3>3. K[X[i].id] \notin Posts
      BY <1>10, <2>4, <3>1, <3>2 DEF Due
    <3>4. X[i].id \in 1 .. Len(K)
      BY <3>1 DEF Chain, Numbered
    <3>5. QED
      BY <1>4, <3>2, <3>3, <3>4
  <2>5. QED
    BY <2>1, <2>2, <2>3, <2>4 DEF Due
<1>11. ASSUME NEW k, NEW h, Under(X, K, k, h)
       PROVE  Under(Y, L, k, h)
  <2>1. X # <<>> /\ Len(X) # 0 /\ 1 \in 1 .. Len(X)
    BY <1>11 DEF Under
  <2>2. Y[1] = X[1] /\ Y # <<>>
    <3>1. Len(Y) # 0
      BY <1>6, <1>7, <2>1
    <3>2. QED
      BY <1>6, <2>1, <3>1
  <2>3. 1 + 1 <= Len(X) => Y[1 + 1] = X[1 + 1] /\ 1 + 1 <= Len(Y)
    <3>1. 1 + 1 <= Len(X) => 1 + 1 \in 1 .. Len(X)
      BY <1>6
    <3>2. QED
      BY <1>5, <1>6, <3>1
  <2>4. NamedLine(X, 1) => NamedLine(Y, 1)
    BY <2>2, <2>3 DEF NamedLine
  <2>5. QED
    BY <1>11, <2>2, <2>4 DEF Under
<1>12. ASSUME NEW h, Stuck(X, h)
       PROVE  Stuck(Y, h)
  <2>1. PICK g \in 1 .. Len(X) :
          /\ X[g].c = "G"
          /\ \/ h = "H_START" /\ \A j \in 1 .. g - 1 : X[j].c = "LF"
             \/ h = "H_KEY" /\ g = 1
    BY <1>12 DEF Stuck
  <2>2. \A j \in 1 .. g - 1 : j \in 1 .. Len(X)
    BY <1>6
  <2>3. \A j \in 1 .. g - 1 : Y[j] = X[j]
    BY <1>6, <2>2
  <2>4. Y[g] = X[g] /\ g \in 1 .. Len(Y)
    BY <1>6, <1>7
  <2>5. QED
    BY <2>1, <2>3, <2>4 DEF Stuck
<1>13. Lost(X) => Lost(Y)
  <2>1. SUFFICES ASSUME Len(X) >= 2, X[1].c # "G", X[2].c = "CR"
                 PROVE  Lost(Y)
    BY DEF Lost
  <2>2. 1 \in 1 .. Len(X) /\ 2 \in 1 .. Len(X) /\ Len(Y) >= 2
    BY <1>5, <1>6, <2>1
  <2>3. QED
    BY <1>6, <2>1, <2>2 DEF Lost
<1>14. ASSUME NEW k \in 1 .. Len(K)
       PROVE  /\ L[k] = K[k] /\ OwnNames(L, k) = OwnNames(K, k)
              /\ WholeAt(X, 1, K, k, 4) => WholeAt(Y, 1, L, k, 4)
  <2>1. L[k] = K[k]
    BY <1>4
  <2>2. OwnNames(L, k) = OwnNames(K, k)
    BY <2>1 DEF OwnNames
  <2> DEFINE u == Text(k, K[k])
             m == Len(u)
  <2>3. m \in Nat /\ m >= 6
    <3>1. k \in 1 .. MaxRequests /\ K[k] \in AllKinds
      <4>1. K[k] \in AllKinds
        OBVIOUS
      <4>2. MaxRequests \in Nat
        BY SessionAssumption
      <4>3. QED
        BY <1>1, <4>1, <4>2
    <3>2. Spelled(u, k, K[k])
      BY <3>1, TextGrammar
    <3> HIDE DEF u
    <3>3. QED
      BY <3>2 DEF Spelled
  <2>4. ASSUME WholeAt(X, 1, K, k, 4)
        PROVE  WholeAt(Y, 1, L, k, 4)
    <3>1. /\ \A p \in 4 .. m : 1 + (p - 4) <= Len(X) /\ X[1 + (p - 4)] = u[p]
          /\ 1 + (m - 4) + 1 <= Len(X) => X[1 + (m - 4) + 1].c = "G"
      BY <2>4 DEF WholeAt
    <3> HIDE DEF u, m
    <3>2. \A p \in 4 .. m : 1 + (p - 4) <= Len(Y) /\ Y[1 + (p - 4)] = u[p]
      <4>1. SUFFICES ASSUME NEW p \in 4 .. m
                     PROVE  1 + (p - 4) <= Len(Y) /\ Y[1 + (p - 4)] = u[p]
        OBVIOUS
      <4>2. 1 + (p - 4) <= Len(X) /\ X[1 + (p - 4)] = u[p]
        BY <3>1
      <4>3. 1 + (p - 4) \in 1 .. Len(X)
        BY <1>6, <2>3, <4>2
      <4>4. 1 + (p - 4) \in 1 .. Len(Y) /\ Y[1 + (p - 4)] = X[1 + (p - 4)]
        BY <1>6, <1>7, <4>3, Zenon
      <4>5. 1 + (p - 4) <= Len(Y)
        BY <4>4
      <4>6. QED
        BY <4>2, <4>4, <4>5
    <3>3. 1 + (m - 4) + 1 <= Len(Y) => Y[1 + (m - 4) + 1].c = "G"
      <4>1. m \in 4 .. m
        BY <2>3
      <4>2. 1 + (m - 4) <= Len(X)
        BY <3>1, <4>1
      <4>3. CASE 1 + (m - 4) + 1 <= Len(X)
        <5>1. 1 + (m - 4) + 1 \in 1 .. Len(X)
          BY <1>6, <2>3, <4>3
        <5>2. Y[1 + (m - 4) + 1] = X[1 + (m - 4) + 1]
          BY <1>6, <5>1, Zenon
        <5>3. QED
          BY <3>1, <4>3, <5>2
      <4>4. CASE ~(1 + (m - 4) + 1 <= Len(X))
        <5>1. 1 + (m - 4) + 1 = Len(X) + 1
          BY <1>6, <2>3, <4>2, <4>4
        <5>2. QED
          BY <1>7, <5>1
      <4>5. QED
        BY <4>3, <4>4
    <3>4. QED
      BY <2>1, <3>2, <3>3 DEF WholeAt, u, m
  <2>5. QED
    BY <2>1, <2>2, <2>4
<1>15. QED
  BY <1>10, <1>11, <1>12, <1>13, <1>14 DEF Y, L, t, n

\* A request has as many headers as names.
LEMMA NamesCount ==
  ASSUME NEW K \in Seq(AllKinds), NEW k \in 1 .. Len(K)
  PROVE  Cardinality(OwnNames(K, k)) = Len(Names(K[k]))
<1> DEFINE Name(s) == [c |-> s, id |-> k]
<1>1. K[k] \in AllKinds
  OBVIOUS
<1>2. \/ Names(K[k]) = <<>>
      \/ \E s \in HeaderNames : Names(K[k]) = <<s>>
      \/ Names(K[k]) = <<"host", "agent">>
  BY <1>1 DEF Names, AllKinds, HeaderNames
<1>3. CASE Names(K[k]) = <<>>
  <2>1. OwnNames(K, k) = {} /\ Len(Names(K[k])) = 0
    BY <1>3 DEF OwnNames
  <2>2. QED
    BY <2>1, FS_EmptySet
<1>4. ASSUME NEW s, Names(K[k]) = <<s>>
      PROVE  Cardinality(OwnNames(K, k)) = Len(Names(K[k]))
  <2>1. OwnNames(K, k) = {Name(s)} /\ Len(Names(K[k])) = 1
    BY <1>4 DEF OwnNames
  <2>2. QED
    BY <2>1, FS_Singleton
<1>5. CASE Names(K[k]) = <<"host", "agent">>
  <2>1. OwnNames(K, k) = {Name("host")} \cup {Name("agent")}
        /\ Len(Names(K[k])) = 2
    <3>1. DOMAIN Names(K[k]) = {1, 2} /\ Names(K[k])[1] = "host"
          /\ Names(K[k])[2] = "agent" /\ Len(Names(K[k])) = 2
      BY <1>5
    <3>2. QED
      BY <3>1 DEF OwnNames
  <2>2. Name("agent") \notin {Name("host")}
    <3>1. Name("agent").c = "agent" /\ Name("host").c = "host"
      OBVIOUS
    <3> HIDE DEF Name
    <3>2. QED
      BY <3>1
  <2>3. IsFiniteSet({Name("host")}) /\ Cardinality({Name("host")}) = 1
    BY FS_Singleton
  <2> HIDE DEF Name
  <2>4. Cardinality({Name("host")} \cup {Name("agent")}) = 1 + 1
    BY <2>2, <2>3, FS_AddElement
  <2>5. QED
    BY <2>1, <2>4
<1>6. QED
  BY <1>2, <1>3, <1>4, <1>5

-----------------------------------------------------------------------------
(* The inductive invariant of the input.                                   *)

\* Everything that was sent and has not been parsed, wherever it is.
Pending == inBuffer_ \o (rx \o unsent)

\* It is the turn of request k.
Turn(k) ==
  /\ state_ = "uri" =>
       Due(Pending, kind, k) /\ hState_ = "H_START" /\ headers_ = {}
  /\ state_ = "headers" =>
       Under(Pending, kind, k, hState_) \/ Stuck(Pending, hState_)
  /\ state_ \in {"headers", "body", "analysis"} =>
       parsed = k /\ k <= Len(kind) /\ headers_ \subseteq OwnNames(kind, k)
  /\ state_ = "body" => kind[k] \in Posts
  /\ state_ = "analysis" => kind[k] \in Posts \/ Due(Pending, kind, k + 1)
  /\ state_ = "finish" => parsed = k - 1 /\ Due(Pending, kind, k)

\* The request whose head has been read, and what is known of it.
KnownInv ==
  /\ state_ # "uri" => parsed \in 1 .. Len(kind)
  /\ state_ \in {"body", "analysis"} =>
       /\ headers_ \subseteq OwnNames(kind, parsed)
       /\ "splits" \notin habits => headers_ = OwnNames(kind, parsed)

\* Requests that come in one piece: what is still to be read begins with one,
\* and a head that is being looked at is there as a whole.  What is left behind
\* a request without a body will be refused.
WholeInv ==
  "splits" \notin habits =>
    /\ unsent = <<>> /\ (rx # <<>> => rx[1].c = "G")
    /\ ~error_ /\ state_ = "headers" =>
         /\ hState_ = "H_START" /\ headers_ = {}
         /\ WholeAt(Pending, 1, kind, parsed, 4)
         /\ Len(inBuffer_) >= Len(Text(parsed, kind[parsed])) - 3
    /\ ~error_ /\ state_ \in {"analysis", "finish"} /\ inBuffer_ # <<>> =>
         kind[parsed] \in Posts \/ Lost(Pending)

\* A request that is complete is answered at once.
PlaceInv ==
  ~error_ => /\ state_ = "analysis" => pc = "process"
             /\ state_ = "finish" => pc = "flush"

HeadsBase ==
  /\ Len(kind) <= MaxRequests
  /\ Chain(Pending, kind) /\ KnownInv /\ WholeInv /\ PlaceInv

HeadsInv == HeadsBase /\ (~error_ => \E k \in 1 .. Len(kind) + 1 : Turn(k))

\* A step keeps all this, and it stays the turn of the same request until that
\* is answered.
HeadsKept ==
  /\ HeadsBase'
  /\ error_ => error_'
  /\ \A k \in 1 .. Len(kind) + 1 :
       ~error_' /\ Turn(k) =>
         \E m \in 1 .. Len(kind') + 1 :
           /\ m = IF state_ = "analysis" /\ state_' = "finish" THEN k + 1 ELSE k
           /\ Turn(m)'

\* The two parts of a sequence that is cut are the whole of it.
LEMMA CutJoined ==
  ASSUME NEW T, NEW s \in Seq(T), NEW n \in 0 .. Len(s)
  PROVE  SubSeq(s, 1, n) \o SubSeq(s, n + 1, Len(s)) = s
<1>1. /\ 1 \in 1 .. Len(s) + 1 /\ n \in (1 - 1) .. Len(s)
      /\ Len(s) \in n .. Len(s)
  OBVIOUS
<1>2. SubSeq(s, 1, n) \o SubSeq(s, n + 1, Len(s)) = SubSeq(s, 1, Len(s))
  BY <1>1, ConcatAdjacentSubSeq
<1>3. SubSeq(s, 1, Len(s)) = s
  OBVIOUS
<1>4. QED
  BY <1>2, <1>3

\* Three sequences put one behind the other.
LEMMA Grouped ==
  /\ \A a, b, c \in Seq(Token) : (a \o b) \o c = a \o (b \o c)
  /\ \A a, b, c \in Seq(Chunk) : (a \o b) \o c = a \o (b \o c)
<1>1. \A a, b, c \in Seq(Token) : (a \o b) \o c = a \o (b \o c)
  BY ConcatAssociative
<1>2. \A a, b, c \in Seq(Chunk) : (a \o b) \o c = a \o (b \o c)
  BY ConcatAssociative
<1>3. QED
  BY <1>1, <1>2

\* The types of all this.
LEMMA HeadsTypes ==
  ASSUME TypeOK
  PROVE  /\ kind \in Seq(AllKinds) /\ Len(kind) \in Nat
         /\ inBuffer_ \in Seq(Token) /\ rx \in Seq(Token) /\ unsent \in Seq(Token)
         /\ rx \o unsent \in Seq(Token) /\ Pending \in Seq(Token)
         /\ Pending = (inBuffer_ \o rx) \o unsent
<1>1. /\ inBuffer_ \in Seq(Token) /\ rx \in Seq(Token) /\ unsent \in Seq(Token)
      /\ kind \in Seq(Kinds)
  BY DEF TypeOK
<1>2. kind \in Seq(AllKinds) /\ Len(kind) \in Nat
  BY <1>1, SessionAssumption
<1>3. rx \o unsent \in Seq(Token)
  BY <1>1
<1>4. Pending \in Seq(Token)
  BY <1>1, <1>3 DEF Pending
<1>5. inBuffer_ \o (rx \o unsent) = (inBuffer_ \o rx) \o unsent
  BY <1>1, ConcatAssociative, SMTT(30)
<1>6. QED
  BY <1>1, <1>2, <1>3, <1>4, <1>5 DEF Pending

\* A new connection.
LEMMA InitHeads == Init => HeadsInv
<1> SUFFICES ASSUME Init
             PROVE  HeadsInv
  OBVIOUS
<1>1. /\ kind = <<>> /\ unsent = <<>> /\ rx = <<>> /\ inBuffer_ = <<>>
      /\ state_ = "uri" /\ hState_ = "H_START" /\ headers_ = {}
  BY DEF Init
<1>2. Pending = <<>> /\ Len(kind) = 0
  BY <1>1 DEF Pending
<1>3. Chain(Pending, kind)
  <2>1. Grammar(<<>>)
    BY DEF Grammar
  <2>2. Numbered(<<>>, kind)
    BY DEF Numbered
  <2>3. Contents(<<>>, kind)
    BY DEF Contents
  <2>4. QED
    BY <1>2, <2>1, <2>2, <2>3 DEF Chain
<1>4. KnownInv /\ WholeInv /\ PlaceInv
  BY <1>1 DEF KnownInv, WholeInv, PlaceInv
<1>5. Due(<<>>, kind, 1)
  BY <1>2 DEF Due
<1>6. Turn(1)
  BY <1>1, <1>2, <1>5 DEF Turn
<1>7. 1 \in 1 .. Len(kind) + 1
  BY <1>2
<1>8. Len(kind) <= MaxRequests
  BY <1>2, SessionAssumption
<1>9. QED
  BY <1>3, <1>4, <1>6, <1>7, <1>8 DEF HeadsBase, HeadsInv

\* Steps that leave the parser and the input as they are.
HeadsQuiet ==
  /\ UNCHANGED <<habits, kind, unsent, rx, inBuffer_, parse>>
  /\ error_ => error_'

\* They keep what is known of the input.
LEMMA QuietHeads ==
  ASSUME HeadsBase, HeadsQuiet, PlaceInv'
  PROVE  HeadsKept
<1>1. /\ UNCHANGED <<habits, kind, unsent, rx, inBuffer_, state_, hState_,
                     headers_, parsed>>
      /\ error_ => error_'
  BY DEF HeadsQuiet, parse
<1>2. Pending' = Pending
  BY <1>1 DEF Pending
<1>3. KnownInv'
  BY <1>1 DEF HeadsBase, KnownInv
<1>4. WholeInv'
  BY <1>1, <1>2 DEF HeadsBase, WholeInv
<1>5. Len(kind') <= MaxRequests /\ Chain(Pending', kind')
  BY <1>1, <1>2 DEF HeadsBase
<1>6. ASSUME NEW k \in 1 .. Len(kind) + 1, Turn(k)
      PROVE  Turn(k)' /\ k \in 1 .. Len(kind') + 1
  BY <1>1, <1>2, <1>6 DEF Turn
<1>7. ~(state_ = "analysis" /\ state_' = "finish")
  BY <1>1
<1>8. QED
  BY <1>1, <1>3, <1>4, <1>5, <1>6, <1>7 DEF HeadsKept, HeadsBase

\* Input that arrives, or is read into the buffer, is still to be parsed.
LEMMA PassedPending ==
  ASSUME TypeOK, ReadInv, ClientSendsRest \/ Read \/ ReadFails
  PROVE  Pending' = Pending
<1>1. \/ /\ unsent' = <<>> /\ rx' = rx \o unsent
         /\ UNCHANGED inBuffer_
      \/ /\ rx' = <<>> /\ inBuffer_' = inBuffer_ \o rx
         /\ UNCHANGED unsent
  BY DEF ClientSendsRest, Read, ReadFails, ReadInv, Arrives, data, client
<1>2. /\ inBuffer_ \in Seq(Token) /\ rx \in Seq(Token) /\ unsent \in Seq(Token)
      /\ rx \o unsent \in Seq(Token) /\ Pending = (inBuffer_ \o rx) \o unsent
  BY HeadsTypes
<1>3. CASE rx' = rx \o unsent /\ unsent' = <<>> /\ UNCHANGED inBuffer_
  <2>1. (rx \o unsent) \o <<>> = rx \o unsent
    BY <1>2
  <2>2. QED
    BY <1>3, <2>1 DEF Pending
<1>4. CASE rx' = <<>> /\ inBuffer_' = inBuffer_ \o rx /\ UNCHANGED unsent
  <2>1. <<>> \o unsent = unsent
    BY <1>2
  <2>2. QED
    BY <1>2, <1>4, <2>1 DEF Pending
<1>5. QED
  BY <1>1, <1>3, <1>4

\* Steps that pass the input on: it arrives, or it is read into the buffer.
LEMMA PassedOn ==
  ASSUME TypeOK, ReadInv, HeadsBase, ClientSendsRest \/ Read \/ ReadFails
  PROVE  HeadsKept
<1>1. /\ UNCHANGED <<habits, kind, state_, hState_, headers_, parsed>>
      /\ error_ => error_'
      /\ \/ /\ unsent # <<>> /\ unsent' = <<>> /\ rx' = rx \o unsent
            /\ UNCHANGED <<inBuffer_, pc, error_>>
         \/ /\ rx' = <<>> /\ inBuffer_' = inBuffer_ \o rx
            /\ UNCHANGED unsent
            /\ pc = "read" /\ (~error_' => ~error_)
  BY DEF ClientSendsRest, Read, ReadFails, ReadInv, Arrives, data, parse, client
<1>2. Pending' = Pending
  BY PassedPending
<1>3. KnownInv'
  BY <1>1 DEF HeadsBase, KnownInv
<1>4. PlaceInv'
  BY <1>1 DEF HeadsBase, PlaceInv
<1>5. WholeInv'
  <2>1. SUFFICES ASSUME "splits" \notin habits
                 PROVE  WholeInv'
    BY <1>1 DEF WholeInv
  <2>2. /\ unsent = <<>> /\ rx' = <<>> /\ unsent' = <<>>
        /\ inBuffer_' = inBuffer_ \o rx /\ pc = "read" /\ (~error_' => ~error_)
    BY <1>1, <2>1 DEF HeadsBase, WholeInv
  <2>3. Len(inBuffer_') >= Len(inBuffer_) /\ Len(inBuffer_) \in Nat
        /\ Len(inBuffer_') \in Nat
    <3>1. inBuffer_ \in Seq(Token) /\ rx \in Seq(Token)
      BY DEF TypeOK
    <3>2. QED
      BY <2>2, <3>1
  <2>4. ~error_' => state_' \notin {"analysis", "finish"}
    BY <1>1, <2>2 DEF HeadsBase, PlaceInv
  <2>5. ASSUME ~error_', state_' = "headers"
        PROVE  /\ hState_' = "H_START" /\ headers_' = {}
               /\ WholeAt(Pending', 1, kind', parsed', 4)
               /\ Len(inBuffer_') >= Len(Text(parsed', kind'[parsed'])) - 3
    <3>1. /\ hState_ = "H_START" /\ headers_ = {}
          /\ WholeAt(Pending, 1, kind, parsed, 4)
          /\ Len(inBuffer_) >= Len(Text(parsed, kind[parsed])) - 3
      BY <1>1, <2>1, <2>2, <2>5 DEF HeadsBase, WholeInv
    <3> DEFINE u == Text(parsed, kind[parsed])
    <3>2. Len(u) \in Nat
      <4>1. DOMAIN u = 1 .. Len(u) /\ Len(u) \in Nat
        <5>1. parsed \in 1 .. MaxRequests /\ kind[parsed] \in AllKinds
          <6>1. parsed \in 1 .. Len(kind)
            BY <1>1, <2>5 DEF HeadsBase, KnownInv
          <6>2. kind \in Seq(AllKinds) /\ Len(kind) <= MaxRequests
            BY HeadsTypes DEF HeadsBase
          <6>3. QED
            BY <6>1, <6>2, SessionAssumption
        <5>2. u \in Seq(Token)
          BY <5>1, TextType
        <5> HIDE DEF u
        <5>3. QED
          BY <5>2
      <4>2. QED
        BY <4>1
    <3> HIDE DEF u
    <3>3. Len(inBuffer_') >= Len(u) - 3
      BY <2>3, <3>1, <3>2 DEF u
    <3>4. QED
      BY <1>1, <1>2, <3>1, <3>3 DEF u
  <2>6. QED
    BY <2>2, <2>4, <2>5 DEF WholeInv
<1>6. Len(kind') <= MaxRequests /\ Chain(Pending', kind')
  BY <1>1, <1>2 DEF HeadsBase
<1>7. ASSUME NEW k \in 1 .. Len(kind) + 1, Turn(k)
      PROVE  Turn(k)' /\ k \in 1 .. Len(kind') + 1
  BY <1>1, <1>2, <1>7 DEF Turn
<1>8. ~(state_ = "analysis" /\ state_' = "finish")
  BY <1>1
<1>9. QED
  BY <1>1, <1>3, <1>4, <1>5, <1>6, <1>7, <1>8 DEF HeadsKept, HeadsBase

\* Where the handler is.
LEMMA PlaceStep ==
  ASSUME ErrorInv, PlaceInv, Next
  PROVE  PlaceInv'
<1> USE DEF PlaceInv
<1>1. Client => PlaceInv'
  BY DEF Client, ClientSends, ClientSendsRest, ClientFinishes, ClientResets,
         ClientReads, data, parse
<1>2. Dispatch \/ IgnoreFailure => PlaceInv'
  BY DEF Dispatch, IgnoreFailure, parse
<1>3. Read \/ ReadFails => PlaceInv'
  BY DEF Read, ReadFails, parse
<1>4. ParseURI => PlaceInv'
  BY DEF ParseURI, HandleError
<1>5. ParseHeaders => PlaceInv'
  <2>1. SUFFICES ASSUME ParseHeaders, ~error_'
                 PROVE  PlaceInv'
    OBVIOUS
  <2>2. state_ = "headers" /\ pc = "process"
        /\ (UNCHANGED state_ \/ (state_' \in {"body", "analysis"} /\ UNCHANGED pc))
    BY <2>1 DEF ParseHeaders
  <2>3. QED
    BY <2>2
<1>6. RefuseBody \/ ReceiveBody => PlaceInv'
  BY DEF RefuseBody, ReceiveBody, parse, HandleError
<1>7. AnalysisRequest => PlaceInv'
  <2>1. SUFFICES ASSUME AnalysisRequest, ~error_'
                 PROVE  PlaceInv'
    OBVIOUS
  <2>2. state_' = "finish" /\ pc' = "flush"
    BY <2>1 DEF AnalysisRequest, AnswerPage, AnswerFile, AnswerMissing,
                AnswerPost, HandleError
  <2>3. QED
    BY <2>2
<1>8. FlushNothing \/ FlushWaiting \/ FlushAnswer => PlaceInv'
  BY DEF FlushNothing, FlushWaiting, FlushAnswer, Reset, parse, data
<1>9. HandleWrite \/ SendFails => PlaceInv'
  BY DEF HandleWrite, SendFails, parse
<1>10. KeepConn \/ LeaveConn \/ DropConn \/ Expire => PlaceInv'
  BY DEF KeepConn, LeaveConn, DropConn, Expire, parse
<1>11. QED
  BY <1>1, <1>2, <1>3, <1>4, <1>5, <1>6, <1>7, <1>8, <1>9, <1>10
     DEF Next, HandleEvents

\* Another request is put behind all that was sent before it.
LEMMA SentBehind ==
  ASSUME TypeOK, HeadsBase, NEW kk \in Kinds, ClientSends(kk)
  PROVE  LET t == Text(Len(kind) + 1, kk) IN
         t \in Seq(Token) /\ t # <<>> /\ t[1].c = "G" /\ Pending' = Pending \o t
<1> DEFINE t == Text(Len(kind') , kk)
<1>1. /\ kind \in Seq(AllKinds) /\ Len(kind) \in Nat /\ inBuffer_ \in Seq(Token)
      /\ rx \in Seq(Token) /\ rx \o unsent \in Seq(Token) /\ Pending \in Seq(Token)
  BY HeadsTypes
<1>2. /\ unsent = <<>> /\ kind' = Append(kind, kk) /\ Len(kind) < MaxRequests
      /\ UNCHANGED <<habits, inBuffer_, state_, hState_, headers_, parsed, error_>>
  BY DEF ClientSends, data, parse
<1>3. Len(kind') = Len(kind) + 1 /\ kk \in AllKinds /\ MaxRequests \in Nat
  BY <1>1, <1>2, SessionAssumption
<1>4. t \in Seq(Token) /\ t # <<>> /\ t[1].c = "G" /\ t = Text(Len(kind) + 1, kk)
  <2>1. Len(kind') \in 1 .. MaxRequests
    BY <1>1, <1>2, <1>3
  <2>2. Spelled(t, Len(kind'), kk)
    BY <1>3, <2>1, TextGrammar
  <2>3. t = Text(Len(kind) + 1, kk)
    BY <1>3
  <2> HIDE DEF t
  <2>4. QED
    BY <2>2, <2>3 DEF Spelled
<1>5. PICK n \in DOMAIN t :
        /\ unsent' = SubSeq(t, n + 1, Len(t))
        /\ rx' = rx \o SubSeq(t, 1, n)
        /\ "splits" \notin habits => n = Len(t)
  BY DEF ClientSends, Arrives
<1> HIDE DEF t
<1>6. /\ SubSeq(t, 1, n) \in Seq(Token) /\ SubSeq(t, n + 1, Len(t)) \in Seq(Token)
      /\ SubSeq(t, 1, n) \o SubSeq(t, n + 1, Len(t)) = t
  <2>1. n \in 1 .. Len(t)
    BY <1>4
  <2>2. /\ SubSeq(t, 1, n) \in Seq(Token)
        /\ SubSeq(t, n + 1, Len(t)) \in Seq(Token)
    BY <1>4, <2>1
  <2>3. SubSeq(t, 1, n) \o SubSeq(t, n + 1, Len(t)) = t
    <3>1. n \in 0 .. Len(t)
      BY <2>1
    <3>2. QED
      BY <1>4, <3>1, CutJoined, Zenon
  <2>4. QED
    BY <2>2, <2>3
<1>7. Pending' = Pending \o t
  <2> DEFINE a == SubSeq(t, 1, n)
             b == SubSeq(t, n + 1, Len(t))
  <2>1. a \in Seq(Token) /\ b \in Seq(Token) /\ a \o b = t
    BY <1>6
  <2>2. unsent' = b /\ rx' = rx \o a
    BY <1>5
  <2> HIDE DEF a, b
  <2>3. (rx \o a) \o b = rx \o t
    <3>1. (rx \o a) \o b = rx \o (a \o b)
      BY <1>1, <2>1, Grouped, ZenonT(30)
    <3>2. QED
      BY <2>1, <3>1, Zenon
  <2>4. inBuffer_ \o (rx \o t) = (inBuffer_ \o rx) \o t
    BY <1>1, <1>4, Grouped, ZenonT(30)
  <2>5. rx \o <<>> = rx
    BY <1>1
  <2>6. Pending = inBuffer_ \o rx
    BY <1>2, <2>5 DEF Pending
  <2>7. Pending' = inBuffer_ \o ((rx \o a) \o b)
    BY <1>2, <2>2 DEF Pending
  <2>8. QED
    BY <2>3, <2>4, <2>6, <2>7
<1>8. QED
  BY <1>4, <1>7

\* What holds of the input before holds of it with that request.
LEMMA SendsMore ==
  ASSUME TypeOK, HeadsBase, NEW kk \in Kinds, ClientSends(kk)
  PROVE  /\ Chain(Pending', kind')
         /\ \A k \in 1 .. Len(kind) + 1 :
              Due(Pending, kind, k) => Due(Pending', kind', k)
         /\ \A k, h : Under(Pending, kind, k, h) => Under(Pending', kind', k, h)
         /\ \A h : Stuck(Pending, h) => Stuck(Pending', h)
         /\ Lost(Pending) => Lost(Pending')
         /\ \A k \in 1 .. Len(kind) :
              /\ kind'[k] = kind[k] /\ OwnNames(kind', k) = OwnNames(kind, k)
              /\ WholeAt(Pending, 1, kind, k, 4) =>
                   WholeAt(Pending', 1, kind', k, 4)
<1>1. /\ kind \in Seq(AllKinds) /\ Len(kind) \in Nat /\ inBuffer_ \in Seq(Token)
      /\ rx \in Seq(Token) /\ rx \o unsent \in Seq(Token) /\ Pending \in Seq(Token)
  BY HeadsTypes
<1>2. kind' = Append(kind, kk) /\ Len(kind) < MaxRequests
  BY DEF ClientSends
<1>3. kk \in AllKinds /\ MaxRequests \in Nat
  BY SessionAssumption
<1>4. Pending' = Pending \o Text(Len(kind) + 1, kk)
  BY SentBehind
<1>5. Chain(Pending, kind) /\ KnownInv /\ WholeInv /\ Len(kind) <= MaxRequests
  BY DEF HeadsBase
<1>6. Len(kind) + 1 <= MaxRequests
  BY <1>1, <1>2, <1>3
<1>7. Chain(Pending', kind')
  BY <1>1, <1>2, <1>3, <1>4, <1>5, <1>6, MoreText
<1>8. /\ \A k \in 1 .. Len(kind) + 1 :
           Due(Pending, kind, k) => Due(Pending', kind', k)
      /\ \A k, h : Under(Pending, kind, k, h) => Under(Pending', kind', k, h)
      /\ \A h : Stuck(Pending, h) => Stuck(Pending', h)
      /\ Lost(Pending) => Lost(Pending')
      /\ \A k \in 1 .. Len(kind) :
           /\ kind'[k] = kind[k] /\ OwnNames(kind', k) = OwnNames(kind, k)
           /\ WholeAt(Pending, 1, kind, k, 4) => WholeAt(Pending', 1, kind', k, 4)
  <2>1. LET Y == Pending \o Text(Len(kind) + 1, kk)
            L == Append(kind, kk)
        IN /\ \A k \in 1 .. Len(kind) + 1 : Due(Pending, kind, k) => Due(Y, L, k)
           /\ \A k, h : Under(Pending, kind, k, h) => Under(Y, L, k, h)
           /\ \A h : Stuck(Pending, h) => Stuck(Y, h)
           /\ Lost(Pending) => Lost(Y)
           /\ \A k \in 1 .. Len(kind) :
                /\ L[k] = kind[k] /\ OwnNames(L, k) = OwnNames(kind, k)
                /\ WholeAt(Pending, 1, kind, k, 4) => WholeAt(Y, 1, L, k, 4)
    BY <1>1, <1>3, <1>5, <1>6, MoreToCome
  <2>2. Pending' = Pending \o Text(Len(kind) + 1, kk) /\ kind' = Append(kind, kk)
    BY <1>2, <1>4
  <2>3. QED
    BY <2>1, <2>2, Zenon
<1>9. QED
  BY <1>7, <1>8

\* Another request is sent.
LEMMA SendsHeads ==
  ASSUME TypeOK, HeadsBase, PlaceInv', NEW kk \in Kinds, ClientSends(kk)
  PROVE  HeadsKept
<1> DEFINE t == Text(Len(kind') , kk)
<1>1. /\ kind \in Seq(AllKinds) /\ Len(kind) \in Nat /\ inBuffer_ \in Seq(Token)
      /\ rx \in Seq(Token) /\ rx \o unsent \in Seq(Token) /\ Pending \in Seq(Token)
  BY HeadsTypes
<1>2. /\ unsent = <<>> /\ kind' = Append(kind, kk) /\ Len(kind) < MaxRequests
      /\ UNCHANGED <<habits, inBuffer_, state_, hState_, headers_, parsed, error_>>
  BY DEF ClientSends, data, parse
<1>3. Len(kind') = Len(kind) + 1 /\ kk \in AllKinds /\ MaxRequests \in Nat
  BY <1>1, <1>2, SessionAssumption
<1>4. t \in Seq(Token) /\ t # <<>> /\ t[1].c = "G" /\ t = Text(Len(kind) + 1, kk)
  <2>1. Len(kind') \in 1 .. MaxRequests
    BY <1>1, <1>2, <1>3
  <2>2. Spelled(t, Len(kind'), kk)
    BY <1>3, <2>1, TextGrammar
  <2>3. t = Text(Len(kind) + 1, kk)
    BY <1>3
  <2> HIDE DEF t
  <2>4. QED
    BY <2>2, <2>3 DEF Spelled
<1>5. PICK n \in DOMAIN t :
        /\ unsent' = SubSeq(t, n + 1, Len(t))
        /\ rx' = rx \o SubSeq(t, 1, n)
        /\ "splits" \notin habits => n = Len(t)
  BY DEF ClientSends, Arrives
<1> HIDE DEF t
<1>8. Chain(Pending, kind) /\ KnownInv /\ WholeInv /\ Len(kind) <= MaxRequests
  BY DEF HeadsBase
<1>9. Len(kind) + 1 <= MaxRequests
  BY <1>1, <1>2, <1>3
<1>10. Chain(Pending', kind')
  BY SendsMore
<1>11. /\ \A k \in 1 .. Len(kind) + 1 :
            Due(Pending, kind, k) => Due(Pending', kind', k)
       /\ \A k, h : Under(Pending, kind, k, h) => Under(Pending', kind', k, h)
       /\ \A h : Stuck(Pending, h) => Stuck(Pending', h)
       /\ Lost(Pending) => Lost(Pending')
       /\ \A k \in 1 .. Len(kind) :
            /\ kind'[k] = kind[k] /\ OwnNames(kind', k) = OwnNames(kind, k)
            /\ WholeAt(Pending, 1, kind, k, 4) => WholeAt(Pending', 1, kind', k, 4)
  BY SendsMore
<1>12. \A k \in 1 .. Len(kind) : k \in 1 .. Len(kind')
  BY <1>1, <1>3
<1>13. KnownInv'
  BY <1>2, <1>8, <1>11, <1>12 DEF KnownInv
<1>14. WholeInv'
  <2>1. SUFFICES ASSUME "splits" \notin habits
                 PROVE  WholeInv'
    BY <1>2 DEF WholeInv
  <2>2. rx # <<>> => rx[1].c = "G"
    BY <1>8, <2>1 DEF WholeInv
  <2>3. unsent' = <<>> /\ rx' = rx \o t
    <3>1. n = Len(t) /\ SubSeq(t, 1, Len(t)) = t
          /\ SubSeq(t, Len(t) + 1, Len(t)) = <<>>
      BY <1>4, <1>5, <2>1
    <3>2. QED
      BY <1>5, <3>1
  <2>4. rx' # <<>> => rx'[1].c = "G"
    <3>1. CASE rx = <<>>
      <4>1. <<>> \o t = t
        BY <1>4
      <4>2. QED
        BY <1>4, <2>3, <3>1, <4>1
    <3>2. CASE rx # <<>>
      <4>1. (rx \o t)[1] = rx[1]
        BY <1>1, <1>4, <3>2
      <4>2. QED
        BY <2>2, <2>3, <3>2, <4>1
    <3>3. QED
      BY <3>1, <3>2
  <2>5. state_ # "uri" => /\ parsed \in 1 .. Len(kind)
                          /\ kind'[parsed] = kind[parsed]
    BY <1>8, <1>11 DEF KnownInv
  <2>6. ASSUME ~error_', state_' = "headers"
        PROVE  /\ hState_' = "H_START" /\ headers_' = {}
               /\ WholeAt(Pending', 1, kind', parsed', 4)
               /\ Len(inBuffer_') >= Len(Text(parsed', kind'[parsed'])) - 3
    <3>1. /\ hState_ = "H_START" /\ headers_ = {}
          /\ WholeAt(Pending, 1, kind, parsed, 4)
          /\ Len(inBuffer_) >= Len(Text(parsed, kind[parsed])) - 3
      BY <1>2, <1>8, <2>1, <2>6 DEF WholeInv
    <3>2. parsed \in 1 .. Len(kind) /\ kind'[parsed] = kind[parsed]
      BY <1>2, <2>5, <2>6
    <3>3. WholeAt(Pending', 1, kind', parsed, 4)
      BY <1>11, <3>1, <3>2
    <3>4. QED
      BY <1>2, <3>1, <3>2, <3>3
  <2>7. ASSUME ~error_', state_' \in {"analysis", "finish"}, inBuffer_' # <<>>
        PROVE  kind'[parsed'] \in Posts \/ Lost(Pending')
    <3>1. kind[parsed] \in Posts \/ Lost(Pending)
      BY <1>2, <1>8, <2>1, <2>7 DEF WholeInv
    <3>2. kind'[parsed] = kind[parsed]
      BY <1>2, <2>5, <2>7
    <3>3. QED
      BY <1>2, <1>11, <3>1, <3>2
  <2>8. QED
    BY <2>3, <2>4, <2>6, <2>7 DEF WholeInv
<1>15. ASSUME NEW k \in 1 .. Len(kind) + 1, ~error_', Turn(k)
       PROVE  Turn(k)' /\ k \in 1 .. Len(kind') + 1
  <2>1. k \in 1 .. Len(kind') + 1 /\ (k <= Len(kind) => k \in 1 .. Len(kind))
        /\ (k <= Len(kind) => k <= Len(kind') /\ k + 1 \in 1 .. Len(kind) + 1)
    BY <1>1, <1>3
  <2>2. state_' = "uri" =>
          Due(Pending', kind', k) /\ hState_' = "H_START" /\ headers_' = {}
    BY <1>2, <1>11, <1>15 DEF Turn
  <2>3. state_' = "headers" =>
          Under(Pending', kind', k, hState_') \/ Stuck(Pending', hState_')
    BY <1>2, <1>11, <1>15 DEF Turn
  <2>4. state_' \in {"headers", "body", "analysis"} =>
          /\ parsed' = k /\ k <= Len(kind') /\ k <= Len(kind)
          /\ headers_' \subseteq OwnNames(kind', k)
    BY <1>2, <1>11, <1>15, <2>1 DEF Turn
  <2>5. state_' = "body" => kind'[k] \in Posts
    BY <1>2, <1>11, <1>15, <2>1, <2>4 DEF Turn
  <2>6. state_' = "analysis" => kind'[k] \in Posts \/ Due(Pending', kind', k + 1)
    BY <1>2, <1>11, <1>15, <2>1, <2>4 DEF Turn
  <2>7. state_' = "finish" => parsed' = k - 1 /\ Due(Pending', kind', k)
    BY <1>2, <1>11, <1>15 DEF Turn
  <2>8. Turn(k)'
    BY <2>2, <2>3, <2>4, <2>5, <2>6, <2>7 DEF Turn
  <2>9. QED
    BY <2>1, <2>8
<1>16. ~(state_ = "analysis" /\ state_' = "finish") /\ (error_ => error_')
       /\ Len(kind') <= MaxRequests
  BY <1>1, <1>2, <1>3
<1>17. QED
  BY <1>10, <1>13, <1>14, <1>15, <1>16 DEF HeadsKept, HeadsBase

\* A request line is looked for.
LEMMA UriHeads ==
  ASSUME TypeOK, ErrorInv, HeadsInv, PlaceInv', ParseURI
  PROVE  HeadsKept
<1> DEFINE rest == rx \o unsent
           uri == parseURI(inBuffer_)
           Y == uri.str \o rest
<1>1. /\ kind \in Seq(AllKinds) /\ Len(kind) \in Nat /\ inBuffer_ \in Seq(Token)
      /\ rest \in Seq(Token) /\ Pending \in Seq(Token)
  BY HeadsTypes
<1>2. Pending = inBuffer_ \o rest
  BY DEF Pending
<1>3. /\ UNCHANGED <<habits, kind, rx, unsent, hState_, headers_>>
      /\ state_ = "uri" /\ pc = "process"
      /\ \/ /\ uri.success /\ inBuffer_' = uri.str /\ parsed' = uri.id
            /\ state_' = "headers" /\ UNCHANGED error_
         \/ /\ inBuffer_' = <<>> /\ error_' = TRUE
            /\ UNCHANGED <<parsed, state_>>
  BY DEF ParseURI, HandleError, client
<1>4. ~error_
  BY <1>3 DEF ErrorInv
<1>5. Chain(inBuffer_ \o rest, kind) /\ KnownInv /\ WholeInv
      /\ Len(kind) <= MaxRequests
  BY <1>2 DEF HeadsBase, HeadsInv
<1>6. "splits" \notin habits => rest = rx /\ (rest # <<>> => rest[1].c = "G")
  <2>1. rx \o <<>> = rx
    BY DEF TypeOK
  <2>2. QED
    BY <1>5, <2>1 DEF WholeInv
<1> HIDE DEF uri, rest
<1>7. CASE inBuffer_' = <<>> /\ error_' = TRUE /\ UNCHANGED <<parsed, state_>>
  <2>1. Chain(Pending', kind')
    <3> DEFINE d == Len(inBuffer_)
               Z == SubSeq(inBuffer_, d + 1, Len(inBuffer_)) \o rest
    <3>1. /\ Pending \in Seq(Token) /\ Z \in Seq(Token) /\ Later(Pending, Z, d)
      <4>1. d \in 0 .. Len(inBuffer_)
        BY <1>1
      <4>2. QED
        BY <1>1, <1>2, <4>1, TakenAway
    <3>2. Chain(Z, kind)
      <4> HIDE DEF Z, d
      <4>1. /\ d \in 0 .. Len(Pending) /\ Len(Z) = Len(Pending) - d
            /\ \A i \in 1 .. Len(Z) : Z[i] = Pending[d + i]
        BY <3>1 DEF Later
      <4>2. Chain(Pending, kind)
        BY <1>2, <1>5
      <4>3. QED
        BY <1>1, <3>1, <4>1, <4>2, LaterText
    <3>3. SubSeq(inBuffer_, d + 1, Len(inBuffer_)) = <<>>
      BY <1>1
    <3>4. Pending' = <<>> \o rest
      BY <1>3, <1>7 DEF Pending, rest
    <3>5. QED
      BY <1>3, <3>2, <3>3, <3>4
  <2>2. KnownInv'
    BY <1>3, <1>5, <1>7 DEF KnownInv
  <2>3. WholeInv'
    BY <1>3, <1>5, <1>7 DEF WholeInv
  <2>4. QED
    BY <1>3, <1>5, <1>7, <2>1, <2>2, <2>3 DEF HeadsKept, HeadsBase
<1>8. CASE /\ uri.success /\ inBuffer_' = uri.str /\ parsed' = uri.id
           /\ state_' = "headers" /\ UNCHANGED error_
  <2>1. Pending' = Y
    BY <1>3, <1>8 DEF Pending, rest
  <2>2. ASSUME NEW k \in 1 .. Len(kind) + 1, Turn(k)
        PROVE  /\ Chain(Y, kind) /\ k \in 1 .. Len(kind) /\ parsed' = k
               /\ Turn(k)'
               /\ "splits" \notin habits =>
                    /\ hState_' = "H_START" /\ headers_' = {}
                    /\ WholeAt(Y, 1, kind, k, 4)
                    /\ Len(inBuffer_') >= Len(Text(k, kind[k])) - 3
    <3>1. /\ Due(inBuffer_ \o rest, kind, k) /\ hState_ = "H_START"
          /\ headers_ = {}
      BY <1>2, <1>3, <2>2 DEF Turn
    <3>2. parseURI(inBuffer_).success
      BY <1>8 DEF uri
    <3>3. /\ Chain(Y, kind) /\ k <= Len(kind) /\ uri.id = k
          /\ Under(Y, kind, k, "H_START") \/ Stuck(Y, "H_START")
      BY <1>1, <1>5, <3>1, <3>2, UriTurn DEF uri
    <3>4. k \in 1 .. Len(kind)
      BY <1>1, <3>3
    <3>5. Turn(k)'
      BY <1>3, <1>8, <2>1, <3>1, <3>3 DEF Turn
    <3>6. "splits" \notin habits =>
            /\ WholeAt(Y, 1, kind, k, 4)
            /\ Len(inBuffer_') >= Len(Text(k, kind[k])) - 3
      <4>1. SUFFICES ASSUME "splits" \notin habits
                     PROVE  /\ WholeAt(Y, 1, kind, k, 4)
                            /\ Len(uri.str) >= Len(Text(k, kind[k])) - 3
        BY <1>8
      <4>2. k <= MaxRequests /\ parseURI(inBuffer_).id = k
        <5>1. MaxRequests \in Nat
          BY SessionAssumption
        <5>2. QED
          BY <1>1, <1>5, <3>3, <3>4, <5>1 DEF uri
      <4>3. rest # <<>> => rest[1].c = "G"
        BY <1>6, <4>1
      <4>4. QED
        BY <1>1, <1>5, <3>2, <3>4, <4>2, <4>3, WholeLine DEF uri
    <3>7. QED
      BY <1>3, <1>8, <3>1, <3>3, <3>4, <3>5, <3>6
  <2>3. PICK k \in 1 .. Len(kind) + 1 : Turn(k)
    BY <1>4 DEF HeadsInv
  <2>4. Chain(Pending', kind')
    BY <1>3, <2>1, <2>2, <2>3
  <2>5. KnownInv'
    BY <1>3, <1>8, <2>2, <2>3 DEF KnownInv
  <2>6. WholeInv'
    <3>1. SUFFICES ASSUME "splits" \notin habits
                   PROVE  WholeInv'
      BY <1>3 DEF WholeInv
    <3>2. unsent' = <<>> /\ (rx' # <<>> => rx'[1].c = "G")
      BY <1>3, <1>5, <3>1 DEF WholeInv
    <3>3. /\ hState_' = "H_START" /\ headers_' = {}
          /\ WholeAt(Pending', 1, kind', parsed', 4)
          /\ Len(inBuffer_') >= Len(Text(parsed', kind'[parsed'])) - 3
      BY <1>3, <2>1, <2>2, <2>3, <3>1
    <3>4. QED
      BY <1>8, <3>2, <3>3 DEF WholeInv
  <2>7. \A i \in 1 .. Len(kind) + 1 : Turn(i) => Turn(i)' /\ i \in 1 .. Len(kind')
    BY <1>3, <2>2
  <2>8. \A i \in 1 .. Len(kind') : i \in 1 .. Len(kind') + 1
    BY <1>1, <1>3
  <2>9. ~(state_ = "analysis") /\ Len(kind') <= MaxRequests /\ (error_ => error_')
    BY <1>3, <1>4, <1>5
  <2>10. QED
    BY <2>4, <2>5, <2>6, <2>7, <2>8, <2>9 DEF HeadsKept, HeadsBase
<1>9. QED
  BY <1>3, <1>7, <1>8

\* The headers are looked at.
LEMMA HeadersHeads ==
  ASSUME TypeOK, ErrorInv, HeadsInv, PlaceInv', ParseHeaders
  PROVE  HeadsKept
<1> DEFINE rest == rx \o unsent
           head == parseHeaders(inBuffer_, hState_, headers_)
           Y == head.str \o rest
<1>1. /\ kind \in Seq(AllKinds) /\ Len(kind) \in Nat /\ inBuffer_ \in Seq(Token)
      /\ rest \in Seq(Token) /\ Pending \in Seq(Token)
      /\ hState_ \in ParseStates /\ headers_ \in SUBSET Token
  BY HeadsTypes DEF TypeOK
<1>2. Pending = inBuffer_ \o rest
  BY DEF Pending
<1>3. /\ UNCHANGED <<habits, kind, rx, unsent, parsed>>
      /\ state_ = "headers" /\ pc = "process"
      /\ hState_' = head.hState_ /\ headers_' = head.headers_
      /\ inBuffer_' = head.str
      /\ \/ head.flag = "again" /\ UNCHANGED <<state_, error_>>
         \/ head.flag = "error" /\ UNCHANGED state_ /\ error_' = TRUE
         \/ /\ head.flag = "success"
            /\ state_' = IF kind[parsed] \in Posts THEN "body" ELSE "analysis"
            /\ UNCHANGED error_
  BY DEF ParseHeaders, HandleError, client
<1>4. ~error_
  BY <1>3 DEF ErrorInv
<1>5. Chain(inBuffer_ \o rest, kind) /\ KnownInv /\ WholeInv
      /\ Len(kind) <= MaxRequests
  BY <1>2 DEF HeadsBase, HeadsInv
<1>6. "splits" \notin habits => rest = rx /\ (rest # <<>> => rest[1].c = "G")
  <2>1. rx \o <<>> = rx
    BY DEF TypeOK
  <2>2. QED
    BY <1>5, <2>1 DEF WholeInv
<1> HIDE DEF head, rest
<1>7. Pending' = Y
  BY <1>3 DEF Pending, rest
<1> HIDE DEF Y
<1>8. ASSUME NEW k \in 1 .. Len(kind) + 1, Turn(k)
      PROVE  /\ Chain(Y, kind) /\ k \in 1 .. Len(kind) /\ parsed = k
             /\ head.flag # "error" => head.headers_ \subseteq OwnNames(kind, k)
             /\ head.flag = "again" =>
                  Under(Y, kind, k, head.hState_) \/ Stuck(Y, head.hState_)
             /\ head.flag = "success" /\ kind[k] \notin Posts =>
                  Due(Y, kind, k + 1)
  <2>1. /\ parsed = k /\ k <= Len(kind) /\ headers_ \subseteq OwnNames(kind, k)
        /\ \/ Under(inBuffer_ \o rest, kind, k, hState_)
           \/ Stuck(inBuffer_ \o rest, hState_)
    BY <1>2, <1>3, <1>8 DEF Turn
  <2>2. k \in 1 .. Len(kind)
    BY <1>1, <2>1
  <2>3. CASE Under(inBuffer_ \o rest, kind, k, hState_)
    <3>1. /\ Chain(Y, kind)
          /\ head.flag # "error" => head.headers_ \subseteq OwnNames(kind, k)
          /\ head.flag = "again" =>
               Under(Y, kind, k, head.hState_) \/ Stuck(Y, head.hState_)
          /\ head.flag = "success" /\ kind[k] \notin Posts =>
               Due(Y, kind, k + 1)
      BY <1>1, <1>5, <2>1, <2>2, <2>3, HeadersTurn DEF head, Y
    <3>2. QED
      BY <2>1, <2>2, <3>1
  <2>4. CASE Stuck(inBuffer_ \o rest, hState_)
    <3>1. /\ Chain(Y, kind) /\ head.flag # "success"
          /\ head.flag = "again" =>
               head.headers_ = headers_ /\ Stuck(Y, head.hState_)
      BY <1>1, <1>5, <2>4, StuckTurn DEF head, Y
    <3>2. head.flag # "error" => head.flag = "again"
      BY <1>3, <3>1
    <3>3. QED
      BY <2>1, <2>2, <3>1, <3>2
  <2>5. QED
    BY <2>1, <2>3, <2>4
<1>9. PICK k \in 1 .. Len(kind) + 1 : Turn(k)
  BY <1>4 DEF HeadsInv
<1>10. ASSUME "splits" \notin habits
       PROVE  /\ head.flag = "again" =>
                   /\ head.str = inBuffer_ /\ head.hState_ = "H_START"
                   /\ head.headers_ = {}
                   /\ WholeAt(Pending, 1, kind, parsed, 4)
                   /\ Len(inBuffer_) >= Len(Text(parsed, kind[parsed])) - 3
              /\ head.flag = "success" =>
                   /\ head.headers_ = OwnNames(kind, parsed)
                   /\ kind[parsed] \in Posts \/ head.str = <<>> \/ Lost(Y)
  <2>1. /\ hState_ = "H_START" /\ headers_ = {}
        /\ WholeAt(Pending, 1, kind, parsed, 4)
        /\ Len(inBuffer_) >= Len(Text(parsed, kind[parsed])) - 3
    BY <1>3, <1>4, <1>5, <1>10 DEF WholeInv
  <2>2. parsed \in 1 .. Len(kind) /\ parsed <= MaxRequests
    <3>1. parsed \in 1 .. Len(kind) /\ MaxRequests \in Nat
      BY <1>8, <1>9, SessionAssumption
    <3>2. QED
      BY <1>1, <1>5, <3>1
  <2>3. rest # <<>> => rest[1].c = "G"
    BY <1>6, <1>10
  <2>4. head = parseHeaders(inBuffer_, "H_START", {})
    BY <2>1 DEF head
  <2>5. WholeAt(inBuffer_ \o rest, 1, kind, parsed, 4)
    BY <1>2, <2>1
  <2>6. LET hd == parseHeaders(inBuffer_, "H_START", {})
            Z == hd.str \o rest
        IN /\ hd.flag = "again" =>
                hd.str = inBuffer_ /\ hd.hState_ = "H_START" /\ hd.headers_ = {}
           /\ hd.flag = "success" =>
                /\ hd.headers_ = OwnNames(kind, parsed)
                /\ kind[parsed] \in Posts \/ hd.str = <<>> \/ Lost(Z)
    BY <1>1, <1>5, <2>1, <2>2, <2>3, <2>5, WholeTurn
  <2>7. QED
    BY <2>1, <2>4, <2>6 DEF Y
<1>11. Chain(Pending', kind')
  BY <1>3, <1>7, <1>8, <1>9
<1>12. KnownInv'
  <2>1. state_' \in {"body", "analysis"} => head.flag = "success"
    BY <1>3
  <2>2. parsed \in 1 .. Len(kind) /\ parsed = k
    BY <1>8, <1>9
  <2>3. head.flag = "success" => head.headers_ \subseteq OwnNames(kind, parsed)
    BY <1>8, <1>9, <2>2
  <2>4. QED
    BY <1>3, <1>10, <2>1, <2>2, <2>3 DEF KnownInv
<1>13. WholeInv'
  <2>1. SUFFICES ASSUME "splits" \notin habits
                 PROVE  WholeInv'
    BY <1>3 DEF WholeInv
  <2>2. unsent' = <<>> /\ (rx' # <<>> => rx'[1].c = "G")
    BY <1>3, <1>5, <2>1 DEF WholeInv
  <2>3. ~error_' /\ state_' = "headers" =>
          /\ hState_' = "H_START" /\ headers_' = {}
          /\ WholeAt(Pending', 1, kind', parsed', 4)
          /\ Len(inBuffer_') >= Len(Text(parsed', kind'[parsed'])) - 3
    <3>1. SUFFICES ASSUME ~error_', state_' = "headers"
                   PROVE  /\ hState_' = "H_START" /\ headers_' = {}
                          /\ WholeAt(Pending', 1, kind', parsed', 4)
                          /\ Len(inBuffer_') >=
                               Len(Text(parsed', kind'[parsed'])) - 3
      OBVIOUS
    <3>2. head.flag = "again"
      BY <1>3, <3>1
    <3>3. /\ head.str = inBuffer_ /\ head.hState_ = "H_START"
          /\ head.headers_ = {}
          /\ WholeAt(Pending, 1, kind, parsed, 4)
          /\ Len(inBuffer_) >= Len(Text(parsed, kind[parsed])) - 3
      BY <1>10, <2>1, <3>2
    <3>4. Pending' = Pending
      BY <1>2, <1>7, <3>3 DEF Y
    <3>5. QED
      BY <1>3, <3>3, <3>4
  <2>4. ~error_' /\ state_' \in {"analysis", "finish"} /\ inBuffer_' # <<>> =>
          kind'[parsed'] \in Posts \/ Lost(Pending')
    BY <1>3, <1>7, <1>10, <2>1
  <2>5. QED
    BY <2>2, <2>3, <2>4 DEF WholeInv
<1>14. ASSUME NEW i \in 1 .. Len(kind) + 1, ~error_', Turn(i)
       PROVE  Turn(i)' /\ i \in 1 .. Len(kind') + 1
  <2>1. head.flag # "error"
    BY <1>3, <1>14
  <2>2. /\ i \in 1 .. Len(kind) /\ parsed = i
        /\ head.headers_ \subseteq OwnNames(kind, i)
        /\ head.flag = "again" =>
             Under(Y, kind, i, head.hState_) \/ Stuck(Y, head.hState_)
        /\ head.flag = "success" /\ kind[i] \notin Posts => Due(Y, kind, i + 1)
    BY <1>8, <1>14, <2>1
  <2>3. i <= Len(kind)
    BY <1>1, <2>2
  <2>4. CASE head.flag = "again"
    <3>1. state_' = "headers"
      BY <1>3, <2>4
    <3>2. Turn(i)'
      BY <1>3, <1>7, <2>2, <2>3, <2>4, <3>1 DEF Turn
    <3>3. QED
      BY <1>3, <3>2
  <2>5. CASE head.flag = "success"
    <3>1. state_' = IF kind[parsed] \in Posts THEN "body" ELSE "analysis"
      BY <1>3, <2>5
    <3>2. Turn(i)'
      BY <1>3, <1>7, <2>2, <2>3, <2>5, <3>1 DEF Turn
    <3>3. QED
      BY <1>3, <3>2
  <2>6. QED
    BY <1>3, <2>1, <2>4, <2>5
<1>15. QED
  BY <1>3, <1>4, <1>5, <1>11, <1>12, <1>13, <1>14 DEF HeadsKept, HeadsBase

\* The body is waited for, or is there.
LEMMA BodyHeads ==
  ASSUME ErrorInv, HeadsInv, PlaceInv', ReceiveBody
  PROVE  HeadsKept
<1>1. /\ UNCHANGED <<habits, kind, unsent, rx, inBuffer_, hState_, headers_,
                     parsed, error_>>
      /\ state_ = "body" /\ state_' \in {"body", "analysis"} /\ pc = "process"
  BY DEF ReceiveBody, client, socket
<1>2. Pending' = Pending /\ ~error_
  BY <1>1 DEF Pending, ErrorInv
<1>3. /\ Len(kind) <= MaxRequests /\ Chain(Pending, kind) /\ KnownInv /\ WholeInv
  BY DEF HeadsInv, HeadsBase
<1>4. KnownInv'
  BY <1>1, <1>3 DEF KnownInv
<1>5. ASSUME NEW k \in 1 .. Len(kind) + 1, Turn(k)
      PROVE  Turn(k)' /\ k \in 1 .. Len(kind') + 1 /\ kind[parsed] \in Posts
  BY <1>1, <1>2, <1>5 DEF Turn
<1>6. PICK k \in 1 .. Len(kind) + 1 : Turn(k)
  BY <1>2 DEF HeadsInv
<1>7. kind[parsed] \in Posts
  BY <1>5, <1>6
<1>8. WholeInv'
  BY <1>1, <1>3, <1>7 DEF WholeInv
<1>9. ~(state_ = "analysis")
  BY <1>1
<1>10. QED
  BY <1>1, <1>2, <1>3, <1>4, <1>5, <1>8, <1>9 DEF HeadsKept, HeadsBase

\* The request is answered, or refused.
LEMMA AnswerHeads ==
  ASSUME TypeOK, ErrorInv, HeadsInv, PlaceInv', AnalysisRequest
  PROVE  HeadsKept
<1>1. /\ UNCHANGED <<habits, kind, unsent, rx, inBuffer_, hState_, headers_,
                     parsed>>
      /\ state_ = "analysis" /\ pc = "process"
      /\ \/ /\ kind[parsed] \notin Posts /\ state_' = "finish" /\ UNCHANGED error_
         \/ error_' = TRUE /\ UNCHANGED state_
  BY DEF AnalysisRequest, AnswerPage, AnswerFile, AnswerMissing, AnswerPost,
         HandleError, client, Posts
<1>2. Pending' = Pending /\ ~error_
  BY <1>1 DEF Pending, ErrorInv
<1>3. /\ Len(kind) <= MaxRequests /\ Chain(Pending, kind) /\ KnownInv /\ WholeInv
      /\ Len(kind) \in Nat
  BY HeadsTypes DEF HeadsInv, HeadsBase
<1>4. KnownInv'
  BY <1>1, <1>3 DEF KnownInv
<1>5. WholeInv'
  <2>1. SUFFICES ASSUME "splits" \notin habits
                 PROVE  WholeInv'
    BY <1>1 DEF WholeInv
  <2>2. /\ unsent' = <<>> /\ (rx' # <<>> => rx'[1].c = "G")
        /\ inBuffer_ # <<>> => kind[parsed] \in Posts \/ Lost(Pending)
    BY <1>1, <1>2, <1>3, <2>1 DEF WholeInv
  <2>3. QED
    BY <1>1, <1>2, <2>2 DEF WholeInv
<1>6. ASSUME NEW k \in 1 .. Len(kind) + 1, Turn(k), ~error_'
      PROVE  /\ k + 1 \in 1 .. Len(kind') + 1 /\ Turn(k + 1)'
             /\ state_' = "finish"
  <2>1. /\ kind[parsed] \notin Posts /\ state_' = "finish" /\ parsed' = parsed
    BY <1>1, <1>6
  <2>2. parsed = k /\ k <= Len(kind) /\ Due(Pending, kind, k + 1)
    BY <1>1, <1>6, <2>1 DEF Turn
  <2>3. k + 1 \in 1 .. Len(kind') + 1 /\ parsed' = (k + 1) - 1
    BY <1>1, <1>3, <2>1, <2>2
  <2>4. Turn(k + 1)'
    BY <1>1, <1>2, <2>1, <2>2, <2>3 DEF Turn
  <2>5. QED
    BY <2>1, <2>3, <2>4
<1>7. QED
  BY <1>1, <1>2, <1>3, <1>4, <1>5, <1>6 DEF HeadsKept, HeadsBase

\* The connection is ready for the next request.
LEMMA ResetHeads ==
  ASSUME TypeOK, HeadsInv, PlaceInv', FlushAnswer
  PROVE  HeadsKept
<1>1. /\ UNCHANGED <<habits, kind, unsent, rx, inBuffer_, error_>>
      /\ ~error_ /\ state_ = "finish" /\ state_' = "uri"
      /\ hState_' = "H_START" /\ headers_' = {}
  BY DEF FlushAnswer, Reset, client
<1>2. Pending' = Pending
  BY <1>1 DEF Pending
<1>3. /\ Len(kind) <= MaxRequests /\ Chain(Pending, kind) /\ KnownInv /\ WholeInv
  BY DEF HeadsInv, HeadsBase
<1>4. KnownInv'
  BY <1>1 DEF KnownInv
<1>5. WholeInv'
  BY <1>1, <1>3 DEF WholeInv
<1>6. ASSUME NEW k \in 1 .. Len(kind) + 1, Turn(k)
      PROVE  Turn(k)' /\ k \in 1 .. Len(kind') + 1
  BY <1>1, <1>2, <1>6 DEF Turn
<1>7. ~(state_ = "analysis")
  BY <1>1
<1>8. QED
  BY <1>1, <1>2, <1>3, <1>4, <1>5, <1>6, <1>7 DEF HeadsKept, HeadsBase

\* Every step keeps the invariant.
LEMMA HeadsStep ==
  ASSUME SessionInv, HeadsInv, Next
  PROVE  HeadsKept
<1>1. TypeOK /\ ReadInv /\ ErrorInv /\ HeadsBase /\ PlaceInv
  BY DEF SessionInv, HeadsInv, HeadsBase
<1>2. PlaceInv'
  BY <1>1, PlaceStep
<1>3. ASSUME NEW k \in Kinds, ClientSends(k)
      PROVE  HeadsKept
  BY <1>1, <1>2, <1>3, SendsHeads
<1>4. ClientSendsRest \/ Read \/ ReadFails => HeadsKept
  BY <1>1, PassedOn
<1>5. ParseURI => HeadsKept
  BY <1>1, <1>2, UriHeads
<1>6. ParseHeaders => HeadsKept
  BY <1>1, <1>2, HeadersHeads
<1>7. ReceiveBody => HeadsKept
  BY <1>1, <1>2, BodyHeads
<1>8. AnalysisRequest => HeadsKept
  BY <1>1, <1>2, AnswerHeads
<1>9. FlushAnswer => HeadsKept
  BY <1>1, <1>2, ResetHeads
<1>10. HeadsQuiet => HeadsKept
  BY <1>1, <1>2, QuietHeads
<1>11. ClientFinishes \/ ClientResets \/ ClientReads => HeadsQuiet
  BY DEF ClientFinishes, ClientResets, ClientReads, HeadsQuiet, client, data
<1>12. Dispatch \/ IgnoreFailure => HeadsQuiet
  BY DEF Dispatch, IgnoreFailure, HeadsQuiet, client, socket
<1>13. RefuseBody => HeadsQuiet
  BY DEF RefuseBody, HandleError, HeadsQuiet, client
<1>14. FlushNothing \/ FlushWaiting \/ HandleWrite \/ SendFails => HeadsQuiet
  BY DEF FlushNothing, FlushWaiting, HandleWrite, SendFails, HeadsQuiet, client,
         socket, data
<1>15. KeepConn \/ LeaveConn \/ DropConn \/ Expire => HeadsQuiet
  BY DEF KeepConn, LeaveConn, DropConn, Expire, HeadsQuiet, client, socket
<1>16. QED
  BY <1>3, <1>4, <1>5, <1>6, <1>7, <1>8, <1>9, <1>10, <1>11, <1>12, <1>13,
     <1>14, <1>15 DEF Next, HandleEvents, Client

\* The invariant of the input holds.
LEMMA HeadsInvariant == Spec => []HeadsInv
<1>1. SessionInv /\ HeadsInv /\ [Next]_vars => HeadsInv'
  <2>1. SUFFICES ASSUME SessionInv, HeadsInv, [Next]_vars
                 PROVE  HeadsInv'
    OBVIOUS
  <2>2. CASE Next
    <3>1. HeadsKept
      BY <2>1, <2>2, HeadsStep
    <3>2. ~error_' => \E k \in 1 .. Len(kind) + 1 : Turn(k)
      BY <2>1, <3>1 DEF HeadsKept, HeadsInv
    <3>3. ~error_' => \E m \in 1 .. Len(kind') + 1 : Turn(m)'
      BY <3>1, <3>2 DEF HeadsKept
    <3>4. QED
      BY <3>1, <3>3 DEF HeadsKept, HeadsInv
  <2>3. CASE UNCHANGED vars
    <3>1. UNCHANGED <<habits, kind, unsent, rx, pc, inBuffer_, state_, hState_,
                      headers_, error_, parsed>>
      BY <2>3 DEF vars, client, socket, data, parse
    <3>2. Pending' = Pending
      BY <3>1 DEF Pending
    <3>3. HeadsBase'
      BY <2>1, <3>1, <3>2 DEF HeadsInv, HeadsBase, KnownInv, WholeInv, PlaceInv
    <3>4. \A k : Turn(k) => Turn(k)'
      BY <3>1, <3>2 DEF Turn
    <3>5. QED
      BY <2>1, <3>1, <3>3, <3>4 DEF HeadsInv
  <2>4. QED
    BY <2>1, <2>2, <2>3
<1>2. QED
  BY InitHeads, SessionInvariant, <1>1, PTL DEF Spec

\* No header of one request is taken for another's, and a request that came in
\* one piece has all of its own when it is answered (parseHeaders, reset),
\* whatever the client sends ahead and wherever the network cuts it.
THEOREM HeadersAreKnown == Spec => []HeadersKnown
<1>1. TypeOK /\ HeadsInv => HeadersKnown
  <2>1. SUFFICES ASSUME TypeOK, HeadsInv, state_ \in {"body", "analysis"}
                 PROVE  /\ \A name \in headers_ : name.id = parsed
                        /\ "splits" \notin habits =>
                             Len(Names(kind[parsed])) = Cardinality(headers_)
    BY DEF HeadersKnown
  <2>2. /\ parsed \in 1 .. Len(kind) /\ headers_ \subseteq OwnNames(kind, parsed)
        /\ "splits" \notin habits => headers_ = OwnNames(kind, parsed)
    BY <2>1 DEF HeadsInv, HeadsBase, KnownInv
  <2>3. \A name \in OwnNames(kind, parsed) : name.id = parsed
    BY DEF OwnNames
  <2>4. Cardinality(OwnNames(kind, parsed)) = Len(Names(kind[parsed]))
    <3>1. kind \in Seq(AllKinds)
      BY <2>1, HeadsTypes
    <3>2. QED
      BY <2>2, <3>1, NamesCount
  <2>5. QED
    BY <2>2, <2>3, <2>4
<1>2. QED
  BY <1>1, SessionTypes, HeadsInvariant, PTL

-----------------------------------------------------------------------------
(* The order of the answers.                                               *)

\* The answer to request i of K, as Answer has it.
Reply(K, i) ==
  LET Part(p) == [id |-> i, part |-> p] IN
  CASE K[i] \in {"hello", "bare"} -> <<Part("all")>>
    [] K[i] = "file" -> <<Part("head"), Part("body")>>
    [] K[i] = "head" -> <<Part("head")>>
    [] K[i] = "missing" -> <<Part("error")>>
    [] K[i] \in Posts -> <<>>

\* Chunk x is among the first n of s.
Among(x, s, n) == \E m \in 1 .. n : s[m] = x

\* What request j was still to get may be gone when request i is answered, of
\* a client with the habits h.
Gone(K, j, i, h) ==
  /\ {"pipelines", "splits"} \subseteq h
  /\ \E k \in j + 1 .. i : K[k] \in {"hello", "bare"}

\* The first n of s have all that request j is to get before request i.
Before(s, n, K, j, i, h) ==
  Gone(K, j, i, h) \/ \A c \in DOMAIN Reply(K, j) : Among(Reply(K, j)[c], s, n)

\* The chunks s are answers in the order of AnswersInOrder.
InOrder(s, K, h) ==
  \A n \in 1 .. Len(s) : s[n].part # "error" =>
    /\ s[n].id \in 1 .. Len(K)
    /\ ~Among(s[n], s, n - 1)
    /\ \A m \in 1 .. n - 1 : s[m].id <= s[n].id
    /\ s[n].part = "body" => Among([id |-> s[n].id, part |-> "head"], s, n - 1)
    /\ \A j \in 1 .. s[n].id - 1 : Before(s, n - 1, K, j, s[n].id, h)

\* They are from the answers to the first m requests.
From(s, K, m) ==
  \A n \in 1 .. Len(s) :
    /\ s[n].id \in 1 .. m
    /\ \E c \in DOMAIN Reply(K, s[n].id) : s[n] = Reply(K, s[n].id)[c]

\* They are the answers to the first m requests.
Done(s, K, m, h) ==
  From(s, K, m) /\ \A j \in 1 .. m : Before(s, Len(s), K, j, m, h)

\* What answers have in them: parts of request i, none twice, in their order.
Parts(r, i) ==
  /\ r \in Seq(Chunk) /\ r # <<>>
  /\ \A c \in 1 .. Len(r) : r[c].id = i /\ r[c].part # "error"
  /\ \A c \in 1 .. Len(r) : ~Among(r[c], r, c - 1)
  /\ \A c \in 1 .. Len(r) :
       r[c].part = "body" => Among([id |-> i, part |-> "head"], r, c - 1)

\* An answer to what is not refused has all this (analysisRequest).
LEMMA ReplyShape ==
  ASSUME NEW K, NEW i \in 0 .. MaxRequests,
         K[i] \in {"hello", "bare", "file", "head"}
  PROVE  Parts(Reply(K, i), i)
<1> DEFINE Part(p) == [id |-> i, part |-> p]
           r == Reply(K, i)
<1>1. \A p \in {"all", "head", "body"} :
        Part(p) \in Chunk /\ Part(p).id = i /\ Part(p).part = p
  BY DEF Chunk
<1>2. \/ r = <<Part("all")>>
      \/ r = <<Part("head"), Part("body")>>
      \/ r = <<Part("head")>>
  <2>1. CASE K[i] \in {"hello", "bare"}
    BY <2>1 DEF Reply, Posts
  <2>2. CASE K[i] = "file"
    BY <2>2 DEF Reply, Posts
  <2>3. CASE K[i] = "head"
    BY <2>3 DEF Reply, Posts
  <2>4. QED
    BY <2>1, <2>2, <2>3
<1>3. PICK a, h, b \in Chunk :
        /\ a.id = i /\ a.part = "all" /\ h.id = i /\ h.part = "head"
        /\ b.id = i /\ b.part = "body" /\ h = [id |-> i, part |-> "head"]
        /\ r = <<a>> \/ r = <<h, b>> \/ r = <<h>>
  BY <1>1, <1>2, Zenon
<1> HIDE DEF Part, r
<1>4. ASSUME NEW x \in Chunk, r = <<x>>, x.id = i, x.part \in {"all", "head"}
      PROVE  Parts(r, i)
  <2>1. r \in Seq(Chunk) /\ Len(r) = 1 /\ r[1] = x /\ r # <<>>
    BY <1>4
  <2>2. \A c \in 1 .. Len(r) : c = 1 /\ c - 1 = 0
    BY <2>1
  <2>3. ~\E m \in 1 .. 0 : r[m] = r[1]
    OBVIOUS
  <2>4. \A c \in 1 .. Len(r) : ~Among(r[c], r, c - 1)
    BY <2>2, <2>3 DEF Among
  <2>5. QED
    BY <1>4, <2>1, <2>2, <2>4 DEF Parts
<1>5. ASSUME r = <<h, b>>
      PROVE  Parts(r, i)
  <2>1. r \in Seq(Chunk) /\ Len(r) = 2 /\ r[1] = h /\ r[2] = b /\ r # <<>>
    BY <1>5
  <2>2. \A c \in 1 .. Len(r) : (c = 1 /\ c - 1 = 0) \/ (c = 2 /\ c - 1 = 1)
    BY <2>1
  <2>3. ~Among(r[1], r, 0)
    BY DEF Among
  <2>4. ~Among(r[2], r, 1)
    <3>1. \A m \in 1 .. 1 : m = 1
      OBVIOUS
    <3>2. h # b
      BY <1>3
    <3>3. QED
      BY <2>1, <3>1, <3>2 DEF Among
  <2>5. Among([id |-> i, part |-> "head"], r, 1)
    <3>1. 1 \in 1 .. 1
      OBVIOUS
    <3>2. QED
      BY <1>3, <2>1, <3>1 DEF Among
  <2>6. \A c \in 1 .. Len(r) : r[c].id = i /\ r[c].part # "error"
    BY <1>3, <2>1, <2>2
  <2>7. \A c \in 1 .. Len(r) : ~Among(r[c], r, c - 1)
    BY <2>2, <2>3, <2>4
  <2>8. \A c \in 1 .. Len(r) :
          r[c].part = "body" => Among([id |-> i, part |-> "head"], r, c - 1)
    BY <1>3, <2>1, <2>2, <2>5
  <2>9. QED
    BY <2>1, <2>6, <2>7, <2>8 DEF Parts
<1>6. r = <<a>> => Parts(r, i)
  BY <1>3, <1>4
<1>7. r = <<h>> => Parts(r, i)
  BY <1>3, <1>4
<1>8. Parts(r, i)
  BY <1>3, <1>5, <1>6, <1>7, Zenon
<1>9. QED
  BY <1>8 DEF r

\* The answers that were there are still in order when the client sends another
\* request.
LEMMA LaterOrder ==
  ASSUME NEW K \in Seq(AllKinds), NEW kk \in AllKinds, NEW s \in Seq(Chunk),
         NEW h
  PROVE  /\ \A j \in 1 .. Len(K) : Reply(Append(K, kk), j) = Reply(K, j)
         /\ InOrder(s, K, h) => InOrder(s, Append(K, kk), h)
         /\ \A m \in 0 .. Len(K) : Done(s, K, m, h) => Done(s, Append(K, kk), m, h)
<1> DEFINE L == Append(K, kk)
<1>1. /\ Len(L) = Len(K) + 1 /\ Len(K) \in Nat
      /\ \A j \in 1 .. Len(K) : L[j] = K[j]
  OBVIOUS
<1> HIDE DEF L
<1>2. \A j \in 1 .. Len(K) : Reply(L, j) = Reply(K, j)
  BY <1>1 DEF Reply
<1>3. ASSUME NEW i \in 0 .. Len(K), NEW j \in 1 .. i, NEW n,
             Before(s, n, K, j, i, h)
      PROVE  Before(s, n, L, j, i, h)
  <2>1. j \in 1 .. Len(K) /\ \A k \in j + 1 .. i : k \in 1 .. Len(K)
    BY <1>1
  <2>2. Reply(L, j) = Reply(K, j) /\ \A k \in j + 1 .. i : L[k] = K[k]
    BY <1>1, <1>2, <2>1
  <2>3. Gone(K, j, i, h) => Gone(L, j, i, h)
    BY <2>2 DEF Gone
  <2>4. QED
    BY <1>3, <2>2, <2>3 DEF Before
<1>4. ASSUME InOrder(s, K, h)
      PROVE  InOrder(s, L, h)
  <2>1. SUFFICES ASSUME NEW n \in 1 .. Len(s), s[n].part # "error"
                 PROVE  /\ s[n].id \in 1 .. Len(L)
                        /\ ~Among(s[n], s, n - 1)
                        /\ \A m \in 1 .. n - 1 : s[m].id <= s[n].id
                        /\ s[n].part = "body" =>
                             Among([id |-> s[n].id, part |-> "head"], s, n - 1)
                        /\ \A j \in 1 .. s[n].id - 1 :
                             Before(s, n - 1, L, j, s[n].id, h)
    BY DEF InOrder
  <2>2. /\ s[n].id \in 1 .. Len(K)
        /\ ~Among(s[n], s, n - 1)
        /\ \A m \in 1 .. n - 1 : s[m].id <= s[n].id
        /\ s[n].part = "body" =>
             Among([id |-> s[n].id, part |-> "head"], s, n - 1)
        /\ \A j \in 1 .. s[n].id - 1 : Before(s, n - 1, K, j, s[n].id, h)
    BY <1>4, <2>1 DEF InOrder
  <2>3. /\ s[n].id \in 1 .. Len(L) /\ s[n].id \in 0 .. Len(K)
        /\ \A j \in 1 .. s[n].id - 1 : j \in 1 .. s[n].id
    BY <1>1, <2>2
  <2>4. \A j \in 1 .. s[n].id - 1 : Before(s, n - 1, L, j, s[n].id, h)
    BY <1>3, <2>2, <2>3
  <2>5. QED
    BY <2>2, <2>3, <2>4
<1>5. ASSUME NEW m \in 0 .. Len(K), Done(s, K, m, h)
      PROVE  Done(s, L, m, h)
  <2>1. \A j \in 1 .. m : j \in 1 .. Len(K)
    BY <1>1
  <2>2. From(s, K, m) /\ \A j \in 1 .. m : Before(s, Len(s), K, j, m, h)
    BY <1>5 DEF Done
  <2>3. From(s, L, m)
    BY <1>2, <2>1, <2>2 DEF From
  <2>4. \A j \in 1 .. m : Before(s, Len(s), L, j, m, h)
    BY <1>3, <2>2
  <2>5. QED
    BY <2>3, <2>4 DEF Done
<1>6. QED
  BY <1>2, <1>4, <1>5 DEF L

\* What is true of the members of a sequence in order when more follow.
LEMMA AmongMore ==
  ASSUME NEW s \in Seq(Chunk), NEW t \in Seq(Chunk)
  PROVE  /\ s \o t \in Seq(Chunk) /\ Len(s \o t) = Len(s) + Len(t)
         /\ Len(s) \in Nat /\ Len(t) \in Nat
         /\ \A n \in 1 .. Len(s) : (s \o t)[n] = s[n]
         /\ \A n \in 1 .. Len(t) : (s \o t)[Len(s) + n] = t[n]
         /\ \A n \in 0 .. Len(s) : \A x : Among(x, s \o t, n) <=> Among(x, s, n)
         /\ \A n \in 0 .. Len(t) : \A x :
              Among(x, s \o t, Len(s) + n) <=> Among(x, s, Len(s)) \/ Among(x, t, n)
<1> DEFINE u == s \o t
<1>1. u \in Seq(Chunk)
  OBVIOUS
<1>2. Len(u) = Len(s) + Len(t) /\ Len(s) \in Nat /\ Len(t) \in Nat
  OBVIOUS
<1>3. \A n \in 1 .. Len(s) : u[n] = s[n]
  OBVIOUS
<1>4. \A n \in 1 .. Len(t) : u[Len(s) + n] = t[n]
  OBVIOUS
<1> HIDE DEF u
<1>5. ASSUME NEW n \in 0 .. Len(s), NEW x
      PROVE  Among(x, u, n) <=> Among(x, s, n)
  <2>1. \A m \in 1 .. n : m \in 1 .. Len(s)
    BY <1>2
  <2>2. QED
    BY <1>3, <2>1 DEF Among
<1>6. ASSUME NEW n \in 0 .. Len(t), NEW x
      PROVE  Among(x, u, Len(s) + n) <=> Among(x, s, Len(s)) \/ Among(x, t, n)
  <2>1. ASSUME NEW m \in 1 .. Len(s) + n, u[m] = x
        PROVE  Among(x, s, Len(s)) \/ Among(x, t, n)
    <3>1. CASE m \in 1 .. Len(s)
      BY <1>3, <2>1, <3>1 DEF Among
    <3>2. CASE m \notin 1 .. Len(s)
      <4>1. /\ m - Len(s) \in 1 .. n /\ m - Len(s) \in 1 .. Len(t)
            /\ Len(s) + (m - Len(s)) = m
        BY <1>2, <3>2
      <4>2. u[Len(s) + (m - Len(s))] = t[m - Len(s)]
        BY <1>4, <4>1, Zenon
      <4>3. t[m - Len(s)] = x
        BY <2>1, <4>1, <4>2
      <4>4. QED
        BY <4>1, <4>3 DEF Among
    <3>3. QED
      BY <3>1, <3>2
  <2>2. ASSUME NEW m \in 1 .. Len(s), s[m] = x
        PROVE  Among(x, u, Len(s) + n)
    <3>1. m \in 1 .. Len(s) + n
      BY <1>2
    <3>2. QED
      BY <1>3, <2>2, <3>1 DEF Among
  <2>3. ASSUME NEW m \in 1 .. n, t[m] = x
        PROVE  Among(x, u, Len(s) + n)
    <3>1. Len(s) + m \in 1 .. Len(s) + n /\ m \in 1 .. Len(t)
      BY <1>2
    <3>2. u[Len(s) + m] = x
      BY <1>4, <2>3, <3>1
    <3>3. QED
      BY <3>1, <3>2 DEF Among
  <2>4. QED
    BY <2>1, <2>2, <2>3 DEF Among
<1>7. QED
  BY <1>1, <1>2, <1>3, <1>4, <1>5, <1>6 DEF u

\* What was put on the wire is in order if it is together with what is left,
LEMMA OrderBefore ==
  ASSUME NEW K, NEW h, NEW s \in Seq(Chunk), NEW t \in Seq(Chunk),
         InOrder(s \o t, K, h)
  PROVE  InOrder(s, K, h)
<1> DEFINE u == s \o t
<1>1. /\ Len(u) = Len(s) + Len(t) /\ Len(s) \in Nat /\ Len(t) \in Nat
      /\ \A n \in 1 .. Len(s) : u[n] = s[n]
      /\ \A n \in 0 .. Len(s) : \A x : Among(x, u, n) <=> Among(x, s, n)
  BY AmongMore
<1>2. InOrder(u, K, h)
  OBVIOUS
<1> HIDE DEF u
<1>3. SUFFICES ASSUME NEW n \in 1 .. Len(s), s[n].part # "error"
               PROVE  /\ s[n].id \in 1 .. Len(K)
                      /\ ~Among(s[n], s, n - 1)
                      /\ \A m \in 1 .. n - 1 : s[m].id <= s[n].id
                      /\ s[n].part = "body" =>
                           Among([id |-> s[n].id, part |-> "head"], s, n - 1)
                      /\ \A j \in 1 .. s[n].id - 1 :
                           Before(s, n - 1, K, j, s[n].id, h)
  BY DEF InOrder
<1>4. /\ n \in 1 .. Len(u) /\ n - 1 \in 0 .. Len(s) /\ u[n] = s[n]
      /\ \A m \in 1 .. n - 1 : m \in 1 .. Len(s) /\ u[m] = s[m]
  BY <1>1
<1>5. /\ u[n].id \in 1 .. Len(K)
      /\ ~Among(u[n], u, n - 1)
      /\ \A m \in 1 .. n - 1 : u[m].id <= u[n].id
      /\ u[n].part = "body" => Among([id |-> u[n].id, part |-> "head"], u, n - 1)
      /\ \A j \in 1 .. u[n].id - 1 : Before(u, n - 1, K, j, u[n].id, h)
  BY <1>2, <1>3, <1>4 DEF InOrder
<1>6. \A x : Among(x, u, n - 1) <=> Among(x, s, n - 1)
  BY <1>1, <1>4
<1>7. \A j : Before(u, n - 1, K, j, s[n].id, h) =>
              Before(s, n - 1, K, j, s[n].id, h)
  BY <1>6 DEF Before
<1>8. QED
  BY <1>4, <1>5, <1>6, <1>7

\* So they are with the error that ends them.
LEMMA ErrorOrder ==
  ASSUME NEW K, NEW h, NEW s \in Seq(Chunk), InOrder(s, K, h),
         NEW e \in Chunk, e.part = "error"
  PROVE  InOrder(s \o <<e>>, K, h)
<1> DEFINE t == <<e>>
           u == s \o t
<1>1. t \in Seq(Chunk) /\ Len(t) = 1 /\ t[1] = e
  OBVIOUS
<1> HIDE DEF t
<1>2. /\ Len(u) = Len(s) + Len(t) /\ Len(s) \in Nat
      /\ \A n \in 1 .. Len(s) : u[n] = s[n]
      /\ \A n \in 1 .. Len(t) : u[Len(s) + n] = t[n]
      /\ \A n \in 0 .. Len(s) : \A x : Among(x, u, n) <=> Among(x, s, n)
  BY <1>1, AmongMore
<1> HIDE DEF u
<1>3. SUFFICES ASSUME NEW n \in 1 .. Len(u), u[n].part # "error"
               PROVE  /\ u[n].id \in 1 .. Len(K)
                      /\ ~Among(u[n], u, n - 1)
                      /\ \A m \in 1 .. n - 1 : u[m].id <= u[n].id
                      /\ u[n].part = "body" =>
                           Among([id |-> u[n].id, part |-> "head"], u, n - 1)
                      /\ \A j \in 1 .. u[n].id - 1 :
                           Before(u, n - 1, K, j, u[n].id, h)
  BY DEF InOrder, u, t
<1>4. n \in 1 .. Len(s)
  <2>1. 1 \in 1 .. Len(t)
    BY <1>1
  <2>2. u[Len(s) + 1] = e
    BY <1>1, <1>2, <2>1
  <2>3. n # Len(s) + 1
    BY <1>3, <2>2
  <2>4. QED
    BY <1>1, <1>2, <2>3
<1>5. /\ n - 1 \in 0 .. Len(s) /\ u[n] = s[n]
      /\ \A m \in 1 .. n - 1 : m \in 1 .. Len(s) /\ u[m] = s[m]
  BY <1>2, <1>4
<1>6. \A x : Among(x, u, n - 1) <=> Among(x, s, n - 1)
  BY <1>2, <1>5
<1>7. /\ s[n].id \in 1 .. Len(K)
      /\ ~Among(s[n], s, n - 1)
      /\ \A m \in 1 .. n - 1 : s[m].id <= s[n].id
      /\ s[n].part = "body" => Among([id |-> s[n].id, part |-> "head"], s, n - 1)
      /\ \A j \in 1 .. s[n].id - 1 : Before(s, n - 1, K, j, s[n].id, h)
  BY <1>3, <1>4, <1>5 DEF InOrder
<1>8. \A j : Before(s, n - 1, K, j, s[n].id, h) =>
              Before(u, n - 1, K, j, s[n].id, h)
  BY <1>6 DEF Before
<1>9. QED
  BY <1>5, <1>6, <1>7, <1>8

\* And so they are with the answer that is due, behind all that the earlier
\* requests are to get.
LEMMA ReplyAppended ==
  ASSUME NEW K, NEW k \in 1 .. MaxRequests, k <= Len(K), Len(K) \in Nat,
         K[k] \in {"hello", "bare", "file", "head"},
         NEW h, NEW s \in Seq(Chunk), InOrder(s, K, h), From(s, K, k - 1),
         \A j \in 1 .. k - 1 : Before(s, Len(s), K, j, k, h)
  PROVE  InOrder(s \o Reply(K, k), K, h) /\ Done(s \o Reply(K, k), K, k, h)
<1> DEFINE r == Reply(K, k)
           u == s \o r
<1>1. Parts(r, k)
  <2>1. k \in 0 .. MaxRequests
    BY SessionAssumption
  <2>2. QED
    BY <2>1, ReplyShape
<1>2. k \in Nat /\ k - 1 \in Nat /\ k >= 1 /\ k \in 1 .. Len(K)
  BY SessionAssumption
<1>3. DOMAIN r = 1 .. Len(r) /\ r \in Seq(Chunk)
  <2>1. r \in Seq(Chunk)
    BY <1>1 DEF Parts
  <2> HIDE DEF r
  <2>2. QED
    BY <2>1
<1> HIDE DEF r
<1>4. /\ Len(u) = Len(s) + Len(r) /\ Len(s) \in Nat /\ Len(r) \in Nat
      /\ \A n \in 1 .. Len(s) : u[n] = s[n]
      /\ \A n \in 1 .. Len(r) : u[Len(s) + n] = r[n]
      /\ \A n \in 0 .. Len(s) : \A x : Among(x, u, n) <=> Among(x, s, n)
      /\ \A n \in 0 .. Len(r) : \A x :
           Among(x, u, Len(s) + n) <=> Among(x, s, Len(s)) \/ Among(x, r, n)
  BY <1>3, AmongMore
<1> HIDE DEF u
<1>5. \A n \in 1 .. Len(u) :
        n \in 1 .. Len(s) \/ \E c \in 1 .. Len(r) : n = Len(s) + c
  <2>1. SUFFICES ASSUME NEW n \in 1 .. Len(u), n \notin 1 .. Len(s)
                 PROVE  \E c \in 1 .. Len(r) : n = Len(s) + c
    OBVIOUS
  <2>2. n - Len(s) \in 1 .. Len(r) /\ n = Len(s) + (n - Len(s))
    BY <1>4, <2>1
  <2>3. QED
    BY <2>2
<1>6. /\ \A c \in 1 .. Len(r) : r[c].id = k /\ r[c].part # "error"
      /\ \A c \in 1 .. Len(r) : ~Among(r[c], r, c - 1)
      /\ \A c \in 1 .. Len(r) :
           r[c].part = "body" => Among([id |-> k, part |-> "head"], r, c - 1)
  BY <1>1 DEF Parts
<1>7. /\ \A n \in 1 .. Len(s) :
           /\ s[n].id \in 1 .. k - 1
           /\ \E c \in DOMAIN Reply(K, s[n].id) : s[n] = Reply(K, s[n].id)[c]
      /\ \A j \in 1 .. k - 1 :
           Before(s, Len(s), K, j, k, h)
  BY DEF From
<1>8. ASSUME NEW n \in 1 .. Len(u), u[n].part # "error"
      PROVE  /\ u[n].id \in 1 .. Len(K)
             /\ ~Among(u[n], u, n - 1)
             /\ \A m \in 1 .. n - 1 : u[m].id <= u[n].id
             /\ u[n].part = "body" =>
                  Among([id |-> u[n].id, part |-> "head"], u, n - 1)
             /\ \A j \in 1 .. u[n].id - 1 : Before(u, n - 1, K, j, u[n].id, h)
  <2>1. CASE n \in 1 .. Len(s)
    <3>1. /\ n - 1 \in 0 .. Len(s) /\ u[n] = s[n]
          /\ \A m \in 1 .. n - 1 : m \in 1 .. Len(s) /\ u[m] = s[m]
      BY <1>4, <2>1
    <3>2. \A x : Among(x, u, n - 1) <=> Among(x, s, n - 1)
      BY <1>4, <3>1
    <3>3. /\ s[n].id \in 1 .. Len(K)
          /\ ~Among(s[n], s, n - 1)
          /\ \A m \in 1 .. n - 1 : s[m].id <= s[n].id
          /\ s[n].part = "body" =>
               Among([id |-> s[n].id, part |-> "head"], s, n - 1)
          /\ \A j \in 1 .. s[n].id - 1 : Before(s, n - 1, K, j, s[n].id, h)
      BY <1>8, <2>1, <3>1 DEF InOrder
    <3>4. \A j : Before(s, n - 1, K, j, s[n].id, h)
                  => Before(u, n - 1, K, j, s[n].id, h)
      BY <3>2 DEF Before
    <3>5. QED
      BY <3>1, <3>2, <3>3, <3>4
  <2>2. ASSUME NEW c \in 1 .. Len(r), n = Len(s) + c
        PROVE  /\ u[n].id \in 1 .. Len(K)
               /\ ~Among(u[n], u, n - 1)
               /\ \A m \in 1 .. n - 1 : u[m].id <= u[n].id
               /\ u[n].part = "body" =>
                    Among([id |-> u[n].id, part |-> "head"], u, n - 1)
               /\ \A j \in 1 .. u[n].id - 1 : Before(u, n - 1, K, j, u[n].id, h)
    <3>1. c - 1 \in 0 .. Len(r) /\ n - 1 = Len(s) + (c - 1) /\ u[n] = r[c]
      BY <1>4, <2>2
    <3>2. \A x : Among(x, u, n - 1) <=> Among(x, s, Len(s)) \/ Among(x, r, c - 1)
      BY <1>4, <3>1
    <3>3. r[c].id = k
      BY <1>6
    <3>4. ~Among(r[c], s, Len(s))
      <4>1. \A m \in 1 .. Len(s) : s[m].id # k
        BY <1>2, <1>7
      <4>2. QED
        BY <3>3, <4>1 DEF Among
    <3>5. ~Among(u[n], u, n - 1)
      BY <1>6, <3>1, <3>2, <3>4
    <3>6. u[n].part = "body" =>
            Among([id |-> u[n].id, part |-> "head"], u, n - 1)
      BY <1>6, <3>1, <3>2, <3>3
    <3>7. \A j \in 1 .. k - 1 : Before(u, n - 1, K, j, k, h)
      BY <1>7, <3>2 DEF Before
    <3>8. ASSUME NEW m \in 1 .. n - 1
          PROVE  u[m].id <= k
      <4>1. m \in 1 .. Len(u)
        BY <1>4, <2>2
      <4>2. CASE m \in 1 .. Len(s)
        <5>1. u[m].id \in 1 .. k - 1
          BY <1>4, <1>7, <4>2
        <5>2. QED
          BY <1>2, <5>1
      <4>3. ASSUME NEW d \in 1 .. Len(r), m = Len(s) + d
            PROVE  u[m].id <= k
        <5>1. u[m].id = k
          BY <1>4, <1>6, <4>3
        <5>2. QED
          BY <1>2, <5>1
      <4>4. QED
        BY <1>5, <4>1, <4>2, <4>3
    <3>9. QED
      BY <1>2, <3>1, <3>3, <3>5, <3>6, <3>7, <3>8
  <2>3. QED
    BY <1>5, <2>1, <2>2
<1>9. InOrder(u, K, h)
  BY <1>8 DEF InOrder
<1>10. ASSUME NEW n \in 1 .. Len(u)
       PROVE  /\ u[n].id \in 1 .. k
              /\ \E c \in DOMAIN Reply(K, u[n].id) : u[n] = Reply(K, u[n].id)[c]
  <2>1. CASE n \in 1 .. Len(s)
    <3>1. u[n] = s[n]
      BY <1>4, <2>1
    <3>2. s[n].id \in 1 .. k
      BY <1>2, <1>7, <2>1
    <3>3. QED
      BY <1>7, <2>1, <3>1, <3>2
  <2>2. ASSUME NEW c \in 1 .. Len(r), n = Len(s) + c
        PROVE  /\ u[n].id \in 1 .. k
               /\ \E d \in DOMAIN Reply(K, u[n].id) : u[n] = Reply(K, u[n].id)[d]
    <3>1. u[n] = r[c] /\ r[c].id = k
      BY <1>4, <1>6, <2>2
    <3>2. r = Reply(K, u[n].id)
      BY <3>1 DEF r
    <3>3. u[n].id \in 1 .. k
      BY <1>2, <3>1
    <3>4. c \in DOMAIN Reply(K, u[n].id) /\ u[n] = Reply(K, u[n].id)[c]
      BY <1>3, <3>1, <3>2
    <3>5. QED
      BY <3>3, <3>4
  <2>3. QED
    BY <1>5, <2>1, <2>2
<1>11. ASSUME NEW j \in 1 .. k
       PROVE  Before(u, Len(u), K, j, k, h)
  <2>1. \A x : Among(x, u, Len(u)) <=> Among(x, s, Len(s)) \/ Among(x, r, Len(r))
    BY <1>4
  <2>2. CASE j \in 1 .. k - 1
    BY <1>7, <2>1, <2>2 DEF Before
  <2>3. CASE j = k
    <3>1. Reply(K, j) = r
      BY <2>3 DEF r
    <3>2. \A c \in DOMAIN r : Among(r[c], r, Len(r))
      BY <1>3 DEF Among
    <3>3. QED
      BY <2>1, <3>1, <3>2 DEF Before
  <2>4. QED
    BY <1>2, <2>2, <2>3
<1>12. Done(u, K, k, h)
  BY <1>10, <1>11 DEF Done, From
<1>13. QED
  BY <1>9, <1>12 DEF u, r

\* When all answers that were given are on the wire, none is left to be sent.
LEMMA NothingLeft ==
  ASSUME NEW K, NEW h, NEW m, NEW s \in Seq(Chunk), NEW t \in Seq(Chunk),
         InOrder(s \o t, K, h), Done(s \o t, K, m, h),
         \A n \in 1 .. Len(t) : t[n].part # "error",
         \A j \in 1 .. m :
           \A c \in DOMAIN Reply(K, j) : Among(Reply(K, j)[c], s, Len(s))
  PROVE  t = <<>>
<1> DEFINE u == s \o t
<1>1. /\ Len(u) = Len(s) + Len(t) /\ Len(s) \in Nat /\ Len(t) \in Nat
      /\ \A n \in 1 .. Len(t) : u[Len(s) + n] = t[n]
      /\ \A n \in 0 .. Len(s) : \A x : Among(x, u, n) <=> Among(x, s, n)
  BY AmongMore
<1>2. InOrder(u, K, h) /\ Done(u, K, m, h)
  OBVIOUS
<1> HIDE DEF u
<1>3. SUFFICES ASSUME 1 \in 1 .. Len(t)
               PROVE  FALSE
  BY <1>1
<1> DEFINE n == Len(s) + 1
<1>4. n \in 1 .. Len(u) /\ n - 1 = Len(s) /\ u[n] = t[1] /\ Len(s) \in 0 .. Len(s)
  BY <1>1, <1>3
<1> HIDE DEF n
<1>5. PICK c \in DOMAIN Reply(K, u[n].id) : u[n] = Reply(K, u[n].id)[c]
  BY <1>2, <1>4 DEF Done, From
<1>6. u[n].id \in 1 .. m
  BY <1>2, <1>4 DEF Done, From
<1>7. Among(u[n], s, Len(s))
  BY <1>5, <1>6
<1>8. u[n].part # "error"
  BY <1>3, <1>4
<1>9. ~Among(u[n], u, n - 1)
  BY <1>2, <1>4, <1>8 DEF InOrder
<1>10. QED
  BY <1>1, <1>4, <1>7, <1>9

\* What is left of a request whose "G" has been taken has no request line.
LEMMA LostFails ==
  ASSUME NEW str \in Seq(Token), NEW rest \in Seq(Token), Lost(str \o rest)
  PROVE  ~parseURI(str).success
<1>1. SUFFICES ASSUME parseURI(str).success
               PROVE  FALSE
  OBVIOUS
<1>2. PICK pos \in 0 .. Len(str) :
        /\ pos = 0 => \A i \in 1 .. Len(str) : str[i].c # "CR"
        /\ pos # 0 => /\ str[pos].c = "CR"
                      /\ \A i \in 1 .. pos - 1 : str[i].c # "CR"
        /\ parseURI(str).str = SubSeq(str, pos + 1, Len(str))
        /\ parseURI(str).success =>
             \E g \in 1 .. Len(str) - 1 :
               /\ pos # 0 => g + 1 < pos
               /\ str[g].c = "G" /\ str[g + 1].c = "line"
               /\ parseURI(str).id = str[g].id
        /\ \A g \in 1 .. Len(str) - 1 :
             /\ pos # 0 => g + 1 < pos
             /\ str[g].c = "G" /\ str[g + 1].c = "line"
             => parseURI(str).success
  BY UriShape, ZenonT(30)
<1>3. PICK g \in 1 .. Len(str) - 1 :
        (pos # 0 => g + 1 < pos) /\ str[g].c = "G" /\ str[g + 1].c = "line"
  BY <1>1, <1>2, ZenonT(30)
<1> DEFINE X == str \o rest
<1>4. Len(str) \in Nat /\ \A i \in 1 .. Len(str) : X[i] = str[i]
  OBVIOUS
<1>5. X[1].c # "G" /\ X[2].c = "CR"
  BY DEF Lost
<1> HIDE DEF X
<1>6. 1 \in 1 .. Len(str) /\ 2 \in 1 .. Len(str)
  BY <1>3, <1>4
<1>7. str[1].c # "G" /\ str[2].c = "CR"
  BY <1>4, <1>5, <1>6
<1>8. pos # 0
  BY <1>2, <1>6, <1>7
<1>9. ~(2 \in 1 .. pos - 1)
  BY <1>2, <1>7, <1>8
<1>10. QED
  BY <1>3, <1>4, <1>6, <1>8, <1>9

\* A client that does not both send ahead and come in pieces.
Orderly == ~({"pipelines", "splits"} \subseteq habits)

\* That is what AnswersInOrder says of what is on the wire.
LEMMA OrderOnWire ==
  ASSUME TypeOK, InOrder(wire, kind, habits)
  PROVE  AnswersInOrder
<1>1. DOMAIN wire = 1 .. Len(wire) /\ Len(wire) \in Nat
  BY DEF TypeOK
<1>2. \A j : Answer(j) = Reply(kind, j)
  BY DEF Answer, Reply
<1>3. SUFFICES ASSUME NEW n \in 1 .. Len(wire), wire[n].part # "error"
               PROVE  LET i == wire[n].id
                          earlier == {wire[m] : m \in 1 .. n - 1}
                      IN
                      /\ wire[n] \notin earlier
                      /\ \A c \in earlier : c.id <= i
                      /\ wire[n].part = "body" =>
                           [id |-> i, part |-> "head"] \in earlier
                      /\ \A j \in 1 .. i - 1 :
                           \/ MayBeGone(j, i)
                           \/ \A c \in DOMAIN Answer(j) : Answer(j)[c] \in earlier
  BY <1>1 DEF AnswersInOrder
<1> DEFINE earlier == {wire[m] : m \in 1 .. n - 1}
<1>4. \A x : x \in earlier <=> Among(x, wire, n - 1)
  BY DEF Among
<1>5. /\ ~Among(wire[n], wire, n - 1)
      /\ \A m \in 1 .. n - 1 : wire[m].id <= wire[n].id
      /\ wire[n].part = "body" =>
           Among([id |-> wire[n].id, part |-> "head"], wire, n - 1)
      /\ \A j \in 1 .. wire[n].id - 1 :
           Before(wire, n - 1, kind, j, wire[n].id, habits)
  BY <1>3 DEF InOrder
<1>6. \A c \in earlier : c.id <= wire[n].id
  BY <1>5
<1>7. \A j : Gone(kind, j, wire[n].id, habits) => MayBeGone(j, wire[n].id)
  BY DEF Gone, MayBeGone, AheadAndCut
<1> HIDE DEF earlier
<1>8. /\ wire[n] \notin earlier
      /\ wire[n].part = "body" => [id |-> wire[n].id, part |-> "head"] \in earlier
  BY <1>4, <1>5
<1>9. \A j \in 1 .. wire[n].id - 1 :
        \/ MayBeGone(j, wire[n].id)
        \/ \A c \in DOMAIN Answer(j) : Answer(j)[c] \in earlier
  BY <1>2, <1>4, <1>5, <1>7 DEF Before
<1>10. QED
  BY <1>6, <1>8, <1>9 DEF earlier

-----------------------------------------------------------------------------
(* The inductive invariant of the output.                                  *)

\* All that has been answered, sent or not.
Stream == wire \o outBuffer_

\* The answers are in order, and those to the requests before the one whose
\* turn it is are there, or gone.
OrderInv ==
  /\ InOrder(wire, kind, habits)
  /\ ~error_ =>
       /\ InOrder(Stream, kind, habits)
       /\ \E k \in 1 .. Len(kind) + 1 :
            Turn(k) /\ Done(Stream, kind, k - 1, habits)

\* A client that waits for each answer has got them all before the last one.
WaitInv ==
  "pipelines" \notin habits =>
    \A j \in 1 .. Len(kind) - 1 :
      \A c \in DOMAIN Reply(kind, j) : Among(Reply(kind, j)[c], wire, Len(wire))

\* Output is left only where no other answer is given before it is sent: a
\* request line is looked for then only in text that has none.  And the
\* connection waits to write only when there is something to be written.
OutputKnown ==
  /\ outBuffer_ # <<>> =>
       /\ state_ \in {"uri", "finish"}
       /\ state_ = "uri" /\ pc \in {"read", "process"} =>
            Lost(Pending) \/ "pipelines" \notin habits
  /\ pc \in {"read", "process"} /\ "out" \in events_ => outBuffer_ # <<>>
  /\ pc = "flush" /\ connectionState_ = "H_CONNECTED" => "out" \notin events_
  /\ ~broken /\ pc = "conn" /\ connectionState_ = "H_CONNECTED"
     /\ "out" \in events_ => outBuffer_ # <<>>
  /\ pc \notin {"closed", "expired"} => connectionState_ # "H_DISCONNECTED"
  /\ ~broken /\ pc = "idle" /\ outBuffer_ = <<>> => "in" \in interest
  /\ state_ = "finish" => kind[parsed] \notin Posts

OutInv == Orderly /\ ~error_ => OutputKnown

\* A new connection.
LEMMA InitOutput == Init => OrderInv /\ WaitInv /\ OutInv
<1> SUFFICES ASSUME Init
             PROVE  OrderInv /\ WaitInv /\ OutInv
  OBVIOUS
<1>1. /\ kind = <<>> /\ wire = <<>> /\ outBuffer_ = <<>> /\ ~error_
      /\ state_ = "uri" /\ pc = "idle" /\ connectionState_ = "H_CONNECTED"
      /\ interest = {"in", "oneshot"}
  BY DEF Init
<1>2. /\ Len(kind) = 0 /\ Stream = <<>> /\ \A n \in 1 .. Len(wire) : FALSE
      /\ \A n \in 1 .. Len(Stream) : FALSE
  BY <1>1 DEF Stream
<1>3. InOrder(wire, kind, habits) /\ InOrder(Stream, kind, habits)
  BY <1>2 DEF InOrder
<1>4. PICK k \in 1 .. Len(kind) + 1 : Turn(k)
  BY <1>1, InitHeads DEF HeadsInv
<1>5. \A j \in 1 .. k - 1 : FALSE
  BY <1>2
<1>6. Done(Stream, kind, k - 1, habits)
  BY <1>2, <1>5 DEF Done, From
<1>7. WaitInv
  <2>1. \A j \in 1 .. Len(kind) - 1 : FALSE
    BY <1>2
  <2>2. QED
    BY <2>1 DEF WaitInv
<1>8. OutInv
  BY <1>1 DEF OutInv, OutputKnown
<1>9. QED
  BY <1>3, <1>4, <1>6, <1>7, <1>8 DEF OrderInv

\* Only the client adds requests, and it stays the client it is.
LEMMA AskedStep ==
  ASSUME Next
  PROVE  UNCHANGED habits /\ (UNCHANGED kind \/ \E kk \in Kinds : ClientSends(kk))
<1>1. Client => /\ UNCHANGED habits
                /\ UNCHANGED kind \/ \E kk \in Kinds : ClientSends(kk)
  BY DEF Client, ClientSends, ClientSendsRest, ClientFinishes, ClientResets,
         ClientReads, client
<1>2. HandleEvents \/ Expire => UNCHANGED <<habits, kind>>
  BY DEF HandleEvents, Dispatch, IgnoreFailure, Read, ReadFails, ParseURI,
         ParseHeaders, RefuseBody, ReceiveBody, AnalysisRequest, FlushNothing,
         FlushWaiting, FlushAnswer, HandleWrite, SendFails, KeepConn, LeaveConn,
         DropConn, Expire, client
<1>3. QED
  BY <1>1, <1>2 DEF Next

\* What has been written stays, and more is put behind it: of what was in
\* outBuffer_, all of which stays to be sent or is.
LEMMA SentOn ==
  ASSUME TypeOK, SendStep
  PROVE  /\ \E t \in Seq(Chunk) : wire' = wire \o t
         /\ outBuffer_' \in Seq(Chunk) /\ wire' \in Seq(Chunk)
         /\ Stream' = Stream
         /\ outBuffer_ = <<>> => outBuffer_' = <<>>
<1>1. /\ wire \in Seq(Chunk) /\ outBuffer_ \in Seq(Chunk) /\ room \in 0 .. Room
  BY DEF TypeOK
<1>2. PICK asked \in {{}, {"in"}} : SendOutput(asked)
  BY DEF SendStep
<1>3. /\ outBuffer_' \in Seq(Chunk) /\ wire' \in Seq(Chunk)
      /\ \E n \in 0 .. Len(outBuffer_) :
           /\ wire' = wire \o SubSeq(outBuffer_, 1, n)
           /\ outBuffer_' = SubSeq(outBuffer_, n + 1, Len(outBuffer_))
  BY <1>1, <1>2, SendEffect
<1>4. PICK n \in 0 .. Len(outBuffer_) :
        /\ wire' = wire \o SubSeq(outBuffer_, 1, n)
        /\ outBuffer_' = SubSeq(outBuffer_, n + 1, Len(outBuffer_))
  BY <1>3
<1> DEFINE a == SubSeq(outBuffer_, 1, n)
           b == SubSeq(outBuffer_, n + 1, Len(outBuffer_))
<1>5. a \in Seq(Chunk) /\ b \in Seq(Chunk)
  BY <1>1
<1>6. a \o b = outBuffer_
  BY <1>1, CutJoined
<1>7. outBuffer_ = <<>> => b = <<>>
  BY <1>1
<1>8. wire' = wire \o a /\ outBuffer_' = b
  BY <1>4
<1> HIDE DEF a, b
<1>9. (wire \o a) \o b = wire \o (a \o b)
  BY <1>1, <1>5, Grouped, Zenon
<1>10. Stream' = Stream
  BY <1>6, <1>8, <1>9 DEF Stream
<1>11. QED
  BY <1>3, <1>5, <1>7, <1>8, <1>10

\* So on every step.
LEMMA WireGrows ==
  ASSUME TypeOK, ReadInv, ErrorInv, Next
  PROVE  \E t \in Seq(Chunk) : wire' = wire \o t
<1>1. wire \in Seq(Chunk) /\ <<>> \in Seq(Chunk)
  BY DEF TypeOK
<1>2. wire \o <<>> = wire
  BY <1>1
<1>3. QuietStep \/ GiveUpStep \/ AnswerStep => wire' = wire
  BY DEF QuietStep, GiveUpStep, AnswerStep
<1>4. ASSUME FailStep
      PROVE  \E t \in Seq(Chunk) : wire' = wire \o t
  <2>1. PICK i \in 0 .. MaxRequests : HandleError(i)
    BY <1>4 DEF FailStep
  <2> DEFINE c == [id |-> i, part |-> "error"]
  <2>2. room \in 0 .. Room
    BY DEF TypeOK
  <2>3. wire' = wire \/ wire' = wire \o <<c>>
    BY <1>1, <2>1, <2>2, ErrorEffect
  <2>4. c \in Chunk
    BY DEF Chunk
  <2> HIDE DEF c
  <2>5. <<c>> \in Seq(Chunk)
    BY <2>4
  <2>6. QED
    BY <1>1, <1>2, <2>3, <2>5
<1>5. SendStep => \E t \in Seq(Chunk) : wire' = wire \o t
  BY SentOn
<1>6. QED
  BY <1>1, <1>2, <1>3, <1>4, <1>5, StepKinds

\* A client that waits goes on when it has got the answer.
LEMMA WaitStep ==
  ASSUME TypeOK, ReadInv, ErrorInv, WaitInv, Next
  PROVE  WaitInv'
<1>1. /\ wire \in Seq(Chunk) /\ kind \in Seq(AllKinds) /\ Len(kind) \in Nat
      /\ DOMAIN wire = 1 .. Len(wire)
  BY HeadsTypes DEF TypeOK
<1>2. PICK t \in Seq(Chunk) : wire' = wire \o t
  BY WireGrows
<1>3. \A x : Among(x, wire, Len(wire)) => Among(x, wire', Len(wire'))
  <2>1. /\ Len(wire \o t) = Len(wire) + Len(t)
        /\ Len(wire) \in Nat /\ Len(t) \in Nat
        /\ \A n \in 1 .. Len(wire) : (wire \o t)[n] = wire[n]
    BY <1>1, AmongMore
  <2>2. \A n \in 1 .. Len(wire) : n \in 1 .. Len(wire \o t)
    BY <2>1
  <2>3. QED
    BY <1>2, <2>1, <2>2 DEF Among
<1>4. UNCHANGED habits /\ (UNCHANGED kind \/ \E kk \in Kinds : ClientSends(kk))
  BY AskedStep
<1>5. SUFFICES ASSUME "pipelines" \notin habits
               PROVE  WaitInv'
  BY <1>4 DEF WaitInv
<1>6. \A j \in 1 .. Len(kind) - 1 :
        \A c \in DOMAIN Reply(kind, j) : Among(Reply(kind, j)[c], wire, Len(wire))
  BY <1>5 DEF WaitInv
<1>7. CASE UNCHANGED kind
  BY <1>3, <1>4, <1>6, <1>7 DEF WaitInv
<1>8. ASSUME NEW kk \in Kinds, ClientSends(kk)
      PROVE  WaitInv'
  <2>1. kk \in AllKinds /\ kind' = Append(kind, kk) /\ UNCHANGED wire
    BY <1>8, SessionAssumption DEF ClientSends
  <2>2. \A j \in 1 .. Len(kind) : Reply(kind', j) = Reply(kind, j)
    <3>1. <<>> \in Seq(Chunk)
      OBVIOUS
    <3>2. \A j \in 1 .. Len(kind) : Reply(Append(kind, kk), j) = Reply(kind, j)
      BY <1>1, <2>1, <3>1, LaterOrder
    <3>3. QED
      BY <2>1, <3>2
  <2>3. kind # <<>> =>
          \A c \in DOMAIN Reply(kind, Len(kind)) :
            Among(Reply(kind, Len(kind))[c], wire, Len(wire))
    <3>1. kind # <<>> => Answered(Len(kind))
      BY <1>5, <1>8 DEF ClientSends
    <3>2. Answer(Len(kind)) = Reply(kind, Len(kind))
      BY DEF Answer, Reply
    <3>3. QED
      BY <1>1, <3>1, <3>2 DEF Answered, OnWire, Among
  <2>4. \A j \in 1 .. Len(kind) :
          \A c \in DOMAIN Reply(kind, j) : Among(Reply(kind, j)[c], wire, Len(wire))
    <3>1. \A j \in 1 .. Len(kind) :
            j \in 1 .. Len(kind) - 1 \/ (j = Len(kind) /\ kind # <<>>)
      BY <1>1
    <3>2. QED
      BY <1>6, <2>3, <3>1
  <2>5. Len(kind') - 1 = Len(kind)
    BY <1>1, <2>1
  <2>6. \A j \in 1 .. Len(kind') - 1 :
          \A c \in DOMAIN Reply(kind', j) :
            Among(Reply(kind', j)[c], wire', Len(wire'))
    BY <2>1, <2>2, <2>4, <2>5
  <2>7. QED
    BY <2>6 DEF WaitInv
<1>9. QED
  BY <1>4, <1>7, <1>8

\* A request line is found only when all output has been sent.
LEMMA NothingOverwritten ==
  ASSUME SessionInv, HeadsInv, OrderInv, WaitInv, OutInv, Orderly,
         ParseURI, ~error_'
  PROVE  outBuffer_ = <<>>
<1> DEFINE rest == rx \o unsent
<1>1. /\ kind \in Seq(AllKinds) /\ Len(kind) \in Nat /\ inBuffer_ \in Seq(Token)
      /\ rest \in Seq(Token) /\ Pending = inBuffer_ \o rest
      /\ wire \in Seq(Chunk) /\ outBuffer_ \in Seq(Chunk)
      /\ DOMAIN outBuffer_ = 1 .. Len(outBuffer_)
  BY HeadsTypes DEF SessionInv, TypeOK, Pending
<1>2. state_ = "uri" /\ pc = "process" /\ parseURI(inBuffer_).success
  BY DEF ParseURI, HandleError
<1>3. ~error_
  BY <1>2 DEF SessionInv, ErrorInv
<1>4. PICK k \in 1 .. Len(kind) + 1 : 
        Turn(k) /\ Done(Stream, kind, k - 1, habits)
  BY <1>3 DEF OrderInv
<1>5. InOrder(Stream, kind, habits)
  BY <1>3 DEF OrderInv
<1>6. Chain(inBuffer_ \o rest, kind) /\ Due(inBuffer_ \o rest, kind, k)
  BY <1>1, <1>2, <1>4 DEF Turn, HeadsInv, HeadsBase
<1> HIDE DEF rest
<1>7. k <= Len(kind)
  BY <1>1, <1>2, <1>6, UriTurn
<1>8. SUFFICES ASSUME outBuffer_ # <<>>
               PROVE  FALSE
  OBVIOUS
<1>9. Lost(inBuffer_ \o rest) \/ "pipelines" \notin habits
  BY <1>1, <1>2, <1>3, <1>8 DEF OutInv, OutputKnown
<1>10. ~Lost(inBuffer_ \o rest)
  BY <1>1, <1>2, LostFails
<1>11. \A j \in 1 .. k - 1 :
         \A c \in DOMAIN Reply(kind, j) : Among(Reply(kind, j)[c], wire, Len(wire))
  <2>1. \A j \in 1 .. k - 1 : j \in 1 .. Len(kind) - 1
    BY <1>1, <1>7
  <2>2. QED
    BY <1>9, <1>10, <2>1 DEF WaitInv
<1>12. \A n \in 1 .. Len(outBuffer_) : outBuffer_[n].part # "error"
  BY <1>1 DEF SessionInv, ErrorInv
<1>13. /\ InOrder(wire \o outBuffer_, kind, habits)
       /\ Done(wire \o outBuffer_, kind, k - 1, habits)
  BY <1>4, <1>5 DEF Stream
<1>14. outBuffer_ = <<>>
  BY <1>1, <1>11, <1>12, <1>13, NothingLeft
<1>15. QED
  BY <1>8, <1>14

\* Where output is left.
LEMMA OutStep ==
  ASSUME SessionInv, HeadsInv, OrderInv, WaitInv, OutInv, Next
  PROVE  OutInv'
<1>1. /\ TypeOK /\ ReadInv /\ ErrorInv /\ EdgeInv /\ HeadsBase /\ PlaceInv
      /\ UNCHANGED habits /\ (error_ => error_') /\ (broken => broken')
  BY HeadsStep, AskedStep, BrokenStays
     DEF SessionInv, HeadsInv, HeadsBase, HeadsKept
<1>2. SUFFICES ASSUME Orderly, ~error_', ~error_, OutputKnown
               PROVE  OutputKnown'
  BY <1>1 DEF OutInv, Orderly
<1> USE DEF OutputKnown
<1>3. UNCHANGED <<inBuffer_, rx, unsent>> => Pending' = Pending
  BY DEF Pending
<1>4. ASSUME NEW kk \in Kinds, ClientSends(kk)
      PROVE  OutputKnown'
  <2>1. /\ UNCHANGED <<habits, broken, wire, interest, pc, outBuffer_, state_,
                       parsed, connectionState_, events_>>
    BY <1>4 DEF ClientSends, data, parse
  <2>2. Lost(Pending) => Lost(Pending')
    BY <1>1, <1>4, SendsMore
  <2>3. state_ = "finish" => kind'[parsed] = kind[parsed]
    <3>1. \A k \in 1 .. Len(kind) : kind'[k] = kind[k]
      BY <1>1, <1>4, SendsMore
    <3>2. state_ = "finish" => parsed \in 1 .. Len(kind)
      BY <1>1 DEF HeadsBase, KnownInv
    <3>3. QED
      BY <3>1, <3>2
  <2>4. QED
    BY <1>2, <2>1, <2>2, <2>3
<1>5. ASSUME ClientSendsRest \/ ClientFinishes \/ ClientResets \/ ClientReads
      PROVE  OutputKnown'
  <2>1. /\ UNCHANGED <<habits, kind, interest, pc, outBuffer_, state_, parsed,
                       connectionState_, events_>>
    BY <1>5 DEF ClientSendsRest, ClientFinishes, ClientResets, ClientReads,
                data, parse, client
  <2>2. Pending' = Pending
    <3>1. ClientFinishes \/ ClientResets \/ ClientReads =>
            UNCHANGED <<inBuffer_, rx, unsent>>
      BY DEF ClientFinishes, ClientResets, ClientReads, data, client
    <3>2. QED
      BY <1>1, <1>3, <1>5, <3>1, PassedPending
  <2>3. QED
    BY <1>1, <1>2, <2>1, <2>2
<1>6. ASSUME Dispatch
      PROVE  OutputKnown'
  <2>1. /\ pc = "idle" /\ ~broken /\ events_' = {}
        /\ UNCHANGED <<habits, kind, outBuffer_, state_, parsed,
                       connectionState_>>
        /\ ("in" \in interest /\ pc' = "read") \/ pc' = "write"
    BY <1>6 DEF Dispatch, client, parse
  <2>2. pc' = "read" => outBuffer_ = <<>>
    BY <1>1, <2>1 DEF EdgeInv, Reported, WaitsToWrite
  <2>3. QED
    BY <1>2, <2>1, <2>2
<1>7. ASSUME IgnoreFailure
      PROVE  OutputKnown'
  <2>1. /\ pc = "idle" /\ broken /\ events_' = {}
        /\ UNCHANGED <<habits, kind, pc, outBuffer_, state_, parsed,
                       connectionState_>>
    BY <1>7 DEF IgnoreFailure, client, parse
  <2>2. QED
    BY <1>1, <1>2, <2>1
<1>8. ASSUME Read
      PROVE  OutputKnown'
  <2>1. /\ pc = "read"
        /\ UNCHANGED <<habits, kind, outBuffer_, state_, parsed, events_>>
        /\ connectionState_' \in {"H_DISCONNECTING", connectionState_}
        /\ \/ pc' = "flush" /\ connectionState_' = "H_DISCONNECTING"
           \/ pc' = "process"
    BY <1>8 DEF Read, Late, client, parse
  <2>2. Pending' = Pending
    BY <1>1, <1>8, PassedPending
  <2>3. QED
    BY <1>2, <2>1, <2>2
<1>9. ~ReadFails /\ ~RefuseBody /\ ~FlushNothing /\ ~SendFails
  BY <1>2 DEF ReadFails, RefuseBody, HandleError, FlushNothing, SendFails
<1>10. ASSUME ParseURI
       PROVE  OutputKnown'
  <2>1. outBuffer_ = <<>>
    BY <1>2, <1>10, NothingOverwritten
  <2>2. /\ pc = "process" /\ pc' = "process" /\ state_' = "headers"
        /\ UNCHANGED <<outBuffer_, connectionState_, events_>>
    BY <1>2, <1>10 DEF ParseURI, HandleError
  <2>3. QED
    BY <1>2, <2>1, <2>2
<1>11. ASSUME ParseHeaders
       PROVE  OutputKnown'
  <2>1. /\ pc = "process" /\ pc' \in {"process", "flush"} /\ state_ = "headers"
        /\ state_' \in {"headers", "body", "analysis"}
        /\ UNCHANGED <<outBuffer_, connectionState_, events_>>
    BY <1>11 DEF ParseHeaders
  <2>2. QED
    BY <1>2, <2>1
<1>12. ASSUME ReceiveBody
       PROVE  OutputKnown'
  <2>1. /\ pc = "process" /\ pc' \in {"process", "flush"} /\ state_ = "body"
        /\ state_' \in {"body", "analysis"}
        /\ UNCHANGED <<outBuffer_, connectionState_, events_>>
    BY <1>12 DEF ReceiveBody
  <2>2. QED
    BY <1>2, <2>1
<1>13. ASSUME AnalysisRequest
       PROVE  OutputKnown'
  <2>1. /\ pc = "process" /\ pc' = "flush" /\ state_ = "analysis"
        /\ state_' = "finish" /\ kind[parsed] \notin Posts
        /\ UNCHANGED <<kind, parsed, connectionState_, events_>>
    BY <1>2, <1>13 DEF AnalysisRequest, AnswerPage, AnswerFile, AnswerMissing,
                       AnswerPost, HandleError, client, Posts
  <2>2. QED
    BY <1>2, <2>1
<1>14. ASSUME FlushWaiting \/ FlushAnswer \/ HandleWrite
       PROVE  OutputKnown'
  <2>1. PICK asked \in {{}, {"in"}} : SendOutput(asked)
    BY <1>14 DEF FlushWaiting, FlushAnswer, HandleWrite
  <2>2. events_' = events_ \cup asked
                     \cup (IF outBuffer_' # <<>> THEN {"out"} ELSE {})
    BY <2>1 DEF SendOutput
  <2>3. outBuffer_ = <<>> => outBuffer_' = <<>>
    <3>1. error_' = error_ /\ error_ \in BOOLEAN
      BY <1>1, <1>14 DEF FlushWaiting, FlushAnswer, HandleWrite, TypeOK
    <3>2. SendStep
      BY <1>2, <2>1, <3>1 DEF SendStep
    <3>3. QED
      BY <1>1, <3>2, SentOn
  <2>4. /\ UNCHANGED <<habits, kind, inBuffer_, rx, unsent, connectionState_>>
        /\ broken' = broken
        /\ \/ /\ pc = "flush" /\ pc' = "conn" /\ state_ # "finish"
              /\ UNCHANGED <<state_, parsed>>
           \/ /\ pc = "flush" /\ state_ = "finish" /\ state_' = "uri"
              /\ \/ pc' = "conn"
                 \/ /\ pc' = "read" /\ inBuffer_ # <<>>
                    /\ connectionState_ # "H_DISCONNECTING"
           \/ pc = "write" /\ pc' = "conn" /\ UNCHANGED <<state_, parsed>>
    BY <1>14 DEF FlushWaiting, FlushAnswer, HandleWrite, Reset, parse, client
  <2>5. connectionState_ \in {"H_CONNECTED", "H_DISCONNECTING", "H_DISCONNECTED"}
    BY <1>1 DEF TypeOK
  <2>6. \/ pc = "flush" /\ connectionState_ = "H_CONNECTED"
        \/ pc = "write" /\ ~broken
        => "out" \notin events_
    BY <1>1, <1>2 DEF EdgeInv
  <2>7. "out" \notin events_ /\ "out" \in events_' => outBuffer_' # <<>>
    BY <2>2
  <2>8. ASSUME pc' = "read"
        PROVE  Lost(Pending') \/ "pipelines" \notin habits'
    <3>1. state_ = "finish" /\ inBuffer_ # <<>> /\ UNCHANGED habits
      BY <2>4, <2>8
    <3>2. kind[parsed] \notin Posts
      BY <1>2, <3>1
    <3>3. Lost(Pending) \/ "splits" \in habits
      BY <1>1, <1>2, <3>1, <3>2 DEF HeadsBase, WholeInv
    <3>4. Pending' = Pending
      BY <1>3, <2>4
    <3>5. QED
      BY <1>2, <3>1, <3>3, <3>4 DEF Orderly
  <2>9. outBuffer_' # <<>> =>
           /\ state_' \in {"uri", "finish"}
           /\ state_' = "uri" /\ pc' \in {"read", "process"} =>
                Lost(Pending') \/ "pipelines" \notin habits'
    BY <1>2, <2>3, <2>4, <2>8
  <2>10. pc' \in {"read", "process"} /\ "out" \in events_' => outBuffer_' # <<>>
    BY <1>2, <2>4, <2>5, <2>6, <2>7
  <2>11. ~broken' /\ pc' = "conn" /\ connectionState_' = "H_CONNECTED"
         /\ "out" \in events_' => outBuffer_' # <<>>
    BY <2>4, <2>6, <2>7
  <2>12. pc' \notin {"closed", "expired"} => connectionState_' # "H_DISCONNECTED"
    BY <1>2, <2>4
  <2>13. state_' = "finish" => kind'[parsed'] \notin Posts
    BY <1>2, <2>4
  <2>14. pc' \notin {"flush", "idle"}
    BY <2>4
  <2>15. QED
    BY <2>9, <2>10, <2>11, <2>12, <2>13, <2>14
<1>15. ASSUME KeepConn
       PROVE  OutputKnown'
  <2>1. /\ pc = "conn" /\ connectionState_ = "H_CONNECTED" /\ pc' = "idle"
        /\ UNCHANGED <<kind, broken, outBuffer_, state_, parsed,
                       connectionState_>>
        /\ interest' = events_'
        /\ events_' = IF "out" \in events_ THEN {"out"} ELSE {"in"}
    BY <1>15 DEF KeepConn, client, socket, parse, epoll
  <2>2. QED
    BY <1>2, <2>1
<1>16. ASSUME LeaveConn \/ DropConn \/ Expire
       PROVE  OutputKnown'
  <2>1. /\ \/ pc = "conn" /\ pc' = "stranded" /\ UNCHANGED connectionState_
           \/ pc' \in {"closed", "expired"}
        /\ UNCHANGED <<kind, outBuffer_, state_, parsed>>
    BY <1>16 DEF LeaveConn, DropConn, Expire, client, parse
  <2>2. QED
    BY <1>2, <2>1
<1>17. QED
  BY <1>4, <1>5, <1>6, <1>7, <1>8, <1>9, <1>10, <1>11, <1>12, <1>13, <1>14,
     <1>15, <1>16 DEF Next, HandleEvents, Client

\* The order of the answers.
LEMMA OrderStep ==
  ASSUME SessionInv, HeadsInv, OrderInv, WaitInv, OutInv, Next
  PROVE  OrderInv'
<1>1. /\ TypeOK /\ ReadInv /\ ErrorInv /\ HeadsKept /\ HeadsBase
      /\ wire \in Seq(Chunk) /\ outBuffer_ \in Seq(Chunk)
      /\ Stream \in Seq(Chunk) /\ kind \in Seq(AllKinds) /\ Len(kind) \in Nat
  <2>1. TypeOK /\ ReadInv /\ ErrorInv /\ HeadsBase
    BY DEF SessionInv, HeadsInv
  <2>2. wire \in Seq(Chunk) /\ outBuffer_ \in Seq(Chunk)
    BY <2>1 DEF TypeOK
  <2>3. Stream \in Seq(Chunk)
    BY <2>2 DEF Stream
  <2>4. QED
    BY <2>1, <2>2, <2>3, HeadsTypes, HeadsStep
<1>2. UNCHANGED habits /\ (UNCHANGED kind \/ \E kk \in Kinds : ClientSends(kk))
  BY AskedStep
<1>3. habits' = habits
  BY <1>2
<1>4. /\ InOrder(wire, kind, habits)
      /\ ~error_ =>
           /\ InOrder(Stream, kind, habits)
           /\ \E k \in 1 .. Len(kind) + 1 :
                Turn(k) /\ Done(Stream, kind, k - 1, habits)
  BY DEF OrderInv
<1>5. \/ UNCHANGED kind
      \/ \E kk \in AllKinds :
           kind' = Append(kind, kk) /\ UNCHANGED <<wire, outBuffer_>>
  BY <1>2, SessionAssumption DEF ClientSends, data
<1>6. ASSUME NEW s \in Seq(Chunk)
      PROVE  /\ InOrder(s, kind, habits) => InOrder(s, kind', habits)
             /\ \A m \in 0 .. Len(kind) :
                  Done(s, kind, m, habits) => Done(s, kind', m, habits)
  <2>1. CASE UNCHANGED kind
    BY <2>1
  <2>2. ASSUME NEW kk \in AllKinds, kind' = Append(kind, kk)
        PROVE  /\ InOrder(s, kind, habits) => InOrder(s, kind', habits)
               /\ \A m \in 0 .. Len(kind) :
                    Done(s, kind, m, habits) => Done(s, kind', m, habits)
    BY <1>1, <2>2, LaterOrder
  <2>3. QED
    BY <1>5, <2>1, <2>2
<1>7. error_ => error_'
  BY <1>1 DEF HeadsKept
\* No answer is added: it stays the turn of the request it is the turn of.
<1>8. ASSUME ~(state_ = "analysis" /\ state_' = "finish"), ~error_',
             Stream' = Stream
      PROVE  /\ InOrder(Stream', kind', habits)
             /\ \E k \in 1 .. Len(kind') + 1 :
                  Turn(k)' /\ Done(Stream', kind', k - 1, habits)
  <2>1. InOrder(Stream, kind, habits)
    BY <1>4, <1>7, <1>8
  <2>2. PICK k \in 1 .. Len(kind) + 1 : 
          Turn(k) /\ Done(Stream, kind, k - 1, habits)
    BY <1>4, <1>7, <1>8
  <2>3. k \in 1 .. Len(kind') + 1 /\ Turn(k)'
    BY <1>1, <1>8, <2>2 DEF HeadsKept
  <2>4. k - 1 \in 0 .. Len(kind)
    BY <1>1
  <2>5. InOrder(Stream', kind', habits)
    BY <1>1, <1>6, <1>8, <2>1
  <2>6. Done(Stream', kind', k - 1, habits)
    BY <1>1, <1>6, <1>8, <2>2, <2>4
  <2>7. QED
    BY <2>3, <2>5, <2>6
<1>9. ~(state_ = "analysis" /\ state_' = "finish") \/ (AnalysisRequest /\ ~error_')
  BY <1>1 DEF ErrorInv, AnalysisRequest, AnswerPage, AnswerFile, AnswerMissing,
         AnswerPost, Next, HandleEvents, Client, ClientSends, ClientSendsRest,
         ClientFinishes, ClientResets, ClientReads, Dispatch, IgnoreFailure,
         Read, ReadFails, ParseURI, ParseHeaders, RefuseBody, ReceiveBody,
         FlushNothing, FlushWaiting, FlushAnswer, Reset, HandleWrite, SendFails,
         KeepConn, LeaveConn, DropConn, Expire, HandleError, data, parse
<1>10. CASE UNCHANGED <<wire, outBuffer_>>
            /\ ~(state_ = "analysis" /\ state_' = "finish")
  <2>1. InOrder(wire', kind', habits)
    BY <1>1, <1>4, <1>6, <1>10
  <2>2. Stream' = Stream
    BY <1>10 DEF Stream
  <2>3. QED
    BY <1>3, <1>8, <1>10, <2>1, <2>2 DEF OrderInv
<1>11. CASE UNCHANGED wire /\ error_'
  <2>1. InOrder(wire', kind', habits)
    BY <1>1, <1>4, <1>6, <1>11
  <2>2. QED
    BY <1>3, <1>11, <2>1 DEF OrderInv
<1>12. CASE FailStep
  <2>1. PICK i \in 0 .. MaxRequests : HandleError(i)
    BY <1>12 DEF FailStep
  <2> DEFINE c == [id |-> i, part |-> "error"]
  <2>2. c \in Chunk /\ c.part = "error"
    BY DEF Chunk
  <2>3. (wire' = wire \/ wire' = wire \o <<c>>) /\ error_' = TRUE
    <3>1. room \in 0 .. Room
      BY <1>1 DEF TypeOK
    <3>2. QED
      BY <1>1, <2>1, <3>1, ErrorEffect
  <2> HIDE DEF c
  <2>4. InOrder(wire \o <<c>>, kind, habits)
    BY <1>1, <1>4, <2>2, ErrorOrder
  <2>5. wire \o <<c>> \in Seq(Chunk)
    BY <1>1, <2>2
  <2>6. InOrder(wire, kind', habits) /\ InOrder(wire \o <<c>>, kind', habits)
    BY <1>1, <1>4, <1>6, <2>4, <2>5
  <2>7. QED
    BY <1>3, <2>3, <2>6 DEF OrderInv
<1>13. CASE SendStep /\ ~(state_ = "analysis" /\ state_' = "finish")
  <2>1. wire' \in Seq(Chunk) /\ outBuffer_' \in Seq(Chunk) /\ Stream' = Stream
        /\ ~error_'
    BY <1>1, <1>13, SentOn DEF SendStep
  <2>3. InOrder(Stream', kind', habits)
    BY <1>8, <1>13, <2>1
  <2>4. InOrder(wire' \o outBuffer_', kind', habits)
    BY <2>3 DEF Stream
  <2>5. InOrder(wire', kind', habits)
    BY <2>1, <2>4, OrderBefore
  <2>6. QED
    BY <1>3, <1>8, <1>13, <2>1, <2>5 DEF OrderInv
<1>14. CASE AnalysisRequest /\ ~error_'
  <2> DEFINE r == Reply(kind, parsed)
  <2>1. /\ state_ = "analysis" /\ state_' = "finish" /\ ~error_
        /\ kind[parsed] \in {"hello", "bare", "file", "head"}
        /\ \/ kind[parsed] \in {"hello", "bare"} /\ outBuffer_' = Answer(parsed)
           \/ outBuffer_' = outBuffer_ \o Answer(parsed)
        /\ UNCHANGED <<wire, kind>>
    BY <1>7, <1>14 DEF AnalysisRequest, AnswerPage, AnswerFile, AnswerMissing,
                       AnswerPost, HandleError, client
  <2>2. outBuffer_ = <<>> \/ ~Orderly
    BY <2>1 DEF OutInv, OutputKnown
  <2>3. PICK k \in 1 .. Len(kind) + 1 :
          Turn(k) /\ Done(Stream, kind, k - 1, habits)
    BY <1>4, <2>1
  <2>4. parsed = k /\ k <= Len(kind)
    BY <2>1, <2>3 DEF Turn
  <2>5. k \in 1 .. MaxRequests
    BY <1>1, <2>4, SessionAssumption DEF HeadsBase
  <2>6. r \in Seq(Chunk) /\ Answer(parsed) = r
    <3>1. Answer(parsed) = r
      BY DEF Answer, Reply
    <3>2. k \in 0 .. MaxRequests
      BY <2>5
    <3>3. Parts(r, k)
      BY <2>1, <2>4, <3>2, ReplyShape
    <3>4. QED
      BY <3>1, <3>3 DEF Parts
  \* Behind the answers before it there is all of them, or the clients are not
  \* orderly and this page takes the place of what was left.
  <2>7. PICK before \in {wire, Stream} :
          /\ Stream' = before \o r
          /\ From(before, kind, k - 1)
          /\ \A j \in 1 .. k - 1 : Before(before, Len(before), kind, j, k, habits)
    <3>1. From(Stream, kind, k - 1)
      BY <2>3 DEF Done
    <3>2. \A j \in 1 .. k - 1 :
            Before(Stream, Len(Stream), kind, j, k, habits)
      <4>1. SUFFICES ASSUME NEW j \in 1 .. k - 1
                     PROVE  Before(Stream, Len(Stream), kind, j, k, habits)
        OBVIOUS
      <4>2. Before(Stream, Len(Stream), kind, j, k - 1, habits)
        BY <2>3 DEF Done
      <4>3. Gone(kind, j, k - 1, habits) => Gone(kind, j, k, habits)
        BY <2>4 DEF Gone
      <4>4. QED
        BY <4>2, <4>3 DEF Before
    <3>3. CASE outBuffer_' = outBuffer_ \o Answer(parsed)
      <4>1. Stream' = Stream \o r
        <5> HIDE DEF r
        <5>1. wire \o (outBuffer_ \o r) = (wire \o outBuffer_) \o r
          BY <1>1, <2>6, Grouped
        <5>2. outBuffer_' = outBuffer_ \o r
          BY <2>6, <3>3
        <5>3. QED
          BY <2>1, <5>1, <5>2 DEF Stream
      <4>2. QED
        BY <3>1, <3>2, <4>1
    <3>4. CASE outBuffer_' = Answer(parsed)
      <4>1. Stream' = wire \o r
        BY <2>1, <2>6, <3>4 DEF Stream
      <4>2. CASE outBuffer_ = <<>>
        <5>1. Stream = wire
          BY <1>1, <4>2 DEF Stream
        <5>2. QED
          BY <3>1, <3>2, <4>1, <5>1
      <4>3. CASE ~Orderly /\ kind[parsed] \in {"hello", "bare"}
        <5>1. \A j \in 1 .. k - 1 : Gone(kind, j, k, habits)
          <6>1. \A j \in 1 .. k - 1 : k \in j + 1 .. k
            BY <2>5
          <6>2. QED
            BY <2>4, <4>3, <6>1 DEF Gone, Orderly
        <5>2. \A j \in 1 .. k - 1 : Before(wire, Len(wire), kind, j, k, habits)
          BY <5>1 DEF Before
        <5>3. From(wire, kind, k - 1)
          <6>1. /\ Len(Stream) = Len(wire) + Len(outBuffer_)
                /\ Len(wire) \in Nat /\ Len(outBuffer_) \in Nat
                /\ \A n \in 1 .. Len(wire) : Stream[n] = wire[n]
            BY <1>1, AmongMore DEF Stream
          <6>2. \A n \in 1 .. Len(wire) : n \in 1 .. Len(Stream)
            BY <6>1
          <6>3. QED
            BY <3>1, <6>1, <6>2 DEF From
        <5>4. QED
          BY <4>1, <5>2, <5>3
      <4>4. CASE outBuffer_' = outBuffer_ \o Answer(parsed)
        BY <3>3, <4>4
      <4>5. QED
        BY <2>1, <2>2, <4>2, <4>3, <4>4
    <3>5. QED
      BY <2>1, <3>3, <3>4
  <2>8. InOrder(Stream', kind, habits) /\ Done(Stream', kind, k, habits)
    <3>1. InOrder(before, kind, habits) /\ before \in Seq(Chunk)
      BY <1>1, <1>4, <2>1, <2>7
    <3>2. r = Reply(kind, k) /\ kind[k] \in {"hello", "bare", "file", "head"}
      BY <2>1, <2>4
    <3> HIDE DEF r
    <3>3. /\ InOrder(before \o Reply(kind, k), kind, habits)
          /\ Done(before \o Reply(kind, k), kind, k, habits)
      BY <1>1, <2>4, <2>5, <2>7, <3>1, <3>2, ReplyAppended
    <3>4. QED
      BY <2>7, <3>2, <3>3
  <2>9. k + 1 \in 1 .. Len(kind') + 1 /\ Turn(k + 1)' /\ (k + 1) - 1 = k
    BY <1>1, <1>14, <2>1, <2>3 DEF HeadsKept
  <2>10. /\ InOrder(wire', kind', habits) /\ InOrder(Stream', kind', habits)
         /\ Done(Stream', kind', (k + 1) - 1, habits)
    BY <1>4, <2>1, <2>8, <2>9
  <2>11. QED
    BY <1>3, <2>9, <2>10 DEF OrderInv
<1>15. QuietStep => OrderInv'
  BY <1>9, <1>10, <1>14 DEF QuietStep
<1>16. GiveUpStep => OrderInv'
  BY <1>11 DEF GiveUpStep
<1>17. AnswerStep => OrderInv'
  BY <1>14 DEF AnswerStep
<1>18. SendStep => OrderInv'
  BY <1>9, <1>13, <1>14
<1>19. QED
  BY <1>1, <1>12, <1>15, <1>16, <1>17, <1>18, StepKinds

\* The invariant of the output holds.
LEMMA OutputInvariant == Spec => [](OrderInv /\ WaitInv /\ OutInv)
<1> DEFINE Inv == SessionInv /\ HeadsInv /\ OrderInv /\ WaitInv /\ OutInv
<1>1. Inv /\ [Next]_vars => OrderInv' /\ WaitInv' /\ OutInv'
  <2>1. SUFFICES ASSUME Inv, [Next]_vars
                 PROVE  OrderInv' /\ WaitInv' /\ OutInv'
    OBVIOUS
  <2>2. CASE Next
    <3>1. WaitInv'
      BY <2>1, <2>2, WaitStep DEF SessionInv
    <3>2. QED
      BY <2>1, <2>2, <3>1, OutStep, OrderStep
  <2>3. CASE UNCHANGED vars
    <3>1. UNCHANGED <<habits, kind, unsent, rx, broken, wire, interest, pc,
                      inBuffer_, outBuffer_, state_, hState_, headers_, error_,
                      connectionState_, parsed, events_>>
      BY <2>3 DEF vars, client, socket, epoll, data, parse
    <3>2. Pending' = Pending /\ Stream' = Stream
      BY <3>1 DEF Pending, Stream
    <3>3. \A k : Turn(k) => Turn(k)'
      BY <3>1, <3>2 DEF Turn
    <3>4. OrderInv'
      BY <2>1, <3>1, <3>2, <3>3 DEF OrderInv
    <3>5. WaitInv'
      BY <2>1, <3>1 DEF WaitInv
    <3>6. OutInv'
      BY <2>1, <3>1, <3>2 DEF OutInv, OutputKnown, Orderly
    <3>7. QED
      BY <3>4, <3>5, <3>6
  <2>4. QED
    BY <2>1, <2>2, <2>3
<1>2. QED
  BY InitOutput, SessionInvariant, HeadsInvariant, <1>1, PTL DEF Spec

\* What the client gets of the answers comes in the order of its requests, no
\* chunk twice, and none before the whole answers to all earlier requests
\* (analysisRequest, handleWrite), of every client, however it sends; only of
\* one that both sends ahead and is cut may what was left of earlier answers
\* have been overwritten by a later page (HttpData.cpp:504).
THEOREM AnswersComeInOrder == Spec => []AnswersInOrder
<1>1. TypeOK /\ OrderInv => AnswersInOrder
  BY OrderOnWire DEF OrderInv
<1>2. QED
  BY <1>1, SessionTypes, OutputInvariant, PTL

\* Whenever handleConn leaves a connection to epoll, what it still has to read
\* or to send is going to be reported; that it waits to write with nothing to
\* write happens only to a client that both sends ahead and is cut, and then it
\* is reported as soon as the socket takes output, and reads on.
THEOREM NoEdgeMissed == Spec => []NoMissedEdge
<1>1. SessionInv /\ OutInv => NoMissedEdge
  <2>1. SUFFICES ASSUME SessionInv, OutInv, pc = "idle", ~broken
                 PROVE  NoMissedEdge
    BY DEF NoMissedEdge
  <2>2. Reported \/ WaitsToWrite
    BY <2>1 DEF SessionInv, EdgeInv
  <2>3. ~error_
    BY <2>1 DEF SessionInv, ErrorInv
  <2>4. WaitsToWrite => AheadAndCut
    BY <2>1, <2>3 DEF OutInv, OutputKnown, WaitsToWrite, Orderly, AheadAndCut
  <2>5. QED
    BY <2>2, <2>4 DEF NoMissedEdge, Reported, WaitsToWrite
<1>2. QED
  BY <1>1, SessionInvariant, OutputInvariant, PTL

-----------------------------------------------------------------------------
(* Clients that are never refused.                                         *)

\* A client that waits for each answer and sends each request in one piece.
Polite == "pipelines" \notin habits /\ "splits" \notin habits

\* What is refused rightly: what is not there, and a POST.
Refusable == {"missing"} \cup Posts

RefusedInv ==
  \A n \in 1 .. Len(wire) : wire[n].part = "error" =>
    wire[n].id \in 1 .. Len(kind) /\ kind[wire[n].id] \in Refusable

\* Between two requests nothing is left of the first.
FreshInv ==
  ~error_ /\ (state_ \in {"uri", "finish"}
              \/ (state_ = "analysis" /\ kind[parsed] \notin Posts)) =>
    (Pending # <<>> => Pending[1].c = "G")

PoliteInv == Polite =>
  /\ \A j \in 1 .. Len(kind) - 1 : kind[j] \notin Posts
  /\ RefusedInv /\ FreshInv

\* An answer begins with a part of it, but for that to a POST.
LEMMA ReplyFirst ==
  ASSUME NEW K \in Seq(AllKinds), NEW j \in 1 .. Len(K), K[j] \notin Posts
  PROVE  1 \in DOMAIN Reply(K, j) /\ Reply(K, j)[1].id = j
<1>1. K[j] \in {"hello", "file", "head", "missing", "bare"}
  BY DEF AllKinds, Posts
<1> DEFINE Part(p) == [id |-> j, part |-> p]
<1>2. CASE K[j] \in {"hello", "bare"}
  <2>1. Reply(K, j) = <<Part("all")>>
    BY <1>2 DEF Reply
  <2>2. QED
    BY <2>1
<1>3. CASE K[j] = "file"
  <2>1. Reply(K, j) = <<Part("head"), Part("body")>>
    BY <1>3 DEF Reply
  <2>2. QED
    BY <2>1
<1>4. CASE K[j] = "head"
  <2>1. Reply(K, j) = <<Part("head")>>
    BY <1>4 DEF Reply
  <2>2. QED
    BY <2>1
<1>5. CASE K[j] = "missing"
  <2>1. Reply(K, j) = <<Part("error")>>
    BY <1>5 DEF Reply
  <2>2. QED
    BY <2>1
<1>6. QED
  BY <1>1, <1>2, <1>3, <1>4, <1>5

\* It is the turn of the last request, or all have been answered.
LEMMA LastTurn ==
  ASSUME TypeOK, WaitInv, Polite, PoliteInv,
         NEW k \in 1 .. Len(kind) + 1, Done(Stream, kind, k - 1, habits)
  PROVE  k >= Len(kind)
<1>1. /\ kind \in Seq(AllKinds) /\ Len(kind) \in Nat
      /\ wire \in Seq(Chunk) /\ outBuffer_ \in Seq(Chunk)
  BY HeadsTypes DEF TypeOK
<1>2. SUFFICES ASSUME ~(k >= Len(kind))
               PROVE  FALSE
  OBVIOUS
<1>3. k \in 1 .. Len(kind) - 1 /\ k \in 1 .. Len(kind)
  BY <1>1, <1>2
<1>4. kind[k] \notin Posts
  BY <1>3 DEF PoliteInv
<1>5. 1 \in DOMAIN Reply(kind, k) /\ Reply(kind, k)[1].id = k
  BY <1>1, <1>3, <1>4, ReplyFirst
<1>6. PICK m \in 1 .. Len(wire) : wire[m] = Reply(kind, k)[1]
  BY <1>3, <1>5 DEF WaitInv, Polite, Among
<1>7. m \in 1 .. Len(Stream) /\ Stream[m] = wire[m]
  BY <1>1 DEF Stream
<1>8. Stream[m].id \in 1 .. k - 1
  BY <1>7 DEF Done, From
<1>9. QED
  BY <1>5, <1>6, <1>7, <1>8

\* Nothing comes behind the last request.
LEMMA LoneRequest ==
  ASSUME NEW K \in Seq(AllKinds), NEW X \in Seq(Token), Chain(X, K), X # <<>>,
         X[1].id = Len(K)
  PROVE  \A g \in 2 .. Len(X) : X[g].c # "G"
<1>1. SUFFICES ASSUME NEW g \in 2 .. Len(X), X[g].c = "G"
               PROVE  FALSE
  OBVIOUS
<1>2. /\ Len(X) \in Nat /\ Len(K) \in Nat /\ 1 \in 1 .. Len(X)
      /\ g \in 1 .. Len(X) /\ g - 1 \in 1 .. Len(X) /\ 1 <= g - 1
  OBVIOUS
<1>3. X[g].id = X[g - 1].id + 1 /\ X[1].id <= X[g - 1].id
  BY <1>1, <1>2 DEF Chain, Numbered
<1>4. X[g].id \in 1 .. Len(K) /\ X[g - 1].id \in 1 .. Len(K)
  BY <1>2 DEF Chain, Numbered
<1>5. QED
  BY <1>2, <1>3, <1>4

\* The request line of a client that waits is found.
LEMMA PoliteLine ==
  ASSUME SessionInv, HeadsInv, OrderInv, WaitInv, PoliteInv, Polite,
         state_ = "uri", pc = "process"
  PROVE  parseURI(inBuffer_).success
<1> DEFINE n == Len(inBuffer_)
<1>1. /\ TypeOK /\ ~error_ /\ inBuffer_ # <<>>
  BY DEF SessionInv, ErrorInv, ReadInv
<1>2. /\ kind \in Seq(AllKinds) /\ Len(kind) \in Nat /\ inBuffer_ \in Seq(Token)
      /\ rx \in Seq(Token) /\ Pending \in Seq(Token)
  BY <1>1, HeadsTypes
<1>3. unsent = <<>> /\ (rx # <<>> => rx[1].c = "G") /\ Chain(Pending, kind)
  BY DEF HeadsInv, HeadsBase, WholeInv, Polite
<1>4. Pending = inBuffer_ \o rx
  <2>1. rx \o <<>> = rx
    BY <1>2
  <2>2. QED
    BY <1>3, <2>1 DEF Pending
<1>5. /\ n \in Nat \ {0} /\ Len(rx) \in Nat /\ Len(Pending) = n + Len(rx)
      /\ \A i \in 1 .. n : Pending[i] = inBuffer_[i]
      /\ \A i \in 1 .. Len(rx) : Pending[n + i] = rx[i]
      /\ Pending # <<>> /\ (rx # <<>> <=> Len(rx) # 0)
  BY <1>1, <1>2, <1>4
<1>6. PICK k \in 1 .. Len(kind) + 1 :
        Turn(k) /\ Done(Stream, kind, k - 1, habits)
  BY <1>1 DEF OrderInv
<1>7. k >= Len(kind)
  BY <1>1, <1>6, LastTurn
<1>8. Pending[1].c = "G"
  BY <1>1, <1>5 DEF PoliteInv, FreshInv
<1>9. Pending[1].id = Len(kind)
  <2>1. Due(Pending, kind, k)
    BY <1>6 DEF Turn
  <2>2. 1 \in 1 .. Len(Pending) /\ \A j \in 1 .. 1 - 1 : FALSE
    BY <1>5
  <2>3. Pending[1].id = k
    BY <1>8, <2>1, <2>2 DEF Due
  <2>4. Pending[1].id \in 1 .. Len(kind)
    BY <1>3, <2>2 DEF Chain, Numbered
  <2>5. QED
    BY <1>2, <1>7, <2>3, <2>4
<1>10. \A g \in 2 .. Len(Pending) : Pending[g].c # "G"
  BY <1>2, <1>3, <1>5, <1>9, LoneRequest
<1> HIDE DEF n
<1>11. Len(rx) = 0
  <2>1. SUFFICES ASSUME Len(rx) # 0
                 PROVE  FALSE
    OBVIOUS
  <2>2. 1 \in 1 .. Len(rx) /\ n + 1 \in 2 .. Len(Pending)
    BY <1>5, <2>1
  <2>3. Pending[n + 1].c = "G"
    BY <1>3, <1>5, <2>1, <2>2
  <2>4. QED
    BY <1>10, <2>2, <2>3
<1>12. /\ 1 + 3 \in 1 .. Len(Pending)
       /\ Pending[1 + 1].c = "line" /\ Pending[1 + 2].c = "CR"
  <2>1. 1 \in 1 .. Len(Pending)
    BY <1>5
  <2>2. QED
    BY <1>2, <1>3, <1>8, <2>1, RequestLine
<1>13. /\ 1 \in 1 .. n /\ 2 \in 1 .. n /\ 3 \in 1 .. n /\ 1 \in 1 .. n - 1
       /\ 1 + 1 = 2 /\ 1 + 2 = 3
  BY <1>5, <1>11, <1>12
<1>14. inBuffer_[1].c = "G" /\ inBuffer_[2].c = "line" /\ inBuffer_[3].c = "CR"
  BY <1>5, <1>8, <1>12, <1>13
<1>15. PICK pos \in 0 .. n :
         /\ pos = 0 => \A i \in 1 .. n : inBuffer_[i].c # "CR"
         /\ pos # 0 => /\ inBuffer_[pos].c = "CR"
                       /\ \A i \in 1 .. pos - 1 : inBuffer_[i].c # "CR"
         /\ \A g \in 1 .. n - 1 :
              /\ pos # 0 => g + 1 < pos
              /\ inBuffer_[g].c = "G" /\ inBuffer_[g + 1].c = "line"
              => parseURI(inBuffer_).success
  BY <1>2, UriShape DEF n
<1>16. pos # 0 /\ pos # 1 /\ pos # 2
  BY <1>13, <1>14, <1>15
<1>17. 1 + 1 < pos
  BY <1>15, <1>16
<1>18. QED
  BY <1>13, <1>14, <1>15, <1>17

\* Its head is read without an error, and nothing is left behind it.
LEMMA PoliteHead ==
  ASSUME SessionInv, HeadsInv, OrderInv, WaitInv, PoliteInv, Polite,
         state_ = "headers", pc = "process"
  PROVE  LET head == parseHeaders(inBuffer_, hState_, headers_) IN
         /\ head.flag # "error"
         /\ head.flag = "success" /\ kind[parsed] \notin Posts => head.str = <<>>
<1> DEFINE n == Len(inBuffer_)
           t == Text(parsed, kind[parsed])
<1>1. TypeOK /\ ~error_
  BY DEF SessionInv, ErrorInv
<1>2. /\ kind \in Seq(AllKinds) /\ Len(kind) \in Nat /\ inBuffer_ \in Seq(Token)
      /\ rx \in Seq(Token) /\ Pending \in Seq(Token)
  BY <1>1, HeadsTypes
<1>3. /\ unsent = <<>> /\ (rx # <<>> => rx[1].c = "G") /\ Chain(Pending, kind)
      /\ hState_ = "H_START" /\ headers_ = {}
      /\ WholeAt(Pending, 1, kind, parsed, 4) /\ Len(inBuffer_) >= Len(t) - 3
      /\ parsed \in 1 .. Len(kind) /\ Len(kind) <= MaxRequests
  BY <1>1 DEF HeadsInv, HeadsBase, WholeInv, KnownInv, Polite
<1>4. Pending = inBuffer_ \o rx
  <2>1. rx \o <<>> = rx
    BY <1>2
  <2>2. QED
    BY <1>3, <2>1 DEF Pending
<1>5. /\ n \in Nat /\ Len(rx) \in Nat /\ Len(Pending) = n + Len(rx)
      /\ \A i \in 1 .. n : Pending[i] = inBuffer_[i]
  BY <1>1, <1>2, <1>4
<1>6. PICK k \in 1 .. Len(kind) + 1 :
        Turn(k) /\ Done(Stream, kind, k - 1, habits)
  BY <1>1 DEF OrderInv
<1>7. k >= Len(kind)
  BY <1>1, <1>6, LastTurn
<1>8. parsed = Len(kind)
  <2>1. parsed = k /\ k <= Len(kind)
    BY <1>6 DEF Turn
  <2>2. QED
    BY <1>2, <1>7, <2>1
<1>9. /\ parsed \in 1 .. MaxRequests /\ parsed <= MaxRequests
      /\ kind[parsed] \in AllKinds
  BY <1>2, <1>3, SessionAssumption
<1>10. Spelled(t, parsed, kind[parsed])
  BY <1>9, TextGrammar
<1>11. 1 <= Len(Pending) /\ Pending[1] = t[4]
  <2>1. \A p \in 4 .. Len(t) :
          1 + (p - 4) <= Len(Pending) /\ Pending[1 + (p - 4)] = t[p]
    BY <1>3 DEF WholeAt
  <2>2. Len(t) >= 6 /\ Len(t) \in Nat
    BY <1>10 DEF Spelled
  <2> HIDE DEF t
  <2>3. 4 \in 4 .. Len(t) /\ 1 + (4 - 4) = 1
    BY <2>2
  <2>4. QED
    BY <2>1, <2>3
<1>12. t[4].c # "G" /\ t[4].id = parsed
  <2>1. Len(t) >= 6 /\ Len(t) \in Nat
    BY <1>10 DEF Spelled
  <2>2. 4 \in 1 .. Len(t) /\ 4 \in 2 .. Len(t)
    BY <2>1
  <2>3. QED
    BY <1>10, <2>2 DEF Spelled
<1> HIDE DEF n, t
<1>13. \A g \in 2 .. Len(Pending) : Pending[g].c # "G"
  <2>1. Pending # <<>>
    BY <1>2, <1>11
  <2>2. Pending[1].id = Len(kind)
    BY <1>8, <1>11, <1>12
  <2>3. QED
    BY <1>2, <1>3, <2>1, <2>2, LoneRequest
<1>14. \A i \in 1 .. Len(inBuffer_) : inBuffer_[i].c # "G"
  <2>1. SUFFICES ASSUME NEW i \in 1 .. n
                 PROVE  Pending[i].c # "G"
    BY <1>5 DEF n
  <2>2. i = 1 \/ i \in 2 .. Len(Pending)
    BY <1>5
  <2>3. QED
    BY <1>11, <1>12, <1>13, <2>2
<1>15. Len(inBuffer_) >= Len(Text(parsed, kind[parsed])) - 3
  BY <1>3 DEF t
<1>16. Chain(inBuffer_ \o rx, kind) /\ WholeAt(inBuffer_ \o rx, 1, kind, parsed, 4)
  BY <1>3, <1>4
<1>17. LET head == parseHeaders(inBuffer_, "H_START", {}) IN
       /\ head.flag # "error"
       /\ head.flag = "success" /\ kind[parsed] \notin Posts => head.str = <<>>
  BY <1>2, <1>3, <1>9, <1>14, <1>15, <1>16, WholeTurn
<1>18. QED
  BY <1>3, <1>17

\* A refusal is put behind what was sent.
LEMMA RefusedMore ==
  ASSUME TypeOK, RefusedInv, UNCHANGED kind, NEW i \in 1 .. Len(kind),
         i \in 0 .. MaxRequests, kind[i] \in Refusable, HandleError(i)
  PROVE  RefusedInv'
<1> DEFINE c == [id |-> i, part |-> "error"]
<1>1. wire \in Seq(Chunk) /\ room \in 0 .. Room
  BY DEF TypeOK
<1>2. wire' = wire \/ wire' = wire \o <<c>>
  BY <1>1, ErrorEffect
<1>3. c.id = i
  OBVIOUS
<1> HIDE DEF c
<1>4. CASE wire' = wire
  BY <1>4 DEF RefusedInv
<1>5. CASE wire' = wire \o <<c>>
  <2>1. ASSUME NEW n \in 1 .. Len(wire'), wire'[n].part = "error"
        PROVE  wire'[n].id \in 1 .. Len(kind) /\ kind[wire'[n].id] \in Refusable
    <3>1. n \in 1 .. Len(wire) \/ n = Len(wire) + 1
      BY <1>1, <1>5
    <3>2. CASE n \in 1 .. Len(wire)
      <4>1. wire'[n] = wire[n]
        BY <1>1, <1>5, <3>2
      <4>2. QED
        BY <2>1, <3>2, <4>1 DEF RefusedInv
    <3>3. CASE n = Len(wire) + 1
      <4>1. wire'[n] = c
        BY <1>1, <1>5, <3>3
      <4>2. QED
        BY <1>3, <4>1
    <3>4. QED
      BY <3>1, <3>2, <3>3
  <2>2. QED
    BY <2>1 DEF RefusedInv
<1>6. QED
  BY <1>2, <1>4, <1>5

\* Where an error is not known of none has been sent.
LEMMA NoneSent ==
  ASSUME TypeOK, ReadInv, ErrorInv, Next, ~error_'
  PROVE  RefusedInv'
<1>1. ErrorInv'
  BY ErrorStep
<1>2. wire' \in Seq(Chunk)
  <2>1. PICK t \in Seq(Chunk) : wire' = wire \o t
    BY WireGrows
  <2>2. QED
    BY <2>1 DEF TypeOK
<1>3. \A n \in 1 .. Len(wire') : wire'[n].part # "error"
  BY <1>1, <1>2 DEF ErrorInv
<1>4. QED
  BY <1>3 DEF RefusedInv

\* The client sends its next request when it has got the last answer.
LEMMA PoliteSends ==
  ASSUME TypeOK, HeadsInv, Polite, PoliteInv, NEW kk \in Kinds, ClientSends(kk)
  PROVE  PoliteInv'
<1>1. /\ kind \in Seq(AllKinds) /\ Len(kind) \in Nat /\ inBuffer_ \in Seq(Token)
      /\ rx \in Seq(Token) /\ Pending \in Seq(Token)
  BY HeadsTypes
<1>2. /\ unsent = <<>> /\ kind' = Append(kind, kk) /\ Len(kind) < MaxRequests
      /\ UNCHANGED <<habits, inBuffer_, state_, parsed, error_, wire>>
      /\ kind # <<>> => kind[Len(kind)] \notin Posts
  BY DEF ClientSends, data, parse, Polite
<1>3. /\ Len(kind') = Len(kind) + 1 /\ kk \in AllKinds /\ MaxRequests \in Nat
      /\ \A j \in 1 .. Len(kind) : kind'[j] = kind[j] /\ j \in 1 .. Len(kind')
  BY <1>1, <1>2, SessionAssumption
<1>4. \A j \in 1 .. Len(kind') - 1 : kind'[j] \notin Posts
  <2>1. SUFFICES ASSUME NEW j \in 1 .. Len(kind') - 1
                 PROVE  kind'[j] \notin Posts
    OBVIOUS
  <2>2. /\ j \in 1 .. Len(kind) /\ kind # <<>>
        /\ j # Len(kind) => j \in 1 .. Len(kind) - 1
    BY <1>1, <1>3
  <2>3. kind[j] \notin Posts
    BY <1>2, <2>2 DEF PoliteInv
  <2>4. QED
    BY <1>3, <2>2, <2>3
<1>5. RefusedInv'
  BY <1>2, <1>3 DEF PoliteInv, RefusedInv
<1>6. FreshInv'
  <2>1. SUFFICES ASSUME ~error_, Pending' # <<>>,
                        \/ state_ \in {"uri", "finish"}
                        \/ state_ = "analysis" /\ kind'[parsed] \notin Posts
                 PROVE  Pending'[1].c = "G"
    BY <1>2 DEF FreshInv
  <2>2. state_ = "analysis" => kind'[parsed] = kind[parsed]
    BY <1>3 DEF HeadsInv, HeadsBase, KnownInv
  <2>3. Pending # <<>> => Pending[1].c = "G"
    BY <2>1, <2>2 DEF PoliteInv, FreshInv
  <2>4. PICK t \in Seq(Token) : t # <<>> /\ t[1].c = "G" /\ Pending' = Pending \o t
    BY SentBehind DEF HeadsInv, HeadsBase
  <2>5. CASE Pending = <<>>
    <3>1. Pending' = t
      BY <2>4, <2>5
    <3>2. QED
      BY <2>4, <3>1
  <2>6. CASE Pending # <<>>
    <3>1. (Pending \o t)[1] = Pending[1]
      BY <1>1, <2>6
    <3>2. QED
      BY <2>3, <2>4, <2>6, <3>1
  <2>7. QED
    BY <2>5, <2>6
<1>7. QED
  BY <1>2, <1>4, <1>5, <1>6 DEF PoliteInv

\* Each step keeps all this.
LEMMA PoliteStep ==
  ASSUME SessionInv, HeadsInv, OrderInv, WaitInv, PoliteInv, Next
  PROVE  PoliteInv'
<1>1. /\ TypeOK /\ ReadInv /\ ErrorInv /\ HeadsBase
      /\ UNCHANGED habits
      /\ UNCHANGED kind \/ \E kk \in Kinds : ClientSends(kk)
  BY AskedStep DEF SessionInv, HeadsInv
<1>2. SUFFICES ASSUME Polite
               PROVE  PoliteInv'
  BY <1>1 DEF PoliteInv, Polite
<1>3. RefusedInv /\ FreshInv
  BY <1>2 DEF PoliteInv
<1>4. ~error_' => RefusedInv'
  BY <1>1, NoneSent
<1>5. ASSUME UNCHANGED kind, RefusedInv', FreshInv'
      PROVE  PoliteInv'
  BY <1>2, <1>5 DEF PoliteInv
<1>6. parsed \in 1 .. Len(kind) => parsed \in 0 .. MaxRequests
  BY <1>1 DEF TypeOK
<1>7. ASSUME NEW kk \in Kinds, ClientSends(kk)
      PROVE  PoliteInv'
  BY <1>1, <1>2, <1>7, PoliteSends
<1>8. CASE ClientSendsRest \/ Read \/ ReadFails
  <2>1. /\ UNCHANGED <<kind, state_, parsed, wire>> /\ (error_ => error_')
    BY <1>8 DEF ClientSendsRest, Read, ReadFails, Arrives, data, parse, client
  <2>2. Pending' = Pending
    BY <1>1, <1>8, PassedPending
  <2>3. RefusedInv' /\ FreshInv'
    BY <1>3, <2>1, <2>2 DEF RefusedInv, FreshInv
  <2>4. QED
    BY <1>5, <2>1, <2>3
<1>9. CASE ParseURI
  <2>1. state_ = "uri" /\ pc = "process" /\ UNCHANGED kind
    BY <1>9 DEF ParseURI, client
  <2>2. parseURI(inBuffer_).success
    BY <1>2, <2>1, PoliteLine
  <2>3. state_' = "headers" /\ UNCHANGED wire
    BY <1>9, <2>2 DEF ParseURI
  <2>4. RefusedInv' /\ FreshInv'
    BY <1>3, <2>1, <2>3 DEF RefusedInv, FreshInv
  <2>5. QED
    BY <1>5, <2>1, <2>4
<1>10. CASE ParseHeaders
  <2> DEFINE head == parseHeaders(inBuffer_, hState_, headers_)
  <2>1. /\ state_ = "headers" /\ pc = "process"
        /\ UNCHANGED <<kind, rx, unsent, parsed>>
        /\ inBuffer_' = head.str
        /\ \/ head.flag = "again" /\ UNCHANGED <<wire, state_>>
           \/ head.flag = "error"
           \/ /\ head.flag = "success" /\ UNCHANGED wire
              /\ state_' = IF kind[parsed] \in Posts THEN "body" ELSE "analysis"
    BY <1>10 DEF ParseHeaders, client
  <2>2. /\ head.flag # "error"
        /\ head.flag = "success" /\ kind[parsed] \notin Posts => head.str = <<>>
    BY <1>2, <2>1, PoliteHead
  <2> HIDE DEF head
  <2>3. UNCHANGED wire
    BY <2>1, <2>2
  <2>4. FreshInv'
    <3>1. SUFFICES ASSUME state_' = "analysis", Pending' # <<>>
                   PROVE  Pending'[1].c = "G"
      BY <2>1, <2>2 DEF FreshInv
    <3>2. inBuffer_' = <<>>
      BY <2>1, <2>2, <3>1
    <3>3. unsent = <<>> /\ (rx # <<>> => rx[1].c = "G") /\ rx \in Seq(Token)
      BY <1>1, <1>2 DEF HeadsBase, WholeInv, Polite, TypeOK
    <3>4. Pending' = rx
      BY <2>1, <3>2, <3>3 DEF Pending
    <3>5. QED
      BY <3>1, <3>3, <3>4
  <2>5. RefusedInv'
    BY <1>3, <2>1, <2>3 DEF RefusedInv
  <2>6. QED
    BY <1>5, <2>1, <2>4, <2>5
<1>11. ASSUME RefuseBody \/ ReceiveBody
       PROVE  PoliteInv'
  <2>1. state_ = "body" /\ ~error_ /\ UNCHANGED <<kind, parsed>>
    BY <1>1, <1>11 DEF RefuseBody, ReceiveBody, ErrorInv, client, parse
  <2>2. parsed \in 1 .. Len(kind) /\ kind[parsed] \in Posts
    BY <1>1, <2>1 DEF HeadsInv, HeadsBase, KnownInv, Turn
  <2>3. FreshInv'
    BY <1>11, <2>1, <2>2 DEF RefuseBody, ReceiveBody, HandleError, FreshInv, parse
  <2>4. RefusedInv'
    <3>1. ReceiveBody => UNCHANGED wire
      BY DEF ReceiveBody, socket
    <3>2. ReceiveBody => RefusedInv'
      BY <1>3, <2>1, <3>1 DEF RefusedInv
    <3>3. RefuseBody => RefusedInv'
      BY <1>1, <1>3, <1>6, <2>1, <2>2, RefusedMore DEF RefuseBody, Refusable
    <3>4. QED
      BY <1>11, <3>2, <3>3
  <2>5. QED
    BY <1>5, <2>1, <2>3, <2>4
<1>12. CASE AnalysisRequest
  <2>1. /\ state_ = "analysis" /\ ~error_
        /\ UNCHANGED <<kind, rx, unsent, inBuffer_, parsed>>
        /\ parsed \in 1 .. Len(kind)
    BY <1>1, <1>12 DEF AnalysisRequest, ErrorInv, HeadsBase, KnownInv, client
  <2>2. ASSUME AnswerPage(parsed) \/ AnswerFile(parsed)
        PROVE  FreshInv' /\ RefusedInv'
    <3>1. UNCHANGED <<wire, error_>> /\ kind[parsed] \notin Posts
      BY <2>2 DEF AnswerPage, AnswerFile, Posts
    <3>2. Pending' = Pending
      BY <2>1 DEF Pending
    <3>3. QED
      BY <1>3, <2>1, <3>1, <3>2 DEF FreshInv, RefusedInv
  <2>3. ASSUME AnswerMissing(parsed)
        PROVE  FreshInv' /\ RefusedInv'
    <3>1. kind[parsed] \in Refusable /\ HandleError(parsed) /\ error_' = TRUE
      BY <2>3 DEF AnswerMissing, Refusable, HandleError
    <3>2. RefusedInv'
      BY <1>1, <1>3, <1>6, <2>1, <3>1, RefusedMore
    <3>3. QED
      BY <3>1, <3>2 DEF FreshInv
  <2>4. ASSUME AnswerPost(parsed)
        PROVE  FreshInv' /\ RefusedInv'
    BY <1>3, <2>1, <2>4 DEF AnswerPost, FreshInv, RefusedInv
  <2>5. QED
    BY <1>5, <1>12, <2>1, <2>2, <2>3, <2>4 DEF AnalysisRequest
<1>13. CASE FlushAnswer \/ FlushWaiting \/ HandleWrite
  <2>1. /\ UNCHANGED <<kind, rx, unsent, inBuffer_, error_>>
        /\ \/ UNCHANGED <<state_, parsed>>
           \/ state_ = "finish" /\ state_' = "uri"
    BY <1>13 DEF FlushAnswer, FlushWaiting, HandleWrite, Reset, client, parse
  <2>2. ~error_
    BY <1>1, <1>13 DEF FlushAnswer, FlushWaiting, HandleWrite, ErrorInv
  <2>3. Pending' = Pending
    BY <2>1 DEF Pending
  <2>4. FreshInv'
    BY <1>3, <2>1, <2>2, <2>3 DEF FreshInv
  <2>5. QED
    BY <1>4, <1>5, <2>1, <2>2, <2>4
<1>14. ASSUME UNCHANGED <<kind, rx, unsent, inBuffer_, state_, parsed, wire>>,
              error_ => error_'
       PROVE  PoliteInv'
  <2>1. Pending' = Pending
    BY <1>14 DEF Pending
  <2>2. QED
    BY <1>3, <1>5, <1>14, <2>1 DEF FreshInv, RefusedInv
<1>15. CASE ClientFinishes \/ ClientResets \/ ClientReads
  BY <1>14, <1>15 DEF ClientFinishes, ClientResets, ClientReads, client, data,
         parse
<1>16. CASE Dispatch \/ IgnoreFailure
  BY <1>14, <1>16 DEF Dispatch, IgnoreFailure, client, socket, parse
<1>17. CASE FlushNothing \/ SendFails
  BY <1>14, <1>17 DEF FlushNothing, SendFails, client, socket, data, parse
<1>18. CASE KeepConn \/ LeaveConn \/ DropConn \/ Expire
  BY <1>14, <1>18 DEF KeepConn, LeaveConn, DropConn, Expire, client, socket,
         parse
<1>19. QED
  BY <1>7, <1>8, <1>9, <1>10, <1>11, <1>12, <1>13, <1>15, <1>16, <1>17, <1>18
     DEF Next, HandleEvents, Client

\* A client that waits for each answer and sends each request in one piece is
\* never refused anything but what is not there, and a POST (parseURI,
\* parseHeaders, analysisRequest): that anything else is refused takes requests
\* that were pipelined or cut.
THEOREM PoliteNotRefused == Spec => [](Polite => NoneRefused)
<1> DEFINE Inv == SessionInv /\ HeadsInv /\ OrderInv /\ WaitInv
<1>1. Init => PoliteInv
  <2>1. SUFFICES ASSUME Init
                 PROVE  PoliteInv
    OBVIOUS
  <2>2. /\ kind = <<>> /\ wire = <<>> /\ Pending = <<>> \o (<<>> \o <<>>)
    BY <2>1 DEF Init, Pending
  <2>3. Len(kind) = 0 /\ Len(wire) = 0 /\ Pending = <<>>
    BY <2>2
  <2>4. RefusedInv /\ FreshInv /\ \A j \in 1 .. Len(kind) - 1 : FALSE
    BY <2>3 DEF RefusedInv, FreshInv
  <2>5. QED
    BY <2>4 DEF PoliteInv
<1>2. Inv /\ PoliteInv /\ [Next]_vars => PoliteInv'
  <2>1. SUFFICES ASSUME Inv, PoliteInv, [Next]_vars
                 PROVE  PoliteInv'
    OBVIOUS
  <2>2. CASE UNCHANGED vars
    <3>1. UNCHANGED <<habits, kind, unsent, rx, wire, inBuffer_, state_, error_,
                      parsed>>
      BY <2>2 DEF vars, client, socket, data, parse
    <3>2. Pending' = Pending
      BY <3>1 DEF Pending
    <3>3. QED
      BY <2>1, <3>1, <3>2 DEF PoliteInv, Polite, RefusedInv, FreshInv
  <2>3. QED
    BY <2>1, <2>2, PoliteStep
<1>3. TypeOK /\ PoliteInv => (Polite => NoneRefused)
  <2>1. TypeOK => DOMAIN wire = 1 .. Len(wire)
    BY DEF TypeOK
  <2>2. QED
    BY <2>1 DEF PoliteInv, RefusedInv, NoneRefused, Refusable
<1>4. QED
  BY <1>1, <1>2, <1>3, SessionTypes, SessionInvariant, HeadsInvariant,
     OutputInvariant, PTL DEF Spec
=============================================================================
