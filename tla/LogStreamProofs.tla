---------------------------- MODULE LogStreamProofs ----------------------------
(***************************************************************************)
(* Theorems about LogStream: however many pieces a statement has and       *)
(* however long they are, its line stays inside the stream's buffer, and   *)
(* is made of whole pieces with their numbers in decimal.                  *)
(***************************************************************************)
EXTENDS LogStream, Recursion, TLAPS

\* The contents of a stream: at least one of its characters is free.
Stream == {s \in Seq(Characters) : Len(s) < SIZE}

\* A piece that can be put into a stream.
Fitting(piece) ==
  /\ piece \in Piece
  /\ piece.type = "real" => Len(piece.text) < kMaxNumericSize

\* operator<< never fills the last character of the stream.
LEMMA InsertFits ==
  ASSUME NEW s \in Stream, NEW piece, Fitting(piece)
  PROVE  Insert(s, piece) \in Stream /\ Len(Insert(s, piece)) >= Len(s)
<1> USE StreamAssumption
<1>1. CASE piece \in [type : {"int"}, value : Ints]
  <2>1. Insert(s, piece) = formatInteger(s, piece.value) /\ piece.value \in Ints
    BY <1>1 DEF Insert
  <2>2. /\ convert(piece.value) \in Seq(Characters)
        /\ Len(convert(piece.value)) < kMaxNumericSize
    BY <2>1, NumberAssumption
  <2>3. QED
    BY <2>1, <2>2 DEF Stream, formatInteger, avail
<1>2. CASE piece \in [type : {"real"}, text : Seq(Characters)]
  <2>1. Insert(s, piece) = formatReal(s, piece.text)
    BY <1>2 DEF Insert
  <2>2. piece.text \in Seq(Characters) /\ Len(piece.text) < kMaxNumericSize
    BY <1>2 DEF Fitting
  <2>3. QED
    BY <2>1, <2>2 DEF Stream, formatReal, avail
<1>3. CASE piece \in [type : {"str"}, text : Seq(Characters)]
  <2>1. Insert(s, piece) = append(s, piece.text)
    BY <1>3 DEF Insert
  <2>2. piece.text \in Seq(Characters)
    BY <1>3
  <2>3. QED
    BY <2>1, <2>2 DEF Stream, append, avail
<1>4. QED
  BY <1>1, <1>2, <1>3 DEF Fitting, Piece

\* The streams after each of the pieces.
Fills(f, pieces, n) ==
  f = [k \in 0 .. n |-> IF k = 0 THEN <<>> ELSE Insert(f[k - 1], pieces[k])]

\* There are such streams, for any pieces.
LEMMA FillsExist ==
  ASSUME NEW pieces \in Seq(Piece),
         \A k \in 1 .. Len(pieces) : Fitting(pieces[k])
  PROVE  \E f : Fills(f, pieces, Len(pieces))
<1> DEFINE T == {n \in Nat : n <= Len(pieces) => \E f : Fills(f, pieces, n)}
<1>1. 0 \in T
  <2> DEFINE f == [k \in 0 .. 0 |-> <<>>]
  <2>1. Fills(f, pieces, 0)
    BY DEF Fills
  <2>2. QED
    BY <2>1
<1>2. ASSUME NEW n \in T
      PROVE  n + 1 \in T
  <2> SUFFICES ASSUME n + 1 <= Len(pieces)
               PROVE  \E g : Fills(g, pieces, n + 1)
    OBVIOUS
  <2>1. PICK f : Fills(f, pieces, n)
    OBVIOUS
  <2> DEFINE g == [k \in 0 .. n + 1 |-> IF k = n + 1
                     THEN Insert(f[n], pieces[n + 1]) ELSE f[k]]
  <2>2. \A k \in 0 .. n : f[k] = IF k = 0 THEN <<>>
                                 ELSE Insert(f[k - 1], pieces[k])
    BY <2>1 DEF Fills
  <2>3. \A k \in 0 .. n + 1 : g[k] = IF k = 0 THEN <<>>
                                     ELSE Insert(g[k - 1], pieces[k])
    <3>1. SUFFICES ASSUME NEW k \in 0 .. n + 1
                   PROVE  g[k] = IF k = 0 THEN <<>>
                                 ELSE Insert(g[k - 1], pieces[k])
      OBVIOUS
    <3>2. CASE k = n + 1
      BY <3>2
    <3>3. CASE k \in 0 .. n
      <4>1. g[k] = f[k] /\ (k # 0 => g[k - 1] = f[k - 1])
        BY <3>3
      <4>2. QED
        BY <2>2, <3>3, <4>1
    <3>4. QED
      BY <3>2, <3>3
  <2>4. g = [k \in 0 .. n + 1 |-> g[k]]
    OBVIOUS
  <2> HIDE DEF g
  <2>5. Fills(g, pieces, n + 1)
    BY <2>3, <2>4 DEF Fills
  <2>6. QED
    BY <2>5
<1> HIDE DEF T
<1>3. T = Nat
  <2>1. T \in SUBSET Nat
    BY DEF T
  <2>2. QED
    BY <1>1, <1>2, <2>1, AllNumbers
<1>4. Len(pieces) \in T
  BY <1>3
<1>5. QED
  BY <1>4 DEF T

\* What is in the stream after each piece of a statement, up to its line.
LineFilled(statement, filled) ==
  LET pieces == Pieces(statement) IN
  /\ filled[0] = <<>> /\ Line(statement) = filled[Len(pieces)]
  /\ \A k \in 1 .. Len(pieces) : filled[k] = Insert(filled[k - 1], pieces[k])
  /\ \A k \in 0 .. Len(pieces) : filled[k] \in Stream

\* A line is filled piece by piece, and never to the last character; the last
\* piece is the line end.
LEMMA LineSteps ==
  ASSUME NEW statement \in Statements
  PROVE  LET pieces == Pieces(statement) IN
         /\ pieces \in Seq(Piece) /\ Len(pieces) \in Nat \ {0}
         /\ pieces[Len(pieces)] = Str(<<"\n">>)
         /\ \E filled : LineFilled(statement, filled)
<1> USE StreamAssumption
<1> DEFINE pieces == Pieces(statement)
           N == Len(pieces)
<1>1. pieces \in Seq(Piece) /\ N \in Nat \ {0} /\ pieces[N] = Str(<<"\n">>)
  <2>1. Prefix \in Seq(Piece) /\ statement \in Seq(Piece)
    BY PieceAssumption
  <2>2. Str(<<"\n">>) \in Piece
    <3>1. <<"\n">> \in Seq(Characters)
      BY StreamAssumption
    <3> DEFINE text == <<"\n">>
    <3> HIDE DEF text
    <3>2. [type |-> "str", text |-> text] \in
            [type : {"str"}, text : Seq(Characters)]
      BY <3>1 DEF text
    <3>3. QED
      BY <3>2 DEF Str, Piece, text
  <2>3. QED
    BY <2>1, <2>2 DEF Pieces
<1>2. \A k \in 1 .. N : Fitting(pieces[k])
  <2>1. SUFFICES ASSUME NEW k \in 1 .. N, pieces[k].type = "real"
                 PROVE  Len(pieces[k].text) < kMaxNumericSize
    BY <1>1 DEF Fitting
  <2>2. Prefix \in Seq(Piece) /\ statement \in Seq(Piece)
    BY PieceAssumption
  <2>3. \/ k \in 1 .. Len(Prefix) /\ pieces[k] = Prefix[k]
        \/ /\ k - Len(Prefix) \in 1 .. Len(statement)
           /\ pieces[k] = statement[k - Len(Prefix)]
        \/ pieces[k] = Str(<<"\n">>)
    BY <2>2 DEF Pieces
  <2>4. pieces[k] # Str(<<"\n">>)
    BY <2>1 DEF Str
  <2>5. QED
    BY <2>1, <2>3, <2>4, PieceAssumption
<1> HIDE DEF pieces
<1> DEFINE filled == CHOOSE f : Fills(f, pieces, N)
<1>3. Fills(filled, pieces, N)
  BY <1>1, <1>2, FillsExist
<1>4. Line(statement) = filled[N]
  BY DEF Line, Fills, pieces
<1> HIDE DEF filled
<1>5. \A k \in 0 .. N : filled[k] = IF k = 0 THEN <<>>
                                    ELSE Insert(filled[k - 1], pieces[k])
  BY <1>3 DEF Fills
<1> DEFINE T == {n \in Nat : n <= N => filled[n] \in Stream}
<1>6. T = Nat
  <2>1. 0 \in T
    <3>1. filled[0] = <<>>
      BY <1>1, <1>5
    <3>2. <<>> \in Stream
      BY DEF Stream
    <3>3. QED
      BY <3>1, <3>2
  <2>2. ASSUME NEW n \in T
        PROVE  n + 1 \in T
    <3>1. SUFFICES ASSUME n + 1 <= N
                   PROVE  filled[n + 1] \in Stream
      OBVIOUS
    <3>2. filled[n] \in Stream /\ Fitting(pieces[n + 1])
      BY <1>1, <1>2, <3>1
    <3>3. filled[n + 1] = Insert(filled[n], pieces[n + 1])
      BY <1>1, <1>5, <3>1
    <3>4. QED
      BY <3>2, <3>3, InsertFits
  <2>3. T \in SUBSET Nat
    OBVIOUS
  <2> HIDE DEF T
  <2>4. QED
    BY <2>1, <2>2, <2>3, AllNumbers
<1>7. LineFilled(statement, filled)
  <2>1. filled[0] = <<>>
    BY <1>1, <1>5
  <2>2. \A k \in 1 .. N : filled[k] = Insert(filled[k - 1], pieces[k])
    BY <1>1, <1>5
  <2>3. \A k \in 0 .. N : filled[k] \in Stream
    BY <1>1, <1>6
  <2>4. QED
    BY <1>4, <2>1, <2>2, <2>3 DEF LineFilled, pieces
<1>8. QED
  BY <1>1, <1>7 DEF pieces

\* A line has room for another character, and is not empty: the line end is
\* missing only when something else has filled the stream.
THEOREM LineFits ==
  ASSUME NEW statement \in Statements
  PROVE  /\ Line(statement) \in Seq(Characters)
         /\ Len(Line(statement)) \in 1 .. SIZE - 1
<1> DEFINE pieces == Pieces(statement)
           N == Len(pieces)
<1>1. PICK filled : LineFilled(statement, filled)
  BY LineSteps
<1>2. N \in Nat \ {0} /\ pieces[N] = Str(<<"\n">>)
  BY LineSteps
<1>3. /\ filled[N] = Insert(filled[N - 1], pieces[N])
      /\ Line(statement) = filled[N]
      /\ filled[N] \in Stream /\ filled[N - 1] \in Stream
  <2>1. N \in 1 .. N /\ N \in 0 .. N /\ N - 1 \in 0 .. N
    BY <1>2
  <2>2. QED
    BY <1>1, <2>1 DEF LineFilled
<1> HIDE DEF N
<1>4. filled[N] = append(filled[N - 1], <<"\n">>)
  BY <1>2, <1>3 DEF Insert, Str
<1>5. Len(filled[N]) >= 1
  BY <1>3, <1>4, StreamAssumption DEF append, avail, Stream
<1>6. QED
  BY <1>3, <1>5, StreamAssumption DEF Stream

-----------------------------------------------------------------------------
(* Decimal numbers.                                                        *)

Digit == {digits[d] : d \in 1 .. 19}

\* What Numeral makes of n with f in place of itself.
NumeralFrom(f, n) ==
  (IF n < 10 THEN <<>> ELSE f[n \div 10]) \o <<digits[10 + (n % 10)]>>

NumeralsTo(f, n) == f = [k \in 0 .. n |-> NumeralFrom(f, k)]

\* The digits of a number follow from those of a smaller one.
LEMMA Tenth ==
  ASSUME NEW n \in Nat
  PROVE  /\ n \div 10 \in Nat /\ n % 10 \in 0 .. 9
         /\ n = 10 * (n \div 10) + (n % 10)
         /\ n >= 10 => n \div 10 # 0 /\ n \div 10 <= n - 1
         /\ n < 10 => n \div 10 = 0
<1>1. QED
  OBVIOUS

\* As many numerals exist as one likes.
LEMMA NumeralsExist == \A n \in Nat : \E f : NumeralsTo(f, n)
<1> DEFINE T == {n \in Nat : \E f : NumeralsTo(f, n)}
<1>1. 0 \in T
  <2> DEFINE f == [k \in 0 .. 0 |-> <<>> \o <<digits[10 + (k % 10)]>>]
  <2>1. \A k \in 0 .. 0 : NumeralFrom(f, k) = <<>> \o <<digits[10 + (k % 10)]>>
    BY DEF NumeralFrom
  <2>2. NumeralsTo(f, 0)
    BY <2>1, Zenon DEF NumeralsTo
  <2>3. QED
    BY <2>2
<1>2. ASSUME NEW n \in T
      PROVE  n + 1 \in T
  <2>0. n \in Nat
    OBVIOUS
  <2>1. PICK f : NumeralsTo(f, n)
    OBVIOUS
  <2> DEFINE g == [k \in 0 .. n + 1 |-> IF k = n + 1 THEN NumeralFrom(f, k)
                                        ELSE f[k]]
  <2>2. \A k \in 0 .. n : f[k] = NumeralFrom(f, k)
    BY <2>1 DEF NumeralsTo
  <2>3. \A k \in 0 .. n + 1 : k >= 10 => k \div 10 \in 0 .. n
    BY <2>0, Tenth
  <2>4. \A k \in 0 .. n : k \in 0 .. n + 1 /\ k # n + 1
    BY <2>0
  <2>5. \A k \in 0 .. n : g[k] = f[k]
    BY <2>4, Zenon
  <2>6. \A k \in 0 .. n + 1 : g[k] = NumeralFrom(f, k)
    <3>1. \A k \in 0 .. n + 1 : k # n + 1 => k \in 0 .. n
      BY <2>0
    <3>2. QED
      BY <2>2, <3>1, Zenon
  <2>7. g = [k \in 0 .. n + 1 |-> g[k]]
    OBVIOUS
  <2> HIDE DEF g
  <2>8. \A k \in 0 .. n + 1 : NumeralFrom(g, k) = NumeralFrom(f, k)
    <3>1. SUFFICES ASSUME NEW k \in 0 .. n + 1
                   PROVE  NumeralFrom(g, k) = NumeralFrom(f, k)
      OBVIOUS
    <3>2. CASE k < 10
      BY <3>2 DEF NumeralFrom
    <3>3. CASE ~(k < 10)
      <4>1. k \div 10 \in 0 .. n
        BY <2>0, <2>3, <3>3
      <4>2. g[k \div 10] = f[k \div 10]
        BY <2>5, <4>1
      <4>3. QED
        BY <4>2 DEF NumeralFrom
    <3>4. QED
      BY <3>2, <3>3
  <2>9. NumeralsTo(g, n + 1)
    BY <2>6, <2>7, <2>8, Zenon DEF NumeralsTo
  <2>10. QED
    BY <2>9
<1>3. T \in SUBSET Nat
  OBVIOUS
<1> HIDE DEF T
<1>4. T = Nat
  BY <1>1, <1>2, <1>3, AllNumbers
<1>5. QED
  BY <1>4 DEF T

\* However many they are, they are the same.
LEMMA NumeralsAgree ==
  ASSUME NEW m \in Nat, NEW n \in Nat, NEW f, NEW g,
         NumeralsTo(f, m), NumeralsTo(g, n)
  PROVE  \A k \in 0 .. m : k <= n => f[k] = g[k]
<1> DEFINE T == {k \in Nat : k <= m /\ k <= n => f[k] = g[k]}
<1>1. ASSUME NEW k \in Nat, \A j \in 0 .. k - 1 : j \in T
      PROVE  k \in T
  <2>1. SUFFICES ASSUME k <= m, k <= n
                 PROVE  f[k] = g[k]
    OBVIOUS
  <2>2. k \in 0 .. m /\ k \in 0 .. n
    BY <2>1
  <2>3. f[k] = NumeralFrom(f, k) /\ g[k] = NumeralFrom(g, k)
    BY <2>2 DEF NumeralsTo
  <2>4. k >= 10 => f[k \div 10] = g[k \div 10]
    <3>1. k >= 10 => k \div 10 \in 0 .. k - 1
      BY Tenth
    <3>2. QED
      BY <1>1, <2>1, <3>1
  <2>5. NumeralFrom(f, k) = NumeralFrom(g, k)
    <3>1. CASE k < 10
      BY <3>1 DEF NumeralFrom
    <3>2. CASE ~(k < 10)
      <4>1. f[k \div 10] = g[k \div 10]
        BY <2>4, <3>2
      <4>2. QED
        BY <4>1 DEF NumeralFrom
    <3>3. QED
      BY <3>1, <3>2
  <2>6. QED
    BY <2>3, <2>5
<1>2. T \in SUBSET Nat
  OBVIOUS
<1> HIDE DEF T
<1>3. T = Nat
  BY <1>1, <1>2, AllBelow
<1>4. QED
  BY <1>3 DEF T

\* Numeral is the function its definition describes.
LEMMA NumeralIs == \A n \in Nat : Numeral[n] = NumeralFrom(Numeral, n)
<1> DEFINE upTo(n) == CHOOSE f : NumeralsTo(f, n)
           F == [n \in Nat |-> upTo(n)[n]]
<1>1. \A n \in Nat : NumeralsTo(upTo(n), n)
  BY NumeralsExist
<1>2. F = [n \in Nat |-> F[n]] /\ \A n \in Nat : F[n] = upTo(n)[n]
  OBVIOUS
<1> HIDE DEF upTo, F
<1>3. ASSUME NEW n \in Nat
      PROVE  F[n] = NumeralFrom(F, n)
  <2>1. upTo(n)[n] = NumeralFrom(upTo(n), n)
    BY <1>1 DEF NumeralsTo
  <2>2. n >= 10 => upTo(n)[n \div 10] = upTo(n \div 10)[n \div 10]
    <3>1. n >= 10 => n \div 10 \in Nat /\ n \div 10 \in 0 .. n
      BY Tenth
    <3>2. n >= 10 => n \div 10 <= n \div 10
      BY <3>1
    <3>3. QED
      BY <1>1, <3>1, <3>2, NumeralsAgree
  <2>3. n >= 10 => F[n \div 10] = upTo(n)[n \div 10]
    BY <1>2, <2>2, Tenth
  <2>4. NumeralFrom(F, n) = NumeralFrom(upTo(n), n)
    <3>1. CASE n < 10
      BY <3>1 DEF NumeralFrom
    <3>2. CASE ~(n < 10)
      <4>1. F[n \div 10] = upTo(n)[n \div 10]
        BY <2>3, <3>2
      <4>2. QED
        BY <4>1 DEF NumeralFrom
    <3>3. QED
      BY <3>1, <3>2
  <2>5. QED
    BY <1>2, <2>1, <2>4
<1>4. F = [n \in Nat |-> NumeralFrom(F, n)]
  BY <1>2, <1>3, Zenon
<1>5. Numeral = [n \in Nat |-> NumeralFrom(Numeral, n)]
  BY <1>4, Zenon DEF Numeral, NumeralFrom
<1>6. QED
  BY <1>5

\* A numeral is made of digits.
LEMMA NumeralType == \A n \in Nat : Numeral[n] \in Seq(Digit)
<1> DEFINE T == {n \in Nat : Numeral[n] \in Seq(Digit)}
<1>1. ASSUME NEW n \in Nat, \A k \in 0 .. n - 1 : k \in T
      PROVE  n \in T
  <2>1. digits[10 + (n % 10)] \in Digit
    BY Tenth DEF Digit
  <2>2. n >= 10 => n \div 10 \in 0 .. n - 1
    BY Tenth
  <2>3. n >= 10 => Numeral[n \div 10] \in Seq(Digit)
    BY <1>1, <2>2
  <2>4. NumeralFrom(Numeral, n) \in Seq(Digit)
    BY <2>1, <2>3 DEF NumeralFrom
  <2>5. QED
    BY <2>4, NumeralIs
<1>2. T \in SUBSET Nat
  OBVIOUS
<1> HIDE DEF T
<1>3. T = Nat
  BY <1>1, <1>2, AllBelow
<1>4. QED
  BY <1>3 DEF T

\* A sequence back to front.
LEMMA Reversing ==
  ASSUME NEW T, NEW s \in Seq(T), NEW t \in Seq(T)
  PROVE  /\ Reverse(s) \in Seq(T) /\ Len(Reverse(s)) = Len(s)
         /\ Reverse(Reverse(s)) = s
         /\ Reverse(s \o t) = Reverse(t) \o Reverse(s)
<1>1. /\ Reverse(s) \in Seq(T) /\ Len(Reverse(s)) = Len(s)
      /\ Reverse(t) \in Seq(T) /\ Len(Reverse(t)) = Len(t)
      /\ \A i \in 1 .. Len(s) : Reverse(s)[i] = s[(Len(s) - i) + 1]
      /\ \A i \in 1 .. Len(t) : Reverse(t)[i] = t[(Len(t) - i) + 1]
  BY DEF Reverse
<1>2. Reverse(Reverse(s)) = s
  <2>1. \A i \in 1 .. Len(s) : Reverse(s)[(Len(s) - i) + 1] = s[i]
    <3>1. SUFFICES ASSUME NEW i \in 1 .. Len(s)
                   PROVE  Reverse(s)[(Len(s) - i) + 1] = s[i]
      OBVIOUS
    <3>2. /\ (Len(s) - i) + 1 \in 1 .. Len(s)
          /\ (Len(s) - ((Len(s) - i) + 1)) + 1 = i
      OBVIOUS
    <3>3. QED
      BY <1>1, <3>2
  <2>2. QED
    BY <1>1, <2>1 DEF Reverse
<1>3. Reverse(s \o t) = Reverse(t) \o Reverse(s)
  <2> DEFINE u == s \o t
             v == Reverse(t) \o Reverse(s)
  <2>1. /\ u \in Seq(T) /\ Len(u) = Len(s) + Len(t)
        /\ v \in Seq(T) /\ Len(v) = Len(s) + Len(t)
    <3>1. \A x, y \in Seq(T) :
            x \o y \in Seq(T) /\ Len(x \o y) = Len(x) + Len(y)
      OBVIOUS
    <3>2. Len(s) \in Nat /\ Len(t) \in Nat
      OBVIOUS
    <3>3. QED
      BY <1>1, <3>1, <3>2
  <2>2. \A i \in 1 .. Len(u) : v[i] = u[(Len(u) - i) + 1]
    BY <1>1, <2>1, SMTT(20)
  <2> HIDE DEF u, v
  <2>3. v = [i \in 1 .. Len(u) |-> u[(Len(u) - i) + 1]]
    BY <2>1, <2>2
  <2>4. QED
    BY <2>3 DEF Reverse, u, v
<1>4. QED
  BY <1>1, <1>2, <1>3

Abs(i) == IF i < 0 THEN 0 - i ELSE i

\* C++'s division on a negative number goes through the digits of its
\* absolute value.
LEMMA Mirrored ==
  ASSUME NEW i \in Int
  PROVE  /\ Abs(i) \in Nat /\ Quotient(i) \in Int
         /\ zero(Remainder(i)) = digits[10 + (Abs(i) % 10)]
         /\ Quotient(i) = 0 <=> Abs(i) < 10
         /\ Abs(Quotient(i)) = Abs(i) \div 10
<1>1. Abs(i) \in Nat
  BY DEF Abs
<1> DEFINE n == Abs(i)
           q == n \div 10
           r == n % 10
<1>2. /\ q \in Nat /\ r \in 0 .. 9 /\ n = 10 * q + r /\ (q = 0 <=> n < 10)
  <2> HIDE DEF n
  <2>1. n \in Nat
    BY <1>1 DEF n
  <2>2. QED
    BY <2>1, Tenth
<1>3. Quotient(i) = IF i >= 0 THEN q ELSE 0 - q
  BY DEF Quotient, Abs
<1>4. Remainder(i) = IF i >= 0 THEN r ELSE 0 - r
  <2>1. i = IF i >= 0 THEN n ELSE 0 - n
    BY DEF Abs
  <2>2. n \in Nat
    BY <1>1
  <2> HIDE DEF n, q, r
  <2>3. QED
    BY <1>2, <1>3, <2>1, <2>2 DEF Remainder
<1>5. digits[10 + (0 - r)] = digits[10 + r]
  <2> HIDE DEF n, q, r
  <2>1. r \in {0, 1, 2, 3, 4, 5, 6, 7, 8, 9}
    BY <1>2
  <2>2. QED
    BY <2>1 DEF digits
<1>6. zero(Remainder(i)) = digits[10 + r]
  <2> HIDE DEF n, q, r
  <2>1. (0 - r) + 10 = 10 + (0 - r) /\ r + 10 = 10 + r
    BY <1>2
  <2>2. QED
    BY <1>4, <1>5, <2>1 DEF zero
<1>7. Abs(Quotient(i)) = q /\ (Quotient(i) = 0 <=> q = 0) /\ Quotient(i) \in Int
  <2> HIDE DEF n, q, r
  <2>1. QED
    BY <1>2, <1>3 DEF Abs
<1>8. QED
  BY <1>1, <1>2, <1>6, <1>7

\* What the loop of convert makes of i with f for the rest of it.
BackwardsFrom(f, i) ==
  <<zero(Remainder(i))>>
    \o IF Quotient(i) = 0 THEN <<>> ELSE f[Quotient(i)]

\* The loop yields the digits of the absolute value, the last first.
LEMMA BackwardsIs ==
  \A i \in Int : Backwards[i] = Reverse(Numeral[Abs(i)])
<1> DEFINE B == [i \in Int |-> Reverse(Numeral[Abs(i)])]
<1>1. ASSUME NEW i \in Int, NEW f,
             Quotient(i) # 0 => f[Quotient(i)] = Reverse(Numeral[Abs(i) \div 10])
      PROVE  BackwardsFrom(f, i) = Reverse(Numeral[Abs(i)])
  <2> DEFINE n == Abs(i)
             e == <<digits[10 + (n % 10)]>>
             rest == IF n < 10 THEN <<>> ELSE Numeral[n \div 10]
  <2>1. n \in Nat
    BY Mirrored
  <2>2. e \in Seq(Digit) /\ Reverse(e) = e
    <3>1. digits[10 + (n % 10)] \in Digit
      BY <2>1, Tenth DEF Digit
    <3>2. QED
      BY <3>1 DEF Reverse
  <2>3. rest \in Seq(Digit)
    BY <2>1, Tenth, NumeralType
  <2>4. Numeral[n] = rest \o e
    BY <2>1, NumeralIs DEF NumeralFrom
  <2>5. <<zero(Remainder(i))>> = e
    BY Mirrored
  <2>6. (IF Quotient(i) = 0 THEN <<>> ELSE f[Quotient(i)]) = Reverse(rest)
    <3>1. Reverse(<<>>) = <<>>
      BY DEF Reverse
    <3>2. QED
      BY <1>1, <3>1, Mirrored
  <2> HIDE DEF n, e, rest
  <2>7. Reverse(rest \o e) = Reverse(e) \o Reverse(rest)
    BY <2>2, <2>3, Reversing
  <2>8. QED
    BY <2>2, <2>4, <2>5, <2>6, <2>7 DEF BackwardsFrom, n
<1>2. B = [i \in Int |-> BackwardsFrom(B, i)]
  <2>1. \A i \in Int : BackwardsFrom(B, i) = Reverse(Numeral[Abs(i)])
    <3>1. ASSUME NEW i \in Int
          PROVE  B[Quotient(i)] = Reverse(Numeral[Abs(i) \div 10])
      BY Mirrored
    <3> HIDE DEF B
    <3>2. QED
      BY <1>1, <3>1
  <2>2. QED
    BY <2>1, Zenon
<1>3. Backwards = [i \in Int |-> BackwardsFrom(Backwards, i)]
  BY <1>2, Zenon DEF Backwards, BackwardsFrom
<1> HIDE DEF B
<1> DEFINE T == {n \in Nat : \A i \in Int :
                   Abs(i) = n => Backwards[i] = Reverse(Numeral[n])}
<1>4. ASSUME NEW n \in Nat, \A k \in 0 .. n - 1 : k \in T
      PROVE  n \in T
  <2>1. SUFFICES ASSUME NEW i \in Int, Abs(i) = n
                 PROVE  Backwards[i] = Reverse(Numeral[n])
    OBVIOUS
  <2>2. Quotient(i) # 0 => n \div 10 \in 0 .. n - 1
    BY <2>1, Mirrored, Tenth
  <2>3. Quotient(i) # 0 =>
          Backwards[Quotient(i)] = Reverse(Numeral[n \div 10])
    BY <1>4, <2>1, <2>2, Mirrored
  <2>4. Backwards[i] = BackwardsFrom(Backwards, i)
    BY <1>3, Zenon
  <2>5. QED
    BY <1>1, <2>1, <2>3, <2>4
<1>5. T \in SUBSET Nat
  OBVIOUS
<1> HIDE DEF T
<1>6. T = Nat
  BY <1>4, <1>5, AllBelow
<1>7. QED
  BY <1>6, Mirrored DEF T

\* The arithmetic of convert is right for every number, the least of its type
\* included: it writes the sign and the decimal digits.
THEOREM ConvertIsDecimal == \A v \in Int : convert(v) = Decimal(v)
<1> SUFFICES ASSUME NEW v \in Int
             PROVE  convert(v) = Decimal(v)
  OBVIOUS
<1> DEFINE n == Abs(v)
           T == Digit \cup {"-"}
<1>1. n \in Nat /\ Numeral[n] \in Seq(T)
  <2>1. n \in Nat
    BY Mirrored
  <2>2. Numeral[n] \in Seq(Digit)
    BY <2>1, NumeralType
  <2>3. QED
    BY <2>1, <2>2
<1>2. Sign(v) \in Seq(T) /\ Reverse(Sign(v)) = Sign(v)
  <2>1. CASE v < 0
    BY <2>1 DEF Sign, Reverse
  <2>2. CASE ~(v < 0)
    BY <2>2 DEF Sign, Reverse
  <2>3. QED
    BY <2>1, <2>2
<1>3. Backwards[v] = Reverse(Numeral[n])
  BY BackwardsIs
<1> HIDE DEF T, n
<1>4. Reverse(Backwards[v] \o Sign(v)) = Sign(v) \o Numeral[n]
  <2>1. Reverse(Numeral[n]) \in Seq(T)
    BY <1>1, Reversing
  <2>2. Reverse(Backwards[v] \o Sign(v))
          = Reverse(Sign(v)) \o Reverse(Backwards[v])
    <3>1. Backwards[v] \in Seq(T)
      BY <1>3, <2>1
    <3>2. QED
      BY <1>2, <3>1, Reversing, ZenonT(30)
  <2>3. Reverse(Backwards[v]) = Numeral[n]
    BY <1>1, <1>3, Reversing
  <2>4. QED
    BY <1>2, <2>2, <2>3
<1>5. Decimal(v) = Sign(v) \o Numeral[n]
  <2>1. CASE v < 0
    BY <2>1 DEF Decimal, Sign, n, Abs
  <2>2. CASE ~(v < 0)
    <3>1. <<>> \o Numeral[n] = Numeral[n]
      BY <1>1
    <3>2. QED
      BY <2>2, <3>1 DEF Decimal, Sign, n, Abs
  <2>3. QED
    BY <2>1, <2>2
<1>6. QED
  BY <1>4, <1>5 DEF convert

-----------------------------------------------------------------------------
(* The pieces of a line.                                                   *)

\* A piece is put into the stream whole, as the text it should be, or left
\* out.
LEMMA WholeOrNot ==
  ASSUME NEW s \in Stream, NEW piece \in Piece
  PROVE  Insert(s, piece) \in {s, s \o Text(piece)}
<1>1. CASE piece \in [type : {"int"}, value : Ints]
  <2>1. convert(piece.value) = Text(piece)
    <3>1. piece.value \in Int
      BY <1>1, StreamAssumption DEF Ints
    <3>2. QED
      BY <1>1, <3>1, ConvertIsDecimal DEF Text
  <2>2. QED
    BY <1>1, <2>1 DEF Insert, formatInteger
<1>2. CASE piece \in [type : {"real"}, text : Seq(Characters)]
  BY <1>2 DEF Insert, formatReal, Text
<1>3. CASE piece \in [type : {"str"}, text : Seq(Characters)]
  BY <1>3 DEF Insert, append, Text
<1>4. QED
  BY <1>1, <1>2, <1>3 DEF Piece

\* Sequences put one behind the other, when filled says what each adds.
LEMMA Flattened ==
  ASSUME NEW n \in Nat \ {0}, NEW filled, NEW parts,
         parts = [k \in 1 .. n |-> parts[k]],
         filled[0] = <<>>, parts[1] = filled[1],
         \A k \in 2 .. n : filled[k] = filled[k - 1] \o parts[k]
  PROVE  FlattenSeq(parts) = filled[n]
<1> DEFINE Flat(f) == f = [k \in 1 .. Len(parts) |->
                        IF k = 1 THEN parts[1] ELSE f[k - 1] \o parts[k]]
           flat == CHOOSE f : Flat(f)
<1>1. Len(parts) = n
  OBVIOUS
<1>2. FlattenSeq(parts) = flat[n]
  <2>1. Len(parts) # 0
    BY <1>1
  <2>2. FlattenSeq(parts) = flat[Len(parts)]
    BY <2>1 DEF FlattenSeq
  <2> HIDE DEF flat
  <2>3. QED
    BY <1>1, <2>2
<1>3. Flat(flat)
  <2> DEFINE f == [k \in 1 .. n |-> filled[k]]
  <2>1. \A k \in 1 .. n : k # 1 => k \in 2 .. n /\ k - 1 \in 1 .. n
    OBVIOUS
  <2>2. \A k \in 1 .. n : f[k] = IF k = 1 THEN parts[1]
                                 ELSE f[k - 1] \o parts[k]
    BY <2>1
  <2>3. Flat(f)
    BY <1>1, <2>2
  <2> HIDE DEF Flat
  <2>4. QED
    BY <2>3
<1> HIDE DEF flat
<1> DEFINE T == {k \in Nat : k \in 1 .. n => flat[k] = filled[k]}
<1>4. ASSUME NEW k \in Nat, \A j \in 0 .. k - 1 : j \in T
      PROVE  k \in T
  <2>1. SUFFICES ASSUME k \in 1 .. n
                 PROVE  flat[k] = filled[k]
    OBVIOUS
  <2>2. flat[k] = IF k = 1 THEN parts[1] ELSE flat[k - 1] \o parts[k]
    BY <1>1, <1>3, <2>1
  <2>3. CASE k = 1
    BY <2>2, <2>3
  <2>4. CASE k # 1
    <3>1. k \in 2 .. n /\ k - 1 \in 1 .. n /\ k - 1 \in 0 .. k - 1
      BY <2>1, <2>4
    <3>2. flat[k - 1] = filled[k - 1]
      BY <1>4, <3>1
    <3>3. QED
      BY <2>2, <2>4, <3>1, <3>2
  <2>5. QED
    BY <2>3, <2>4
<1>5. T \in SUBSET Nat
  OBVIOUS
<1> HIDE DEF T, Flat
<1>6. T = Nat
  BY <1>4, <1>5, AllBelow
<1>7. n \in T /\ n \in 1 .. n
  BY <1>6
<1>8. QED
  BY <1>2, <1>7 DEF T

\* A line is what a line should be: of the pieces that fit the text, whole and
\* in their order, and the line end unless the stream is full.
THEOREM LineWellFormed ==
  ASSUME NEW statement \in Statements
  PROVE  WellFormed(statement, Line(statement))
<1> DEFINE pieces == Pieces(statement)
           N == Len(pieces)
           line == Line(statement)
<1>1. PICK filled : LineFilled(statement, filled)
  BY LineSteps
<1>2. /\ pieces \in Seq(Piece) /\ N \in Nat \ {0}
      /\ pieces[N] = Str(<<"\n">>)
  BY LineSteps
<1>3. /\ filled[0] = <<>> /\ line = filled[N]
      /\ \A k \in 1 .. N : filled[k] = Insert(filled[k - 1], pieces[k])
      /\ \A k \in 0 .. N : filled[k] \in Stream
  BY <1>1 DEF LineFilled
<1> HIDE DEF pieces, N, line
<1> DEFINE kept == {k \in 1 .. N :
                      filled[k] = filled[k - 1] \o Text(pieces[k])}
           parts == [k \in 1 .. N |->
                       IF k \in kept THEN Text(pieces[k]) ELSE <<>>]
<1>4. ASSUME NEW k \in 1 .. N
      PROVE  filled[k] = filled[k - 1] \o parts[k]
  <2>1. k - 1 \in 0 .. N /\ pieces[k] \in Piece
    BY <1>2 DEF N
  <2>2. filled[k - 1] \in Stream
    BY <1>3, <2>1
  <2>3. filled[k] \in {filled[k - 1], filled[k - 1] \o Text(pieces[k])}
    BY <1>3, <2>1, <2>2, WholeOrNot
  <2>4. filled[k - 1] \o <<>> = filled[k - 1]
    BY <2>2 DEF Stream
  <2>5. QED
    BY <2>3, <2>4
<1>5. parts = [k \in 1 .. N |-> parts[k]]
  OBVIOUS
<1> HIDE DEF kept, parts
<1>6. FlattenSeq(parts) = line
  <2>1. parts[1] = filled[1]
    <3>1. 1 \in 1 .. N /\ 1 \in 0 .. N /\ 1 - 1 = 0
      BY <1>2
    <3>2. filled[1] = <<>> \o parts[1]
      BY <1>3, <1>4, <3>1
    <3>3. <<>> \o parts[1] = parts[1]
      <4>1. parts[1] \in {<<>>, Text(pieces[1])}
        BY <3>1 DEF parts
      <4>2. CASE parts[1] = <<>>
        BY <4>2
      <4>3. CASE 1 \in kept
        BY <4>3, <3>1, <3>2, <1>3 DEF parts, kept
      <4>4. QED
        BY <4>1, <4>2, <4>3, <3>1 DEF parts
    <3>4. QED
      BY <3>2, <3>3
  <2>2. ASSUME NEW k \in 2 .. N
        PROVE  filled[k] = filled[k - 1] \o parts[k]
    <3>1. k \in 1 .. N
      BY <1>2
    <3>2. QED
      BY <1>4, <3>1
  <2>3. QED
    BY <1>2, <1>3, <1>5, <2>1, <2>2, Flattened
<1>7. Len(line) < SIZE
  BY <1>2, <1>3 DEF Stream
<1>8. N \in kept \/ Len(line) = SIZE - 1
  <2>1. N \in 1 .. N /\ N \in 0 .. N /\ N - 1 \in 0 .. N
    BY <1>2
  <2>2. filled[N] = append(filled[N - 1], <<"\n">>)
    BY <1>2, <1>3, <2>1 DEF Insert, Str
  <2>3. Text(pieces[N]) = <<"\n">>
    BY <1>2 DEF Text, Str
  <2>4. CASE avail(filled[N - 1]) > 1
    BY <2>1, <2>2, <2>3, <2>4 DEF append, kept
  <2>5. CASE ~(avail(filled[N - 1]) > 1)
    <3>1. filled[N] = filled[N - 1]
      BY <2>2, <2>5 DEF append
    <3>2. QED
      BY <1>3, <2>1, <2>5, <3>1, StreamAssumption DEF avail, Stream
  <2>6. QED
    BY <2>4, <2>5
<1>9. kept \in SUBSET DOMAIN pieces /\ DOMAIN pieces = 1 .. N
  <2>1. DOMAIN pieces = 1 .. Len(pieces)
    BY <1>2
  <2>2. DOMAIN pieces = 1 .. N
    BY <2>1 DEF N
  <2>3. kept \subseteq 1 .. N
    BY DEF kept
  <2>4. QED
    BY <2>2, <2>3
<1>10. line = FlattenSeq([k \in DOMAIN pieces |->
                 IF k \in kept THEN Text(pieces[k]) ELSE <<>>])
  BY <1>6, <1>9 DEF parts
<1>11. QED
  BY <1>7, <1>8, <1>9, <1>10 DEF WellFormed, pieces, N, line
===============================================================================
