------------------------------- MODULE LogStream -------------------------------
(***************************************************************************)
(* The log front end (LogStream.h, LogStream.cpp, Logging.cpp): a LOG      *)
(* statement puts its pieces one after the other into a buffer of fixed    *)
(* size, on the stack of the thread that logs.  A piece that does not fit  *)
(* is left out, whole, and a number is left out when fewer than            *)
(* kMaxNumericSize characters are free.  A stream is the sequence of the   *)
(* characters in its buffer_; nothing here has state of its own.           *)
(***************************************************************************)
EXTENDS Integers, Sequences, SequencesExt

CONSTANTS
  Characters,
  SIZE,             \* characters of a FixedBuffer (kSmallBuffer, 4000)
  kMaxNumericSize,  \* 32
  Width,            \* bits of the integer type that is formatted
  Prefix,           \* pieces of Logger's constructor: time, file and line
  Statements        \* the pieces after it, per LOG statement

ASSUME StreamAssumption ==
  /\ SIZE \in Nat \ {0, 1}
  /\ kMaxNumericSize \in Nat
  /\ Width \in Nat \ {0}
  /\ "\n" \in Characters

\* A piece: a string by its characters, an integer, or a floating-point number
\* by the characters snprintf makes of it.  bool and char are strings of one
\* character, a null pointer is the string "(NULL)"; short is converted to int.
Str(text) == [type |-> "str", text |-> text]
Real(text) == [type |-> "real", text |-> text]
Number(v) == [type |-> "int", value |-> v]

Ints == 0 - 2^(Width - 1) .. 2^(Width - 1) - 1

Piece == [type : {"str"}, text : Seq(Characters)]
           \cup [type : {"real"}, text : Seq(Characters)]
           \cup [type : {"int"}, value : Ints]

\* A statement puts pieces into the stream; kMaxNumericSize is enough for what
\* snprintf makes of a floating-point number, with the null character.
ASSUME PieceAssumption ==
  /\ Prefix \in Seq(Piece) /\ Statements \subseteq Seq(Piece)
  /\ \A pieces \in {Prefix} \cup Statements : \A n \in 1 .. Len(pieces) :
       pieces[n].type = "real" => Len(pieces[n].text) < kMaxNumericSize

-----------------------------------------------------------------------------
(* convert.                                                                *)

digits == <<"9", "8", "7", "6", "5", "4", "3", "2", "1", "0",
            "1", "2", "3", "4", "5", "6", "7", "8", "9">>

\* zero[lsd], for a digit between -9 and 9.
zero(lsd) == digits[lsd + 10]

\* C++ divides towards zero and the remainder has the sign of the dividend.
Quotient(i) == IF i >= 0 THEN i \div 10 ELSE 0 - ((0 - i) \div 10)
Remainder(i) == i - 10 * Quotient(i)

\* The characters in the order of the loop, the last digit first.
Backwards[i \in Int] ==
  <<zero(Remainder(i))>>
    \o IF Quotient(i) = 0 THEN <<>> ELSE Backwards[Quotient(i)]

Sign(v) == IF v < 0 THEN <<"-">> ELSE <<>>

\* Seeded fault: the sign is taken off first, in the type of the value.
ConvertAbsolute(v) ==
  LET abs == IF v < 0 /\ 0 - v \in Ints THEN 0 - v ELSE v
  IN Reverse((IF abs < 0 THEN <<zero(0 - Remainder(abs))>>
              ELSE Backwards[abs]) \o Sign(v))

convert(v) == Reverse(Backwards[v] \o Sign(v))

\* kMaxNumericSize is enough for every integer, with the null character.
ASSUME NumberAssumption ==
  \A v \in Ints :
    convert(v) \in Seq(Characters) /\ Len(convert(v)) < kMaxNumericSize

-----------------------------------------------------------------------------
(* FixedBuffer and LogStream.                                              *)

avail(s) == SIZE - Len(s)

append(s, text) == IF avail(s) > Len(text) THEN s \o text ELSE s

formatInteger(s, v) ==
  IF avail(s) >= kMaxNumericSize THEN s \o convert(v) ELSE s

formatReal(s, text) ==
  IF avail(s) >= kMaxNumericSize THEN s \o text ELSE s

\* operator<<
Insert(s, piece) ==
  CASE piece.type = "int" -> formatInteger(s, piece.value)
    [] piece.type = "real" -> formatReal(s, piece.text)
    [] piece.type = "str" -> append(s, piece.text)

\* A LOG statement: Logger's constructor, what the program puts in, and the
\* line end of the destructor.
Pieces(statement) == Prefix \o statement \o <<Str(<<"\n">>)>>

Line(statement) ==
  LET pieces == Pieces(statement)
      filled[n \in 0 .. Len(pieces)] ==       \* after n of the pieces
        IF n = 0 THEN <<>> ELSE Insert(filled[n - 1], pieces[n])
  IN filled[Len(pieces)]

-----------------------------------------------------------------------------
(* What a line promises, without the code's arithmetic.                    *)

Numeral[n \in Nat] ==
  (IF n < 10 THEN <<>> ELSE Numeral[n \div 10]) \o <<digits[10 + (n % 10)]>>

Decimal(v) == IF v < 0 THEN <<"-">> \o Numeral[0 - v] ELSE Numeral[v]

Text(piece) == IF piece.type = "int" THEN Decimal(piece.value) ELSE piece.text

\* Some of the pieces, whole and in their order, the line end among them
\* unless the others fill the buffer up to one character.
WellFormed(statement, line) ==
  LET pieces == Pieces(statement) IN
  /\ Len(line) < SIZE
  /\ \E kept \in SUBSET DOMAIN pieces :
       /\ line = FlattenSeq([n \in DOMAIN pieces |->
                   IF n \in kept THEN Text(pieces[n]) ELSE <<>>])
       /\ Len(pieces) \in kept \/ Len(line) = SIZE - 1
=============================================================================
