------------------------------ MODULE OrderedLog ------------------------------
(***************************************************************************)
(* What the asynchronous log promises the threads that append to it: the   *)
(* characters of the lines reach the file in the order of the calls, each  *)
(* once, and what is in the file stays there.  A stretch of what waits may *)
(* be thrown away, when the log cannot keep up or the file fails, and then *)
(* it is accounted for.  Buffers, pointers, rounds and the threads do not  *)
(* appear here.                                                            *)
(***************************************************************************)
EXTENDS Naturals, Sequences, SequencesExt

CONSTANT MaxLine            \* characters of the longest line

VARIABLES appended,         \* how many characters have been appended
          waiting,          \* those not given to the file yet
          stored,           \* those given to it, in order
          missing           \* those thrown away

vars == <<appended, waiting, stored, missing>>

\* A character is its place in the log.
Init ==
  /\ appended = 0
  /\ waiting = {}
  /\ stored = <<>>
  /\ missing = {}

\* A line of n characters is appended, in one piece.
Take(n) ==
  /\ appended' = appended + n
  /\ waiting' = waiting \cup (appended + 1 .. appended + n)
  /\ UNCHANGED <<stored, missing>>

Ascending(s) == \A i, j \in DOMAIN s : i < j => s[i] < s[j]

\* The file gets the characters that wait, up to n, in their order.
Store(n) ==
  LET new == SubSeq(stored', Len(stored) + 1, Len(stored')) IN
  /\ waiting' = {k \in waiting : k > n}
  /\ stored' = stored \o new
  /\ Ascending(new) /\ ToSet(new) = waiting \ waiting'
  /\ UNCHANGED <<appended, missing>>

\* Those behind m, up to n, are thrown away.
Lose(m, n) ==
  /\ waiting' = {k \in waiting : k <= m \/ k > n}
  /\ missing' = missing \cup (waiting \ waiting')
  /\ UNCHANGED <<appended, stored>>

Next ==
  \/ \E n \in 1 .. MaxLine : Take(n)
  \/ \E n \in waiting : Store(n)
  \/ \E n \in waiting : \E m \in 0 .. n - 1 : Lose(m, n)

Spec == Init /\ [][Next]_vars
=============================================================================
