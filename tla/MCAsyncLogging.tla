--------------------------- MODULE MCAsyncLogging ----------------------------
(* AsyncLogging, with the streams of LogStream, for TLC.                   *)
EXTENDS AsyncLogging

MCCharacters == {"t", "a", "b", "c", "d", "e", "f", "-", "\n"} \cup ToSet(digits)

\* "t" stands for the time, the file and the line number.
MCPrefix == <<Str(<<"t">>)>>

\* Lines of three and of five characters: a number that leaves no room for
\* the one after it; one that leaves none for the line end; a string that is
\* longer than the buffer, before a number that still fits.
MCStatements ==
  {<<Real(<<"0">>), Number(1)>>,
   <<Number(0 - 128)>>,
   <<Str(<<"a", "b", "c", "d", "e", "f">>), Number(120)>>}
=============================================================================
