\* A client that waits for its answers, one that resets, one that sends
\* requests ahead, one whose requests arrive in pieces, and one that does both;
\* the third and the fourth may half-close too.
SPECIFICATION Spec
CONSTANTS
  MaxRequests = 3
  MaxAheadAndCut = 2
  MaxSplits = 1
  Room = 1
  Kinds = {"hello", "file", "head", "missing", "bare", "post", "lengthless"}
  Clients = {{}, {"resets"}, {"pipelines", "halfCloses"},
             {"splits", "halfCloses"}, {"pipelines", "splits"}}
INVARIANTS
  TypeOK
  AnswersInOrder
  ErrorIsLast
  NoMissedEdge
  HeadersKnown
PROPERTIES
  PoliteAnswered
  Settled
\* All requests may be sent and answered, and a closed connection does
\* nothing more.
CHECK_DEADLOCK FALSE
