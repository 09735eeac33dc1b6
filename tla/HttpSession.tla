----------------------------- MODULE HttpSession -----------------------------
(***************************************************************************)
(* The data of one connection: what HttpData (HttpData.cpp) does with what *)
(* its client sends, and what reaches the client, in which order.          *)
(*                                                                         *)
(* Input is text as module HttpParser has it.  It may arrive in two parts, *)
(* cut anywhere.  Output is a sequence of chunks, the units in which the   *)
(* socket takes it.  handleRead is several steps, since the client goes on *)
(* sending and reading meanwhile.                                          *)
(*                                                                         *)
(* Registration, descriptors and timers are module Reactor.                *)
(***************************************************************************)
EXTENDS HttpParser

CONSTANTS
  MaxRequests,      \* bound on the requests the client sends
  MaxAheadAndCut,   \* the same, for one that sends ahead and is cut
  MaxSplits,        \* bound on the requests that arrive in two reads
  Room,             \* chunks the socket takes before its client reads
  Kinds,            \* the kinds of requests that are sent
  Clients           \* the clients there are, each the set of its habits

\* What a client may do besides sending a request in one piece and waiting
\* for the answer: send before it has read the last answer, send a request so
\* that it arrives in two reads, shut its sending side down, reset.
Habits == {"pipelines", "splits", "halfCloses", "resets"}

ASSUME SessionAssumption ==
  /\ MaxRequests \in Nat /\ MaxSplits \in Nat /\ Room \in Nat \ {0}
  /\ MaxAheadAndCut \in Nat
  /\ Kinds \subseteq AllKinds /\ Clients \subseteq SUBSET Habits

VARIABLES
  habits,           \* client: what it may do
  kind,             \* client: the requests sent, by number
  unsent,           \* client: what the last request still lacks
  splits,           \* client: the requests that did not arrive in one piece
  rx, fin,          \* socket: unread input; the client's end of input
  broken,           \* socket: the client has reset the connection
  room,             \* socket: chunks of output it takes now
  wire,             \* all chunks the socket has taken
  newIn, newOut,    \* epoll: readiness not reported yet
  interest,         \* epoll: what the descriptor is watched for
  pc,               \* where the loop thread is with this connection
  inBuffer_, outBuffer_, state_, hState_, headers_, error_, connectionState_,
  parsed,           \* the request method_ and fileName_ tell of
  events_           \* of the Channel

client == <<habits, kind, unsent, splits>>
socket == <<rx, fin, broken, room, wire>>
epoll == <<newIn, newOut, interest>>
parse == <<state_, hState_, headers_, parsed>>
data == <<inBuffer_, outBuffer_, parse, error_, connectionState_, events_>>
vars == <<client, socket, epoll, pc, data>>

Token == [id : 1 .. MaxRequests, c : Characters]
Chunk == [id : 0 .. MaxRequests, part : {"all", "head", "body", "error"}]

TypeOK ==
  /\ habits \in Clients
  /\ kind \in Seq(Kinds) /\ unsent \in Seq(Token) /\ splits \in 0 .. MaxSplits
  /\ rx \in Seq(Token) /\ fin \in BOOLEAN /\ broken \in BOOLEAN
  /\ room \in 0 .. Room /\ wire \in Seq(Chunk)
  /\ newIn \in BOOLEAN /\ newOut \in BOOLEAN
  /\ interest \in {{}, {"in"}, {"out"}, {"in", "oneshot"}}
  /\ pc \in {"idle", "read", "process", "flush", "write", "conn", "stranded",
             "closed", "expired"}
  /\ inBuffer_ \in Seq(Token) /\ outBuffer_ \in Seq(Chunk)
  /\ parsed \in 0 .. MaxRequests
  /\ state_ \in {"uri", "headers", "body", "analysis", "finish"}
  /\ hState_ \in ParseStates /\ headers_ \subseteq Token
  /\ error_ \in BOOLEAN
  /\ connectionState_ \in {"H_CONNECTED", "H_DISCONNECTING", "H_DISCONNECTED"}
  /\ events_ \subseteq {"in", "out"}

\* newEvent has registered the connection.
Init ==
  /\ habits \in Clients
  /\ kind = <<>> /\ unsent = <<>> /\ splits = 0
  /\ rx = <<>> /\ fin = FALSE /\ broken = FALSE
  /\ room = Room /\ wire = <<>>
  /\ newIn = FALSE /\ newOut = TRUE /\ interest = {"in", "oneshot"}
  /\ pc = "idle"
  /\ inBuffer_ = <<>> /\ outBuffer_ = <<>>
  /\ state_ = "uri" /\ hState_ = "H_START" /\ headers_ = {} /\ parsed = 0
  /\ error_ = FALSE /\ connectionState_ = "H_CONNECTED" /\ events_ = {}

-----------------------------------------------------------------------------
(* The client and the socket.                                              *)

\* The chunks a request is to be answered with.
Answer(i) ==
  LET Part(p) == [id |-> i, part |-> p] IN
  CASE kind[i] \in {"hello", "bare"} -> <<Part("all")>>
    [] kind[i] = "file" -> <<Part("head"), Part("body")>>
    [] kind[i] = "head" -> <<Part("head")>>
    [] kind[i] = "missing" -> <<Part("error")>>
    [] kind[i] \in Posts -> <<>>

OnWire(chunk) == \E n \in DOMAIN wire : wire[n] = chunk

Answered(i) ==
  i <= Len(kind) /\ \A n \in DOMAIN Answer(i) : OnWire(Answer(i)[n])

\* The client sends ahead, and what it sends is cut.
AheadAndCut == {"pipelines", "splits"} \subseteq habits

Connected == pc \notin {"closed", "expired"} /\ ~broken

Arrives(text) == /\ rx' = rx \o text
                 /\ newIn' = TRUE

ClientSends(k) ==
  /\ Connected /\ ~fin /\ unsent = <<>>
  /\ Len(kind) < MaxRequests
  /\ AheadAndCut => Len(kind) < MaxAheadAndCut
  /\ "pipelines" \notin habits /\ kind # <<>> =>
       /\ kind[Len(kind)] \notin Posts
       /\ Answered(Len(kind)) /\ room = Room      \* and has read it
  /\ kind' = Append(kind, k)
  /\ LET text == Text(Len(kind'), k) IN
     \E n \in DOMAIN text :
       /\ \/ n = Len(text) /\ UNCHANGED splits
          \/ /\ n < Len(text) /\ "splits" \in habits /\ splits < MaxSplits
             /\ splits' = splits + 1
       /\ unsent' = SubSeq(text, n + 1, Len(text))
       /\ Arrives(SubSeq(text, 1, n))
  /\ UNCHANGED <<habits, fin, broken, room, wire, newOut, interest, pc, data>>

ClientSendsRest ==
  /\ Connected /\ ~fin /\ unsent # <<>>
  /\ unsent' = <<>>
  /\ Arrives(unsent)
  /\ UNCHANGED <<habits, kind, splits, fin, broken, room, wire, newOut,
                 interest, pc, data>>

ClientFinishes ==
  /\ "halfCloses" \in habits
  /\ Connected /\ ~fin
  /\ fin' = TRUE /\ newIn' = TRUE
  /\ UNCHANGED <<client, rx, broken, room, wire, newOut, interest, pc, data>>

\* What the server has read stays with it; what it writes goes nowhere.
ClientResets ==
  /\ "resets" \in habits
  /\ Connected
  /\ broken' = TRUE /\ room' = 0
  /\ newIn' = TRUE /\ newOut' = TRUE
  /\ UNCHANGED <<client, rx, fin, wire, interest, pc, data>>

\* The client has read; the socket takes another chunk.
ClientReads ==
  /\ Connected /\ room < Room
  /\ room' = room + 1 /\ newOut' = TRUE
  /\ UNCHANGED <<client, rx, fin, broken, wire, newIn, interest, pc, data>>

-----------------------------------------------------------------------------
(* The handlers.                                                           *)

Least(m, n) == IF m < n THEN m ELSE n

\* Seeded fault: EAGAIN is not looked at.
WriteBlindly(chunks) ==
  /\ wire' = wire \o chunks
  /\ room' = room - Len(chunks)

\* writen: as many chunks as the socket takes.
Write(chunks) ==
  LET n == Least(room, Len(chunks)) IN
  /\ wire' = wire \o SubSeq(chunks, 1, n)
  /\ room' = room - n

\* HttpData::handleError writes past outBuffer_, straight to the socket, and
\* what the socket does not take is lost.
HandleError(id) ==
  /\ Write(<<[id |-> id, part |-> "error"]>>)
  /\ error_' = TRUE

\* epoll_wait, Epoll::getEventsRequest, Channel::handleEvents.  The entry is
\* never watched for both, so one of the two handlers runs.
Dispatch ==
  /\ pc = "idle" /\ ~broken
  /\ \/ /\ "in" \in interest /\ newIn
        /\ newIn' = FALSE
        /\ pc' = "read"
        /\ UNCHANGED newOut
     \/ /\ "out" \in interest /\ newOut /\ room > 0
        /\ newOut' = FALSE
        /\ pc' = "write"
        /\ UNCHANGED newIn
  /\ interest' = IF "oneshot" \in interest THEN {} ELSE interest
  /\ events_' = {}
  /\ UNCHANGED <<client, socket, inBuffer_, outBuffer_, parse, error_,
                 connectionState_>>

\* EPOLLERR: no handler runs, handleConn does not either, and the connection
\* is left to its timer.
IgnoreFailure ==
  /\ pc = "idle" /\ broken
  /\ interest # {} /\ newIn
  /\ newIn' = FALSE /\ newOut' = FALSE
  /\ interest' = IF "oneshot" \in interest THEN {} ELSE interest
  /\ events_' = {}
  /\ UNCHANGED <<client, socket, pc, inBuffer_, outBuffer_, parse, error_,
                 connectionState_>>

\* Seeded fault: one read, of as much as a buffer takes, and no more, although
\* EPOLLET reports once.
ReadOnce ==
  LET n == Least(Len(Request["file"]), Len(rx))
      end == fin /\ rx = <<>>
  IN
  /\ pc = "read"
  /\ rx' = SubSeq(rx, n + 1, Len(rx)) /\ newIn' = FALSE
  /\ inBuffer_' = inBuffer_ \o SubSeq(rx, 1, n)
  /\ connectionState_' = IF end THEN "H_DISCONNECTING" ELSE connectionState_
  /\ pc' = IF end THEN "flush" ELSE "process"
  /\ UNCHANGED <<client, fin, broken, room, wire, newOut, interest, outBuffer_,
                 parse, error_, events_>>

\* Line 174: after the end of the input nothing is looked at.
Late == connectionState_ = "H_DISCONNECTING"

\* HttpData::handleRead up to the parsing.  readn reads until there is nothing
\* more, and tells the end of input from that.
Read ==
  LET zero == fin IN
  /\ pc = "read" /\ (broken => Late)
  /\ rx' = <<>> /\ newIn' = FALSE
  /\ inBuffer_' = IF Late THEN <<>> ELSE inBuffer_ \o rx
  /\ connectionState_' = IF zero THEN "H_DISCONNECTING" ELSE connectionState_
  /\ pc' = IF Late \/ (zero /\ rx = <<>>) THEN "flush" ELSE "process"
  /\ UNCHANGED <<client, fin, broken, room, wire, newOut, interest, outBuffer_,
                 parse, error_, events_>>

\* readn fails, behind the input that is there; so does the answer to that.
ReadFails ==
  /\ pc = "read" /\ broken /\ ~Late
  /\ rx' = <<>> /\ newIn' = FALSE
  /\ inBuffer_' = inBuffer_ \o rx
  /\ error_' = TRUE
  /\ pc' = "flush"
  /\ UNCHANGED <<client, fin, broken, room, wire, newOut, interest, outBuffer_,
                 parse, connectionState_, events_>>

ParseURI ==
  /\ pc = "process" /\ state_ = "uri"
  /\ \E uri \in {parseURI(inBuffer_)} :
       \/ /\ uri.success
          /\ inBuffer_' = uri.str /\ parsed' = uri.id
          /\ state_' = "headers"
          /\ UNCHANGED <<pc, room, wire, error_>>
       \/ /\ ~uri.success
          /\ inBuffer_' = <<>>
          /\ HandleError(inBuffer_[1].id)
          /\ pc' = "flush"
          /\ UNCHANGED <<parsed, state_>>
  /\ UNCHANGED <<client, rx, fin, broken, epoll, outBuffer_, hState_, headers_,
                 connectionState_, events_>>

ParseHeaders ==
  /\ pc = "process" /\ state_ = "headers"
  /\ \E head \in {parseHeaders(inBuffer_, hState_, headers_)} :
       /\ hState_' = head.hState_ /\ headers_' = head.headers_
       /\ inBuffer_' = head.str
       /\ \/ /\ head.flag = "again"
             /\ pc' = "flush"
             /\ UNCHANGED <<room, wire, state_, error_>>
          \/ /\ head.flag = "error"
             /\ HandleError(parsed)
             /\ pc' = "flush"
             /\ UNCHANGED state_
          \/ /\ head.flag = "success"
             /\ state_' = IF kind[parsed] \in Posts THEN "body" ELSE "analysis"
             /\ UNCHANGED <<pc, room, wire, error_>>
  /\ UNCHANGED <<client, rx, fin, broken, epoll, outBuffer_, parsed,
                 connectionState_, events_>>

LengthKnown == \E name \in headers_ : name.c = "Content-length"

RefuseBody ==
  /\ pc = "process" /\ state_ = "body"
  /\ ~LengthKnown
  /\ HandleError(parsed)
  /\ pc' = "flush"
  /\ UNCHANGED <<client, rx, fin, broken, epoll, inBuffer_, outBuffer_, parse,
                 connectionState_, events_>>

ReceiveBody ==
  /\ pc = "process" /\ state_ = "body"
  /\ LengthKnown
  /\ \/ Len(inBuffer_) < ContentLength /\ pc' = "flush" /\ UNCHANGED state_
     \/ Len(inBuffer_) >= ContentLength /\ state_' = "analysis" /\ UNCHANGED pc
  /\ UNCHANGED <<client, socket, epoll, inBuffer_, outBuffer_, hState_,
                 headers_, parsed, error_, connectionState_, events_>>

\* analysisRequest.  /hello is assigned to outBuffer_, whatever is left there;
AnswerPage(i) ==
  /\ kind[i] \in {"hello", "bare"}
  /\ outBuffer_' = Answer(i)
  /\ state_' = "finish"
  /\ UNCHANGED <<room, wire, error_>>

\* files and heads of files are appended;
AnswerFile(i) ==
  /\ kind[i] \in {"file", "head"}
  /\ outBuffer_' = outBuffer_ \o Answer(i)
  /\ state_' = "finish"
  /\ UNCHANGED <<room, wire, error_>>

AnswerMissing(i) ==
  /\ kind[i] = "missing"
  /\ HandleError(i)
  /\ outBuffer_' \in {outBuffer_, <<>>}      \* cleared if open or mmap fails
  /\ UNCHANGED state_

\* a POST ends the connection without a word.
AnswerPost(i) ==
  /\ kind[i] \in Posts
  /\ error_' = TRUE
  /\ UNCHANGED <<room, wire, outBuffer_, state_>>

AnalysisRequest ==
  /\ pc = "process" /\ state_ = "analysis"
  /\ \/ AnswerPage(parsed) \/ AnswerFile(parsed)
     \/ AnswerMissing(parsed) \/ AnswerPost(parsed)
  /\ pc' = "flush"
  /\ UNCHANGED <<client, rx, fin, broken, epoll, inBuffer_, hState_, headers_,
                 parsed, connectionState_, events_>>

\* Seeded fault: what was sent stays in outBuffer_.
SendAgain(asked) ==
  /\ broken => outBuffer_ = <<>>
  /\ Write(outBuffer_)
  /\ outBuffer_' = IF Len(outBuffer_) <= room THEN <<>> ELSE outBuffer_
  /\ events_' = events_ \cup asked
                  \cup (IF outBuffer_' # <<>> THEN {"out"} ELSE {})

\* handleWrite without its guard; asked is what its caller adds to events_.
SendOutput(asked) ==
  /\ broken => outBuffer_ = <<>>
  /\ Write(outBuffer_)
  /\ outBuffer_' = SubSeq(outBuffer_, room - room' + 1, Len(outBuffer_))
  /\ events_' = events_ \cup asked
                  \cup (IF outBuffer_' # <<>> THEN {"out"} ELSE {})

\* Seeded fault: output is sent after an error too.
FlushAnyway ==
  /\ pc = "flush"
  /\ SendOutput({"in"})
  /\ pc' = "conn"
  /\ UNCHANGED <<client, rx, fin, broken, epoll, inBuffer_, parse, error_,
                 connectionState_>>

\* The end of handleRead, lines 249-263: after an error,
FlushNothing ==
  /\ pc = "flush" /\ error_
  /\ pc' = "conn"
  /\ UNCHANGED <<client, socket, epoll, data>>

\* without a request, or with part of one,
FlushWaiting ==
  /\ pc = "flush" /\ ~error_ /\ state_ # "finish"
  /\ SendOutput({"in"})
  /\ pc' = "conn"
  /\ UNCHANGED <<client, rx, fin, broken, epoll, inBuffer_, parse, error_,
                 connectionState_>>

\* Seeded fault: the headers are not forgotten.
ResetKeepsHeaders ==
  /\ state_' = "uri" /\ hState_' = "H_START" /\ parsed' = 0
  /\ UNCHANGED headers_

Reset ==
  /\ state_' = "uri" /\ hState_' = "H_START" /\ parsed' = 0
  /\ headers_' = {}

\* Seeded fault: what is left of the input waits for the next event.
FlushAnswerOnly ==
  /\ pc = "flush" /\ ~error_ /\ state_ = "finish"
  /\ SendOutput({})
  /\ Reset
  /\ pc' = "conn"
  /\ UNCHANGED <<client, rx, fin, broken, epoll, inBuffer_, error_,
                 connectionState_>>

\* and with an answer: reset, then handleRead once more on what is left.
FlushAnswer ==
  /\ pc = "flush" /\ ~error_ /\ state_ = "finish"
  /\ SendOutput({})
  /\ Reset
  /\ pc' = IF inBuffer_ # <<>> /\ connectionState_ # "H_DISCONNECTING"
           THEN "read" ELSE "conn"
  /\ UNCHANGED <<client, rx, fin, broken, epoll, inBuffer_, error_,
                 connectionState_>>

HandleWrite ==
  /\ pc = "write"
  /\ SendOutput({})
  /\ pc' = "conn"
  /\ UNCHANGED <<client, rx, fin, broken, epoll, inBuffer_, parse, error_,
                 connectionState_>>

\* writen fails in handleWrite, called by epoll or at the end of handleRead.
SendFails ==
  /\ pc = "write" \/ (pc = "flush" /\ ~error_)
  /\ broken /\ outBuffer_ # <<>>
  /\ events_' = {"out"} /\ error_' = TRUE
  /\ pc' = "conn"
  /\ UNCHANGED <<client, socket, epoll, inBuffer_, outBuffer_, parse,
                 connectionState_>>

\* Seeded fault: the entry stays as EPOLLONESHOT has left it.
KeepConnUnarmed ==
  /\ pc = "conn"
  /\ ~error_ /\ connectionState_ = "H_CONNECTED"
  /\ pc' = "idle"
  /\ events_' = IF "out" \in events_ THEN {"out"} ELSE {"in"}
  /\ interest' = IF interest = {} THEN {} ELSE events_'
  /\ UNCHANGED <<client, socket, newIn, newOut, inBuffer_, outBuffer_, parse,
                 error_, connectionState_>>

\* handleConn registers the connection again.  EPOLL_CTL_MOD, called when the
\* events differ, looks at the descriptor and reports what is ready already.
KeepConn ==
  /\ pc = "conn"
  /\ ~error_ /\ connectionState_ = "H_CONNECTED"
  /\ pc' = "idle"
  /\ events_' = IF "out" \in events_ THEN {"out"} ELSE {"in"}
  /\ \/ interest = events_' /\ UNCHANGED epoll
     \/ /\ interest # events_'
        /\ interest' = events_'
        /\ newIn' = (rx # <<>> \/ fin \/ broken)
        /\ newOut' = (room > 0 \/ broken)
  /\ UNCHANGED <<client, socket, inBuffer_, outBuffer_, parse, error_,
                 connectionState_>>

\* The input has ended and output is left.
LeaveConn ==
  /\ pc = "conn"
  /\ ~error_ /\ connectionState_ = "H_DISCONNECTING" /\ "out" \in events_
  /\ pc' = "stranded"
  /\ events_' = {"out"}
  /\ UNCHANGED <<client, socket, epoll, inBuffer_, outBuffer_, parse, error_,
                 connectionState_>>

\* handleClose.
DropConn ==
  /\ pc = "conn"
  /\ error_ \/ (connectionState_ = "H_DISCONNECTING" /\ "out" \notin events_)
  /\ pc' = "closed"
  /\ connectionState_' = "H_DISCONNECTED"
  /\ UNCHANGED <<client, socket, epoll, inBuffer_, outBuffer_, parse, error_,
                 events_>>

\* The timer has run out.
Expire ==
  /\ pc = "idle"
  /\ pc' = "expired"
  /\ connectionState_' = "H_DISCONNECTED"
  /\ UNCHANGED <<client, socket, epoll, inBuffer_, outBuffer_, parse, error_,
                 events_>>

HandleEvents ==
  \/ Dispatch \/ IgnoreFailure \/ Read \/ ReadFails
  \/ ParseURI \/ ParseHeaders \/ RefuseBody \/ ReceiveBody \/ AnalysisRequest
  \/ FlushNothing \/ FlushWaiting \/ FlushAnswer \/ HandleWrite \/ SendFails
  \/ KeepConn \/ LeaveConn \/ DropConn

Client ==
  \/ \E k \in Kinds : ClientSends(k)
  \/ ClientSendsRest \/ ClientFinishes \/ ClientResets \/ ClientReads

Next == HandleEvents \/ Expire \/ Client

\* The loop thread goes on, and the client takes what it is sent.
Spec == Init /\ [][Next]_vars /\ WF_vars(HandleEvents) /\ WF_vars(ClientReads)

-----------------------------------------------------------------------------
(* Properties.                                                             *)

\* The page /hello is assigned to outBuffer_ (HttpData.cpp:504).  When a
\* client is AheadAndCut, there may be output left then, and what request j was
\* still to get is gone if that is the answer to one of j + 1 .. i.
MayBeGone(j, i) ==
  AheadAndCut /\ \E k \in j + 1 .. i : kind[k] \in {"hello", "bare"}

\* Whatever the client does, it gets the answers in the order of its requests,
\* the parts of each in theirs and no chunk twice, and nothing of one before
\* the whole answers to all earlier requests, except for those a later /hello
\* has taken the place of.
AnswersInOrder ==
  \A n \in DOMAIN wire : wire[n].part # "error" =>
    LET i == wire[n].id
        earlier == {wire[m] : m \in 1 .. n - 1}
    IN
    /\ wire[n] \notin earlier
    /\ \A c \in earlier : c.id <= i
    /\ wire[n].part = "body" => [id |-> i, part |-> "head"] \in earlier
    /\ \A j \in 1 .. i - 1 :
         \/ MayBeGone(j, i)
         \/ \A c \in DOMAIN Answer(j) : Answer(j)[c] \in earlier

\* handleError announces "Connection: Close"; nothing is sent after it, even
\* if output of an earlier answer is left.
ErrorIsLast ==
  \A n \in DOMAIN wire : wire[n].part = "error" => n = Len(wire)

\* EPOLLET reports a change once.  Whenever the loop leaves a connection to
\* epoll, what it still has to read or send is going to be reported.  A client
\* that is AheadAndCut may be left waiting to write with nothing to write: the
\* second of two answers in one handleRead has taken the place of what was left
\* of the first, and events_ has kept EPOLLOUT.  It goes on as soon as the
\* socket takes output.
NoMissedEdge ==
  pc = "idle" /\ ~broken =>
    \/ /\ outBuffer_ = <<>>
       /\ "in" \in interest /\ (rx # <<>> \/ fin => newIn)
    \/ /\ outBuffer_ # <<>> \/ AheadAndCut
       /\ interest = {"out"} /\ (room > 0 => newOut)

\* No header of one request is taken for another's, and a request that has
\* arrived in one piece has all of its own, however many came before it.
HeadersKnown ==
  state_ \in {"body", "analysis"} =>
    /\ \A name \in headers_ : name.id = parsed
    /\ "splits" \notin habits =>
         Len(Names(kind[parsed])) = Cardinality(headers_)

Sent(i) == i < Len(kind) \/ (i = Len(kind) /\ unsent = <<>>)

\* A client that waits for each answer and sends each request in one piece
\* gets all its answers, unless the timer closes the connection: but for the
\* answer to a POST or a request without headers, and for those after an
\* error.
PoliteAnswered ==
  \A i \in 1 .. MaxRequests :
    (/\ habits = {}
     /\ Sent(i) /\ kind[i] \notin Posts \cup {"bare"}
     /\ \A j \in 1 .. i - 1 : kind[j] \in {"hello", "file", "head"})
      ~> (Answered(i) \/ pc = "expired")

\* The parser waits for a body that is shorter than announced, or for the
\* first header of a request that has none.
WaitsForMore ==
  /\ pc = "idle"
  /\ state_ = "body" \/ (state_ = "headers" /\ kind[parsed] = "bare")

\* What is left of the answer to request i has been overwritten, and what took
\* its place has been sent.
Overwritten(i) ==
  \E k \in i + 1 .. Len(kind) : Answered(k) /\ MayBeGone(i, k)

\* A request that was sent in full is answered sooner or later, or its
\* connection closed, or left at the end of the input, unless the parser is
\* left waiting: however the request was cut, no other state of the parser is
\* one it stays in.
Settled ==
  \A i \in 1 .. MaxRequests :
    Sent(i) ~> (\/ Answered(i) \/ Overwritten(i)
                \/ ~Connected \/ pc = "stranded" \/ WaitsForMore)

\* README.md:53: requests may be pipelined.  So no request for what there is
\* is refused.
NoneRefused ==
  \A n \in DOMAIN wire :
    wire[n].part = "error" => kind[wire[n].id] \in {"missing"} \cup Posts
=============================================================================
