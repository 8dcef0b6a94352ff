------------------------------ MODULE Payload -------------------------------
(***************************************************************************)
(* The payload exchange before the SSH handshake:                          *)
(* internal/engine/payload.go.  The client writes a payload, then reads    *)
(* the HTTP responses of the proxies on the way and skips them, until it   *)
(* reads something that is not HTTP: that is the SSH server's, and has to  *)
(* be put back for the SSH client to read.                                 *)
(*                                                                         *)
(* Bytes are abstracted to pieces.  A line is a "head" and a "tail", the   *)
(* tail holding its line feed; a body or binary piece is one "raw" piece.  *)
(* The client can therefore be interrupted in the middle of every line.    *)
(* Each read happens under the connection's read deadline: once it passes, *)
(* every read fails until the next deadline is set.                        *)
(***************************************************************************)
EXTENDS Integers, Sequences, FiniteSets

CONSTANTS
    Exchange,        \* what the peer sends: complete sequences of lines
    MaxResponses,    \* maxPayloadHTTPResponsesToSkip, 12 in the code
    MaxHeaderLines,  \* maxPayloadHTTPHeaderLines, 80 in the code
    MaxBody,         \* maxPayloadHTTPBodyDiscardBytes, in pieces
    LineLimit        \* payloadHTTPStatusLineLimit, in pieces

ASSUME PayloadAssumption ==
    /\ MaxResponses \in Nat \ {0} /\ MaxHeaderLines \in Nat \ {0}
    /\ MaxBody \in Nat \ {0} /\ LineLimit \in Nat \ {0, 1}

VARIABLES
    wait,        \* p.Payload.WaitForResponse
    accept,      \* p.Payload.AcceptAnyStatus
    peer,        \* after its last byte the peer keeps "open", "eof" or "reset"
    late,        \* the deadline has passed before some byte came
    expired,     \* the current read deadline has passed
    sent,        \* all the pieces the peer sends
    unread,      \* those the client has not read
    line,        \* the pieces of the line being read (captured)
    place,       \* which read the client is at
    skipped,     \* attempt: responses skipped
    lines,       \* lines read by the current header loop
    body,        \* pieces of body left to discard
    last,        \* last.StatusCode, 0 before the first
    sawSuccess,
    chunked,     \* info.chunked
    length,      \* info.contentLength
    replay,      \* preloadedConn: pieces put in front of the connection
    result       \* "none", "conn", "error", or "unsent" when a write failed

world == <<wait, accept, peer, sent>>
status == <<last, sawSuccess>>
response == <<chunked, length, body, lines>>
control == <<place, skipped, expired, line, replay, result>>
payloadVars == <<world, unread, late, status, response, control>>
-----------------------------------------------------------------------------
\* A line of the stream: its kind, and the number it carries.
Line(kind, n) == <<[kind |-> kind, n |-> n, at |-> "head"],
                   [kind |-> kind, n |-> n, at |-> "tail"]>>
Raw(kind) == <<[kind |-> kind, n |-> 0, at |-> "raw"]>>

Status(code) == Line("status", code)
Field == Line("field", 0)
Length(n) == Line("length", n)
Chunked == Line("chunked", 0)
Blank == Line("blank", 0)
Size(n) == Line("size", n)
SSH == Line("ssh", 0) \o Raw("ssh")

SSHPart(s) ==
    LET out[k \in 0..Len(s)] ==
          IF k = 0 THEN << >>
          ELSE IF s[k].kind = "ssh" THEN Append(out[k - 1], s[k])
          ELSE out[k - 1]
    IN  out[Len(s)]

(***************************************************************************)
(* An exchange x: HTTP responses of s pieces in all, then what the SSH     *)
(* server sends.  Each response is a status line, header lines, a blank    *)
(* line, and a body of the announced length or in chunks.  A body may hold *)
(* anything but a line that reads like one of the protocol's own.          *)
(***************************************************************************)
Piece == [kind : {"status", "field", "length", "chunked", "blank", "size", "body", "ssh"},
          n : Nat, at : {"head", "tail", "raw"}]

LineEnds(x, s, k, kind) == k \in 1..s /\ x[k].kind = kind /\ x[k].at = "tail"

\* The lines after the k-th piece, up to the blank one that ends with the m-th.
Block(x, s, k, m, kinds) ==
    /\ m > k + 1 /\ LineEnds(x, s, m, "blank")
    /\ \A j \in (k + 1)..m : x[j].at # "raw"
    /\ \A j \in (k + 1)..(m - 2) : x[j].kind \in kinds

\* Behind the k-th piece there is a response, or the first of SSH.
Begins(x, s, k) == k = s \/ LineEnds(x, s, k + 2, "status")

\* The body that the header lines after the k-th piece, up to the m-th, announce.
Announced(x, s, k, m) ==
    LET Says(kind) == \E j \in (k + 1)..m : x[j].kind = kind
    IN  /\ Says("chunked") => ~Says("length") /\ LineEnds(x, s, m + 2, "size")
        /\ ~Says("chunked") /\ ~Says("length") => Begins(x, s, m)
        /\ \A j \in (k + 1)..m : x[j].kind = "length" =>
              m + x[j].n =< s /\ Begins(x, s, m + x[j].n)

HeaderKinds == {"field", "length", "chunked"}

WellFormed(x, s) ==
    /\ x \in Seq(Piece) /\ s \in Nat /\ s + 2 =< Len(x)
    /\ \A k \in 1..Len(x) : x[k].kind = "ssh" <=> k > s
    /\ x[s + 1].at = "head" /\ x[s + 2].at = "tail"
    /\ \A k \in 1..s :
          /\ x[k].at = "head" => k < s /\ x[k + 1] = [x[k] EXCEPT !.at = "tail"]
          /\ x[k].at = "tail" => k > 1 /\ x[k - 1] = [x[k] EXCEPT !.at = "head"]
          /\ x[k].at = "raw" => x[k].kind = "body"
    /\ Begins(x, s, 0)
    /\ \A k \in 1..s : LineEnds(x, s, k, "status") =>
          \E m \in 1..s : Block(x, s, k, m, HeaderKinds) /\ Announced(x, s, k, m)
    /\ \A k \in 1..s : LineEnds(x, s, k, "size") =>
          IF x[k].n = 0
          THEN \E m \in 1..s : Block(x, s, k, m, {"field"}) /\ Begins(x, s, m)
          ELSE LineEnds(x, s, k + x[k].n + 2, "blank") /\ LineEnds(x, s, k + x[k].n + 4, "size")

ASSUME ExchangeAssumption == \A x \in Exchange : \E s \in 0..Len(x) : WellFormed(x, s)

\* What the SSH handshake reads from the connection it is given.
Handed == replay \o unread

PayloadType ==
    /\ wait \in BOOLEAN /\ accept \in BOOLEAN /\ late \in BOOLEAN /\ expired \in BOOLEAN
    /\ peer \in {"open", "eof", "reset"}
    /\ place \in {"write", "status", "header", "fixed", "size", "chunk", "crlf", "trailer", "done"}
    /\ skipped \in 0..MaxResponses
    /\ lines \in 0..MaxHeaderLines
    /\ body \in 0..MaxBody
    /\ Len(line) < LineLimit
    /\ result \in {"none", "conn", "error", "unsent"}

\* The peer may stop anywhere in an exchange.
PayloadInit ==
    /\ \E x \in Exchange : \E n \in 0..Len(x) : sent = SubSeq(x, 1, n)
    /\ wait \in BOOLEAN /\ accept \in BOOLEAN
    /\ peer \in {"open", "eof", "reset"}
    /\ unread = sent /\ line = << >> /\ replay = << >>
    /\ expired = FALSE /\ late = FALSE
    /\ place = "write" /\ skipped = 0 /\ last = 0 /\ sawSuccess = FALSE
    /\ chunked = FALSE /\ length = -1 /\ body = 0 /\ lines = 0
    /\ result = "none"
-----------------------------------------------------------------------------
(***************************************************************************)
(* readPayloadLinePreserveBytes.  A line ends at its line feed, at the     *)
(* limit, or at the end of the stream if it has a byte; only an error      *)
(* before the first byte, a timeout or a reset is an error of the read.    *)
(***************************************************************************)
Reading == place \in {"status", "header", "size", "crlf", "trailer"}

More == ~expired /\ unread # << >>
AtEOF == ~expired /\ unread = << >> /\ peer = "eof"
Broken == ~expired /\ unread = << >> /\ peer = "reset"

Longer == Append(line, Head(unread))
Ends == Head(unread).at = "tail" \/ Len(Longer) >= LineLimit

\* A line is complete; it, and what is left after it.
LineRead == (More /\ Ends) \/ (AtEOF /\ line # << >>)
TheLine == IF More THEN Longer ELSE line
Rest == IF More THEN Tail(unread) ELSE unread

\* What a line is: its first piece says it, also of a line cut short.
Kind(l) == l[1].kind
Number(l) == l[1].n

\* The read in progress fails with a timeout, or with any other error.
TimedOut == expired
ReadFails == (AtEOF /\ line = << >>) \/ Broken

ReadPiece ==
    /\ Reading /\ More /\ ~Ends
    /\ line' = Longer /\ unread' = Tail(unread)
    /\ UNCHANGED <<world, late, status, response, place, skipped, expired, replay, result>>

\* No byte comes in time.  setPayloadReadDeadline bounds every response.
DeadlinePasses_FirstOnly ==
    /\ place \notin {"write", "done"} /\ ~expired /\ skipped = 0
    /\ expired' = TRUE /\ late' = TRUE
    /\ UNCHANGED <<world, unread, status, response, place, skipped, line, replay, result>>

DeadlinePasses ==
    /\ place \notin {"write", "done"} /\ ~expired
    /\ expired' = TRUE /\ late' = TRUE
    /\ UNCHANGED <<world, unread, status, response, place, skipped, line, replay, result>>
-----------------------------------------------------------------------------
\* Leaving consumePayloadHTTPNegotiation, which clears the read deadline.
Return(r, pieces) ==
    /\ result' = r /\ replay' = pieces
    /\ place' = "done" /\ expired' = FALSE /\ line' = << >>
    /\ UNCHANGED skipped

\* A read of the loop body goes on at another place.
Goto(where) ==
    /\ place' = where /\ line' = << >>
    /\ UNCHANGED <<skipped, expired, replay, result>>

Rejected == last >= 400 /\ ~accept /\ ~sawSuccess

Verdict == Return(IF Rejected THEN "error" ELSE "conn", << >>)

\* A response is skipped: peek for another one, under a deadline of its own.
NextResponse_FirstOnly == Verdict

NextResponse ==
    IF skipped + 1 < MaxResponses
    THEN /\ place' = "status" /\ skipped' = skipped + 1
         /\ expired' = FALSE /\ line' = << >>
         /\ UNCHANGED <<replay, result>>
    ELSE Verdict

\* WritePayload.
Write ==
    /\ place = "write"
    /\ \/ Return("unsent", << >>)
       \/ ~wait /\ Return("conn", << >>)
       \/ wait /\ Goto("status")
    /\ UNCHANGED <<world, unread, late, status, response>>

\* What wrapConnWithPreloadedBytes puts in front of the connection.
Preloaded_Nothing(pieces) == << >>
Preloaded(pieces) == pieces

Success(code) == code = 101 \/ code \in 200..399

StatusLine ==
    /\ place = "status" /\ LineRead
    /\ unread' = Rest
    /\ IF Kind(TheLine) = "status"
       THEN /\ last' = Number(TheLine)
            /\ sawSuccess' = (sawSuccess \/ Success(Number(TheLine)))
            /\ chunked' = FALSE /\ length' = -1 /\ lines' = 0
            /\ Goto("header")
       ELSE /\ Return("conn", Preloaded(TheLine))
            /\ UNCHANGED <<status, chunked, length, lines>>
    /\ UNCHANGED <<world, late, body>>

StatusTimeout ==
    /\ place = "status" /\ TimedOut
    /\ IF Rejected THEN Return("error", << >>) ELSE Return("conn", Preloaded(line))
    /\ UNCHANGED <<world, unread, late, status, response>>

StatusError ==
    /\ place = "status" /\ ReadFails
    /\ Return(IF last > 0 THEN "conn" ELSE "error", << >>)
    /\ UNCHANGED <<world, unread, late, status, response>>
-----------------------------------------------------------------------------
\* consumePayloadHTTPHeadersAndBody and the functions it calls.
Capped(n) == IF n > MaxBody THEN MaxBody ELSE n

HeaderLine ==
    /\ place = "header" /\ LineRead
    /\ unread' = Rest
    /\ chunked' = (chunked \/ Kind(TheLine) = "chunked")
    /\ length' = IF Kind(TheLine) = "length" THEN Number(TheLine) ELSE length
    /\ IF Kind(TheLine) # "blank" /\ lines + 1 < MaxHeaderLines
       THEN lines' = lines + 1 /\ Goto("header") /\ UNCHANGED body
       ELSE /\ lines' = 0
            /\ \/ chunked' /\ Goto("size") /\ UNCHANGED body
               \/ ~chunked' /\ length' > 0 /\ Goto("fixed") /\ body' = Capped(length')
               \/ ~chunked' /\ length' <= 0 /\ NextResponse /\ UNCHANGED body
    /\ UNCHANGED <<world, late, status>>

\* discardPayloadFixedLengthBody, for a whole body and for one chunk.
DiscardPiece ==
    /\ place \in {"fixed", "chunk"} /\ More
    /\ body' = body - 1
    /\ unread' = Tail(unread)
    /\ \/ body > 1 /\ Goto(place)
       \/ body = 1 /\ place = "chunk" /\ Goto("crlf")
       \/ body = 1 /\ place = "fixed" /\ NextResponse
    /\ UNCHANGED <<world, late, status, chunked, length, lines>>

\* discardPayloadChunkedBody: a size, so many pieces, an end of line.
ChunkSize ==
    /\ place = "size" /\ LineRead
    /\ unread' = Rest
    /\ \/ Kind(TheLine) # "size" /\ NextResponse /\ UNCHANGED <<body, lines>>
       \/ /\ Kind(TheLine) = "size" /\ Number(TheLine) = 0
          /\ lines' = 0 /\ Goto("trailer") /\ UNCHANGED body
       \/ /\ Kind(TheLine) = "size" /\ Number(TheLine) > 0
          /\ body' = Capped(Number(TheLine)) /\ Goto("chunk") /\ UNCHANGED lines
    /\ UNCHANGED <<world, late, status, chunked, length>>

\* The error of the read after a chunk is ignored; the next read meets it again.
ChunkEnd ==
    /\ place = "crlf"
    /\ \/ LineRead /\ unread' = Rest
       \/ (TimedOut \/ ReadFails) /\ UNCHANGED unread
    /\ lines' = lines + 1
    /\ IF lines + 1 < MaxHeaderLines THEN Goto("size") ELSE NextResponse
    /\ UNCHANGED <<world, late, status, chunked, length, body>>

\* consumePayloadTrailingHeaders
TrailerLine ==
    /\ place = "trailer" /\ LineRead
    /\ unread' = Rest
    /\ IF Kind(TheLine) # "blank" /\ lines + 1 < MaxHeaderLines
       THEN lines' = lines + 1 /\ Goto("trailer")
       ELSE UNCHANGED lines /\ NextResponse
    /\ UNCHANGED <<world, late, status, chunked, length, body>>

ConsumeFails ==
    /\ place \in {"header", "fixed", "size", "chunk", "trailer"}
    /\ \/ TimedOut /\ Return("conn", << >>)
       \/ ReadFails /\ Return("error", << >>)
    /\ UNCHANGED <<world, unread, late, status, response>>

Client ==
    \/ Write \/ ReadPiece \/ StatusLine \/ StatusTimeout \/ StatusError
    \/ HeaderLine \/ DiscardPiece \/ ChunkSize \/ ChunkEnd \/ TrailerLine
    \/ ConsumeFails

PayloadNext == Client \/ DeadlinePasses

PayloadSpec == PayloadInit /\ [][PayloadNext]_payloadVars

\* The goroutine runs, and time passes.
FairPayloadSpec == PayloadSpec /\ WF_payloadVars(Client) /\ WF_payloadVars(DeadlinePasses)
-----------------------------------------------------------------------------
(***************************************************************************)
(* A connection that is handed on still delivers all of the SSH server's   *)
(* bytes, in order and once, wherever the reader was interrupted: in the   *)
(* middle of the version line, at a limit, by a deadline.  (A version line *)
(* the peer never finishes is of no use to anyone.)                        *)
(***************************************************************************)
SSHBytesKept ==
    result = "conn" /\ Len(SSHPart(sent)) >= Len(Line("ssh", 0))
       => SSHPart(Handed) = SSHPart(sent)

\* An exchange within the limits that payload.go sets.
Heads(x, kinds) == {k \in DOMAIN x : x[k].kind \in kinds /\ x[k].at = "head"}
Count(x, kinds) == Cardinality(Heads(x, kinds))
WithinLimits(x) ==
    /\ Count(x, {"status"}) < MaxResponses
    /\ Count(x, {"field", "length", "chunked"}) < MaxHeaderLines
    /\ Count(x, {"size"}) <= MaxHeaderLines
    /\ \A k \in DOMAIN x : x[k].kind \in {"length", "size"} => x[k].n <= MaxBody

(***************************************************************************)
(* README, Payload syntax: "This supports proxy chains that return more    *)
(* than one status before the tunnel is ready".  When no deadline passes,  *)
(* SSH is given exactly the bytes after the last response, whatever the    *)
(* statuses, headers and bodies before them were.                          *)
(***************************************************************************)
ChainIsTransparent ==
    result \notin {"none", "unsent"} /\ wait /\ ~late /\ sent \in Exchange /\ WithinLimits(sent)
       => result = "conn" /\ Handed = SSHPart(sent)

\* However the peer behaves, the exchange comes to an end.
NegotiationEnds == <>(place = "done")
=============================================================================
