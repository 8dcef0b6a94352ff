---------------------------- MODULE DnsttProofs -----------------------------
(***************************************************************************)
(* Proofs about the DNSTT client, for any number of clients, queues,       *)
(* senders, packets, words and names: its life cycle, a stream through     *)
(* it, the transport that carries its packets, the DNS names that hold     *)
(* them and the messages the names are read from.                          *)
(***************************************************************************)
EXTENDS DnsttClient, DnsttStream, DnsTransport, DnsName, DnsMessage, Induction, TLAPS

\* After the deferred closes nothing of client c is open.
NothingOpen(c) == ln[c] # "open" /\ pconn[c] # "open"

Order ==
    \A c \in C :
        /\ start[c] = "none" => run[c] = "none"
        /\ done[c] => run[c] = "ended"
        /\ run[c] \in {"result", "ended"} => NothingOpen(c)
        /\ stop[c] = "ok" => done[c]

ClientInv == ClientType /\ Order

LEMMA InitClientInv == ClientInit => ClientInv
BY DEF ClientInit, ClientInv, ClientType, Order, NothingOpen, RunStep

\* Every action keeps the types of the variables.
LEMMA TypeStep == ASSUME ClientType, [ClientNext]_clientVars PROVE ClientType'
<1> USE DEF ClientType
<1>1. CASE UNCHANGED clientVars
  BY <1>1 DEF clientVars, conns
<1>2. ASSUME NEW c \in C,
             Start(c) \/ StartReturns(c) \/ CancelParent(c) \/ StopCall(c) \/ StopReturns(c)
      PROVE  ClientType'
  <2>1. CASE Start(c)
    BY <2>1 DEF Start, RunStep, conns
  <2>2. CASE StartReturns(c)
    BY <2>2 DEF StartReturns, StartReady, StartError, StartTimeout, StartCancelled, conns
  <2>3. CASE CancelParent(c)
    BY <2>3 DEF CancelParent, conns
  <2>4. CASE StopCall(c)
    BY <2>4 DEF StopCall, conns
  <2>5. CASE StopReturns(c)
    BY <2>5 DEF StopReturns, conns
  <2> QED BY <1>2, <2>1, <2>2, <2>3, <2>4, <2>5
<1>3. ASSUME NEW c \in C, Setup(c) \/ Listen(c) PROVE ClientType'
  <2>1. CASE Setup(c)
    BY <2>1 DEF Setup, Goto, RunStep
  <2>2. CASE Listen(c)
    <3>1. CASE PortFree
      <4>1. UNCHANGED <<parent, cancelled, start, errCh, done, pconn, stop>>
        BY <2>2 DEF Listen
      <4>2. run' = [run EXCEPT ![c] = "handshake"] /\ ln' = [ln EXCEPT ![c] = "open"]
        BY <2>2, <3>1 DEF Listen, Goto
      <4>3. ready' = [ready EXCEPT ![c] = TRUE] /\ closer' = [closer EXCEPT ![c] = "wait"]
        BY <2>2, <3>1 DEF Listen
      <4>4. ready' \in [C -> BOOLEAN]
        BY <4>3
      <4> QED BY <4>1, <4>2, <4>3, <4>4 DEF RunStep
    <3>2. CASE ~PortFree
      BY <2>2, <3>2 DEF Listen, Goto, RunStep
    <3> QED BY <3>1, <3>2
  <2> QED BY <1>3, <2>1, <2>2
<1>4. ASSUME NEW c \in C, Handshake(c) \/ HandshakeBroken(c) \/ AcceptFails(c) PROVE ClientType'
  BY <1>4 DEF Handshake, HandshakeBroken, AcceptFails, Goto, RunStep, conns
<1>5. ASSUME NEW c \in C, RunReturns(c) PROVE ClientType'
  BY <1>5 DEF RunReturns, Deferred, Closed, Goto, RunStep
<1>6. ASSUME NEW c \in C, RunEnds(c) PROVE ClientType'
  BY <1>6 DEF RunEnds, Goto, RunStep, conns
<1>7. ASSUME NEW c \in C, CloseOnDone(c) PROVE ClientType'
  BY <1>7 DEF CloseOnDone, Closed
<1> QED BY <1>1, <1>2, <1>3, <1>4, <1>5, <1>6, <1>7 DEF ClientNext, RunStepOf

\* ... and the order of the steps of runContext and Stop.
LEMMA OrderStep == ASSUME ClientInv, [ClientNext]_clientVars PROVE Order'
<1> USE DEF ClientInv, ClientType, Order, NothingOpen
<1>1. CASE UNCHANGED clientVars
  BY <1>1 DEF clientVars, conns
<1>2. ASSUME NEW c \in C,
             Start(c) \/ StartReturns(c) \/ CancelParent(c) \/ StopCall(c) \/ StopReturns(c)
      PROVE  Order'
  <2>1. CASE Start(c)
    BY <2>1 DEF Start, conns
  <2>2. CASE StartReturns(c)
    BY <2>2 DEF StartReturns, StartReady, StartError, StartTimeout, StartCancelled, conns
  <2>3. CASE CancelParent(c)
    BY <2>3 DEF CancelParent, conns
  <2>4. CASE StopCall(c) \/ StopReturns(c)
    BY <2>4 DEF StopCall, StopReturns, conns
  <2> QED BY <1>2, <2>1, <2>2, <2>3, <2>4
<1>3. ASSUME NEW c \in C, Setup(c) PROVE Order'
  BY <1>3 DEF Setup, Goto
<1>4. ASSUME NEW c \in C, Listen(c) PROVE Order'
  BY <1>4 DEF Listen, Goto
<1>5. ASSUME NEW c \in C, Handshake(c) \/ HandshakeBroken(c) \/ AcceptFails(c) PROVE Order'
  BY <1>5 DEF Handshake, HandshakeBroken, AcceptFails, Goto, conns
<1>6. ASSUME NEW c \in C, RunReturns(c) PROVE Order'
  BY <1>6 DEF RunReturns, Deferred, Closed, Goto
<1>7. ASSUME NEW c \in C, RunEnds(c) PROVE Order'
  BY <1>7 DEF RunEnds, Goto, conns
<1>8. ASSUME NEW c \in C, CloseOnDone(c) PROVE Order'
  BY <1>8 DEF CloseOnDone, Closed
<1> QED BY <1>1, <1>2, <1>3, <1>4, <1>5, <1>6, <1>7, <1>8 DEF ClientNext, RunStepOf

(***************************************************************************)
(* When Stop returns because the client is done, its listener and its      *)
(* packet connection are closed, whatever Start returned before.           *)
(***************************************************************************)
THEOREM CleanStopAlwaysFreesPort == ClientSpec => []CleanStopFreesPort
<1>1. ClientInv /\ [ClientNext]_clientVars => ClientInv'
  BY TypeStep, OrderStep DEF ClientInv
<1>2. ClientInv => CleanStopFreesPort
  BY DEF ClientInv, Order, NothingOpen, CleanStopFreesPort
<1> QED BY InitClientInv, <1>1, <1>2, PTL DEF ClientSpec
-----------------------------------------------------------------------------
(***************************************************************************)
(* A stream of the session.  While both the program and the session live,  *)
(* and the stream refuses no word, nothing but the server's end stops the  *)
(* down goroutine, and nothing drops what it has still to read: up closes  *)
(* the stream only after one of the three has happened.                    *)
(***************************************************************************)
StreamTypes ==
    /\ local \in [read : BOOLEAN, write : BOOLEAN]
    /\ words \in [program : Nat, server : Nat]
    /\ served \in Nat /\ inbox \in Nat

Undisturbed ==
    /\ up = "none" \/ (up = "copy" /\ stream = "open")
    /\ stream \in {"none", "open"} /\ handler # "done"
    /\ served + inbox = words.server
    /\ down \in {"close", "done"} => finished /\ inbox = 0
    /\ handler = "accepted" => down = "none"
    /\ ~local.write => down = "done"

StreamInv == StreamTypes /\ (program = "open" /\ smux = "alive" /\ ~refused => Undisturbed)

LEMMA StreamInvStep == StreamInv /\ [StreamNext]_streamVars => StreamInv'
<1> SUFFICES ASSUME StreamInv, [StreamNext]_streamVars PROVE StreamInv'
  OBVIOUS
<1> USE DEF StreamInv, StreamTypes, Undisturbed, World, Ours
<1>1. CASE OpenStream
  BY <1>1 DEF OpenStream
<1>2. CASE OpenStreamFails \/ HandlerDone
  <2>1. ~(program = "open" /\ smux = "alive" /\ ~refused) /\ World /\ UNCHANGED refused
    BY <1>2 DEF OpenStreamFails, HandlerDone, Return
  <2>2. local' = [read |-> FALSE, write |-> FALSE] /\ UNCHANGED <<words, served, inbox>>
    BY <1>2 DEF OpenStreamFails, HandlerDone, Return
  <2>3. StreamTypes'
    BY <2>2
  <2> QED BY <2>1, <2>3
<1>3. CASE UpCopies \/ UpEnds
  BY <1>3 DEF UpCopies, UpEnds
<1>4. CASE UpCloses
  <2>1. ~(program = "open" /\ smux = "alive" /\ ~refused) /\ World /\ UNCHANGED refused
    BY <1>4 DEF UpCloses
  <2>2. inbox' \in {inbox, 0} /\ UNCHANGED <<words, served>>
    BY <1>4 DEF UpCloses
  <2>3. local' \in [read : BOOLEAN, write : BOOLEAN]
    <3>1. CASE local' = local
      BY <3>1
    <3>2. CASE local' = [local EXCEPT !.read = FALSE]
      BY <3>2
    <3> QED BY <1>4, <3>1, <3>2 DEF UpCloses
  <2>4. StreamTypes'
    BY <2>2, <2>3
  <2> QED BY <2>1, <2>4
<1>5. CASE DownCopies
  BY <1>5 DEF DownCopies
<1>6. CASE DownEnds
  BY <1>6 DEF DownEnds, StreamEnd
<1>7. CASE DownCloses
  BY <1>7 DEF DownCloses
<1>8. CASE ProgramWrites \/ ProgramCloses
  BY <1>8 DEF ProgramWrites, ProgramCloses
<1>9. CASE ServerSends
  BY <1>9 DEF ServerSends
<1>10. CASE ServerFinishes \/ SessionDies
  BY <1>10 DEF ServerFinishes, SessionDies
<1>11. CASE UNCHANGED streamVars
  BY <1>11 DEF streamVars
<1> QED BY <1>1, <1>2, <1>3, <1>4, <1>5, <1>6, <1>7, <1>8, <1>9, <1>10, <1>11
        DEF StreamNext, Handling, Upward, Downward

(***************************************************************************)
(* The program reads the end of its connection only after the server's     *)
(* last word, however long the conversation and however it is interleaved, *)
(* unless it hung up, the session died or the stream refused what it wrote *)
(* after the server's end.                                                 *)
(***************************************************************************)
THEOREM ServerWordsAlwaysServed == StreamSpec => []ServerWordsServed
<1>1. StreamInit => StreamInv
  BY DEF StreamInit, StreamInv, StreamTypes, Undisturbed
<1>2. StreamInv => ServerWordsServed
  BY DEF StreamInv, StreamTypes, Undisturbed, ServerWordsServed
<1> QED BY <1>1, <1>2, StreamInvStep, PTL DEF StreamSpec
-----------------------------------------------------------------------------
USE TransportAssumption

(***************************************************************************)
(* Which steps touch the goroutines of a TLS connection, and how: a loop   *)
(* ends, or both of a new connection start after all others have ended.    *)
(***************************************************************************)
LEMMA LoopsStep ==
    ASSUME [Next]_vars
    PROVE  \/ loops' \subseteq loops /\ conn' = conn
           \/ loops = {} /\ loops' = Loop \X {conn + 1} /\ conn' = conn + 1
  <1> USE DEF kcp, poller, limits, http, tls, transport, server
  <1>1. CASE KCPSend \/ KCPReceive \/ ClosePacketConn \/ TimerExpires
    BY <1>1 DEF KCPSend, KCPReceive, ClosePacketConn, TimerExpires
  <1>2. CASE sendLoop \/ recvLoop
    BY <1>2 DEF sendLoop, SendData, SendPolled, SendTimed, recvLoop, ReceiveData, ReceiveEmpty,
                ReceiveFails
  <1>3. ASSUME NEW c \in 1..MaxConns,
               TLSWrite(c) \/ TLSWriteFails(c) \/ TLSRead(c) \/ TLSReadFails(c)
        PROVE  loops' \subseteq loops /\ conn' = conn
    BY <1>3 DEF TLSWrite, TLSWriteFails, TLSRead, TLSReadFails, Ends
  <1>4. CASE Redial
    BY <1>4 DEF Redial, LoopsDone
  <1>5. CASE HTTPSends \/ Tick
    BY <1>5 DEF HTTPSends, HTTPStep, HTTPTake, HTTPPost, HTTPAnswer, HTTPError, HTTPRecord,
                HTTPLimited, Tick
  <1>6. CASE UDPAnswer \/ UDPDouble \/ UDPLose
    BY <1>6 DEF UDPAnswer, UDPDouble, UDPLose, Datagram
  <1>7. CASE (\E how \in {"closed", "silent"} : LinkDies(how)) \/ ServerHasData
    BY <1>7 DEF LinkDies, ServerHasData
  <1>8. CASE UNCHANGED vars
    BY <1>8 DEF vars
  <1> QED
    BY <1>1, <1>2, <1>3, <1>4, <1>5, <1>6, <1>7, <1>8 DEF Next

(***************************************************************************)
(* Only the loops of the connection dialled last ever run.                 *)
(***************************************************************************)
THEOREM OneConnectionHolds == Spec => []OneConnection
  <1>1. Init => OneConnection
    BY DEF Init, OneConnection, Loop
  <1>2. OneConnection /\ [Next]_vars => OneConnection'
    <2> SUFFICES ASSUME OneConnection, [Next]_vars PROVE OneConnection'
      OBVIOUS
    <2>1. CASE loops' \subseteq loops /\ conn' = conn
      BY <2>1 DEF OneConnection
    <2>2. CASE loops' = Loop \X {conn + 1} /\ conn' = conn + 1
      BY <2>2 DEF OneConnection
    <2> QED
      BY <2>1, <2>2, LoopsStep
  <1> QED
    BY <1>1, <1>2, PTL DEF Spec
-----------------------------------------------------------------------------
(***************************************************************************)
(* notBefore never lies before a time a response has named: it is moved    *)
(* forward only, and both are counted down together.  While it is ahead,   *)
(* the senders past their check are ones that were when it was recorded.   *)
(***************************************************************************)
HeldBack ==
    /\ sender \in [Sender -> {"idle", "cleared", "posted", "limited"}]
    /\ hold \in [Sender -> Nat] /\ notBefore \in Nat /\ quiet \in Nat
    /\ quiet <= notBefore
    /\ quiet > 0 => \A i \in Sender : sender[i] = "cleared" => i \in committed

\* A sender starts a request.
Starts(i) == sender[i] # "posted" /\ sender'[i] = "posted"

\* The steps that touch the HTTP senders, and those that do not.
LEMMA SendersStep ==
    ASSUME HeldBack, [Next]_vars
    PROVE  HeldBack' /\ \A i \in Sender : Starts(i) => quiet = 0 \/ i \in committed
  <1> DEFINE Goal == HeldBack' /\ \A i \in Sender : Starts(i) => quiet = 0 \/ i \in committed
  <1> SUFFICES Goal
    OBVIOUS
  <1> USE DEF kcp, poller, limits, http, tls, transport, server
  <1>0. UNCHANGED http => Goal
    BY DEF HeldBack, Starts
  <1>1. CASE KCPSend \/ KCPReceive \/ ClosePacketConn \/ TimerExpires
    BY <1>0, <1>1 DEF KCPSend, KCPReceive, ClosePacketConn, TimerExpires
  <1>2. CASE sendLoop \/ recvLoop
    BY <1>0, <1>2 DEF sendLoop, SendData, SendPolled, SendTimed, recvLoop, ReceiveData,
                ReceiveEmpty, ReceiveFails
  <1>3. ASSUME NEW c \in 1..MaxConns,
               TLSWrite(c) \/ TLSWriteFails(c) \/ TLSRead(c) \/ TLSReadFails(c)
        PROVE  UNCHANGED http
    BY <1>3 DEF TLSWrite, TLSWriteFails, TLSRead, TLSReadFails
  <1>4. CASE Redial
    BY <1>0, <1>4 DEF Redial
  <1>5. ASSUME NEW i \in Sender, HTTPStep(i) PROVE Goal
    <2>1. CASE HTTPTake(i)
      BY <2>1 DEF HTTPTake, HeldBack, Starts
    <2>2. CASE HTTPPost(i)
      BY <2>2 DEF HTTPPost, HeldBack, Starts
    <2>3. CASE HTTPAnswer(i) \/ HTTPError(i)
      BY <2>3 DEF HTTPAnswer, HTTPError, HeldBack, Starts
    <2>4. ASSUME NEW d \in 0..MaxHold, HTTPLimited(i, d) PROVE Goal
      BY <2>4 DEF HTTPLimited, HeldBack, Starts
    <2>5. CASE HTTPRecord(i)
      BY <2>5 DEF HTTPRecord, HeldBack, Starts, Later
    <2> QED
      BY <1>5, <2>1, <2>2, <2>3, <2>4, <2>5 DEF HTTPStep
  <1>6. CASE Tick
    BY <1>6 DEF Tick, HeldBack, Starts, Down
  <1>7. CASE UDPAnswer \/ UDPDouble \/ UDPLose
    BY <1>0, <1>7 DEF UDPAnswer, UDPDouble, UDPLose, Datagram
  <1>8. CASE (\E how \in {"closed", "silent"} : LinkDies(how)) \/ ServerHasData
    BY <1>0, <1>8 DEF LinkDies, ServerHasData
  <1>9. CASE UNCHANGED vars
    BY <1>0, <1>9 DEF vars
  <1> HIDE DEF Goal
  <1> QED
    BY <1>0, <1>1, <1>2, <1>3, <1>4, <1>5, <1>6, <1>7, <1>8, <1>9 DEF Next, HTTPSends

(***************************************************************************)
(* Until the latest time a response has named only senders that had passed *)
(* their check before it was recorded post, each once, with any number of  *)
(* senders and responses in any order.                                     *)
(***************************************************************************)
THEOREM RetryAfterAlwaysHonoured == Spec => RetryAfterHonoured
  <1>1. Init => HeldBack
    BY DEF Init, HeldBack
  <1>2. HeldBack /\ [Next]_vars
          => HeldBack' /\ [\A i \in Sender : Starts(i) => quiet = 0 \/ i \in committed]_vars
    BY SendersStep
  <1> QED
    BY <1>1, <1>2, PTL DEF Spec, RetryAfterHonoured, Starts
-----------------------------------------------------------------------------
(***************************************************************************)
(* Type correctness, which is where the bounds of the queues are.  What    *)
(* the server has waiting stays within its bound only because a packet the *)
(* client's full queue drops was taken from an answer before.              *)
(***************************************************************************)
Flags == receiving \in BOOLEAN /\ stopped \in BOOLEAN /\ closed \in BOOLEAN

AnswersOK ==
    /\ answers \in [data : 0..QueueSize, empty : 0..QueueSize]
    /\ InQueue(answers) <= QueueSize
    /\ waiting \in 0..MaxData /\ produced \in 0..MaxData
    /\ waiting + answers.data <= produced

QueuesOK ==
    /\ outgoing \in 0..QueueSize /\ incoming \in 0..QueueSize
    /\ queries \in 0..QueueSize
    /\ pollChan \in 0..pollLimit
    /\ pollTimer \in {"armed", "expired"}
    /\ pollDelay \in initPollDelay..maxPollDelay
    /\ sends \in 0..MaxSends

LinkOK ==
    /\ via \in {"dot", "doh", "udp"}
    /\ conn \in 1..MaxConns
    /\ link \in {"up", "closed", "silent"}
    /\ asked \in 0..MaxInFlight
    /\ loops \subseteq Loop \X (1..MaxConns)
    /\ sender \in [Sender -> {"idle", "cleared", "posted", "limited"}]
    /\ hold \in [Sender -> 0..MaxHold]
    /\ notBefore \in 0..MaxHold /\ quiet \in 0..MaxHold /\ committed \subseteq Sender

TransportInv == Flags /\ AnswersOK /\ QueuesOK /\ LinkOK

\* A queue that is full drops what is put into it.
LEMMA EnqueuedFits ==
    ASSUME NEW n \in 0..QueueSize
    PROVE  Enqueued(n) \in 0..QueueSize
  BY DEF Enqueued

\* An answer takes a packet from the server only if the queue takes the answer.
LEMMA AnsweredKeeps ==
    ASSUME AnswersOK, Answered, UNCHANGED produced
    PROVE  AnswersOK'
  <1>1. CASE InQueue(answers) = QueueSize
    BY <1>1 DEF Answered, AnswersOK
  <1>2. CASE InQueue(answers) # QueueSize /\ waiting > 0
    <2>1. answers' = [answers EXCEPT !["data"] = @ + 1] /\ waiting' = waiting - 1
      BY <1>2 DEF Answered
    <2> QED
      BY <1>2, <2>1 DEF AnswersOK, InQueue
  <1>3. CASE InQueue(answers) # QueueSize /\ ~(waiting > 0)
    <2>1. answers' = [answers EXCEPT !["empty"] = @ + 1] /\ waiting' = waiting
      BY <1>3 DEF Answered
    <2> QED
      BY <1>3, <2>1 DEF AnswersOK, InQueue
  <1> QED
    BY <1>1, <1>2, <1>3

LEMMA FlagsStep == Flags /\ [Next]_vars => Flags'
  <1> SUFFICES ASSUME Flags, [Next]_vars PROVE Flags'
    OBVIOUS
  <1> USE DEF kcp, poller, limits, http, tls, transport, server
  <1>1. CASE UNCHANGED <<receiving, stopped, closed>>
    BY <1>1, Zenon DEF Flags
  <1>2. CASE \/ receiving' = FALSE /\ UNCHANGED <<stopped, closed>>
             \/ stopped' = TRUE /\ UNCHANGED <<receiving, closed>>
             \/ closed' = TRUE /\ UNCHANGED <<receiving, stopped>>
    BY <1>2, Zenon DEF Flags
  <1>3. CASE KCPSend \/ KCPReceive \/ ClosePacketConn \/ TimerExpires
    BY <1>1, <1>2, <1>3 DEF KCPSend, KCPReceive, ClosePacketConn, TimerExpires
  <1>4. CASE sendLoop \/ recvLoop
    BY <1>1, <1>2, <1>4 DEF sendLoop, SendData, SendPolled, SendTimed, recvLoop, ReceiveData,
                ReceiveEmpty, ReceiveFails
  <1>5. ASSUME NEW c \in 1..MaxConns,
               TLSWrite(c) \/ TLSWriteFails(c) \/ TLSRead(c) \/ TLSReadFails(c)
        PROVE  UNCHANGED <<receiving, stopped, closed>>
    BY <1>5 DEF TLSWrite, TLSWriteFails, TLSRead, TLSReadFails
  <1>6. CASE Redial
    BY <1>1, <1>2, <1>6 DEF Redial
  <1>7. CASE HTTPSends \/ Tick
    BY <1>1, <1>7 DEF HTTPSends, HTTPStep, HTTPTake, HTTPPost, HTTPAnswer, HTTPError, HTTPRecord,
                HTTPLimited, Tick
  <1>8. CASE UDPAnswer \/ UDPDouble \/ UDPLose
    BY <1>1, <1>8 DEF UDPAnswer, UDPDouble, UDPLose, Datagram
  <1>9. CASE (\E how \in {"closed", "silent"} : LinkDies(how)) \/ ServerHasData
    BY <1>1, <1>9 DEF LinkDies, ServerHasData
  <1>10. CASE UNCHANGED vars
    BY <1>1, <1>10 DEF vars
  <1> QED
    BY <1>1, <1>3, <1>4, <1>5, <1>6, <1>7, <1>8, <1>9, <1>10 DEF Next

LEMMA AnswersStep == TransportInv /\ [Next]_vars => AnswersOK'
  <1> SUFFICES ASSUME TransportInv, [Next]_vars PROVE AnswersOK'
    OBVIOUS
  <1> USE DEF kcp, poller, limits, http, tls, transport, server
  <1>0. AnswersOK /\ QueuesOK
    BY DEF TransportInv
  <1>1. UNCHANGED <<answers, waiting, produced>> => AnswersOK'
    BY <1>0 DEF AnswersOK
  <1>2. Answered /\ UNCHANGED produced => AnswersOK'
    BY <1>0, AnsweredKeeps
  <1>3. CASE KCPSend \/ KCPReceive \/ ClosePacketConn \/ TimerExpires \/ sendLoop
    BY <1>1, <1>3 DEF KCPSend, KCPReceive, ClosePacketConn, TimerExpires,
                      sendLoop, SendData, SendPolled, SendTimed
  <1>4. CASE ReceiveData
    BY <1>0, <1>4 DEF ReceiveData, AnswersOK, InQueue
  <1>5. CASE ReceiveEmpty
    BY <1>0, <1>5 DEF ReceiveEmpty, AnswersOK, InQueue
  <1>6. CASE ReceiveFails
    BY <1>1, <1>6 DEF ReceiveFails
  <1>7. ASSUME NEW c \in 1..MaxConns,
               TLSWrite(c) \/ TLSWriteFails(c) \/ TLSRead(c) \/ TLSReadFails(c)
        PROVE  AnswersOK'
    BY <1>1, <1>2, <1>7 DEF TLSWrite, TLSWriteFails, TLSRead, TLSReadFails
  <1>8. CASE Redial
    BY <1>1, <1>8 DEF Redial
  <1>9. CASE HTTPSends \/ Tick
    BY <1>1, <1>2, <1>9 DEF HTTPSends, HTTPStep, HTTPTake, HTTPPost, HTTPAnswer, HTTPError, HTTPRecord,
                HTTPLimited, Tick
  <1>10. CASE UDPAnswer \/ UDPDouble \/ UDPLose
    BY <1>1, <1>2, <1>10 DEF UDPAnswer, UDPDouble, UDPLose, Datagram
  <1>11. ASSUME NEW how \in {"closed", "silent"}, LinkDies(how) PROVE AnswersOK'
    BY <1>1, <1>11 DEF LinkDies
  <1>12. CASE ServerHasData
    BY <1>0, <1>12 DEF ServerHasData, AnswersOK, InQueue
  <1>13. CASE UNCHANGED vars
    BY <1>1, <1>13 DEF vars
  <1> QED
    BY <1>3, <1>4, <1>5, <1>6, <1>7, <1>8, <1>9, <1>10, <1>11, <1>12, <1>13 DEF Next, recvLoop

LEMMA QueuesStep == TransportInv /\ [Next]_vars => QueuesOK'
  <1> SUFFICES ASSUME TransportInv, [Next]_vars PROVE QueuesOK'
    OBVIOUS
  <1> USE DEF kcp, poller, limits, http, tls, transport, server
  <1>0. QueuesOK
    BY DEF TransportInv
  <1>1. CASE KCPSend \/ KCPReceive
    BY <1>0, <1>1, EnqueuedFits DEF KCPSend, KCPReceive, QueuesOK
  <1>2. CASE ClosePacketConn \/ TimerExpires
    BY <1>0, <1>2 DEF ClosePacketConn, TimerExpires, QueuesOK
  <1>3. CASE sendLoop
    <2>1. Transmit => queries' \in 0..QueueSize
      BY <1>0, EnqueuedFits DEF Transmit, QueuesOK
    <2>2. ResetTimer => pollTimer' = "armed" /\ pollDelay' \in initPollDelay..maxPollDelay
      BY DEF ResetTimer, initPollDelay
    <2>3. Smaller(pollDelay * pollDelayMultiplier, maxPollDelay) \in initPollDelay..maxPollDelay
      BY <1>0 DEF Smaller, QueuesOK, initPollDelay, pollDelayMultiplier
    <2> QED
      BY <1>0, <1>3, <2>1, <2>2, <2>3 DEF sendLoop, SendData, SendPolled, SendTimed, QueuesOK
  <1>4. CASE recvLoop
    BY <1>0, <1>4, EnqueuedFits
    DEF recvLoop, ReceiveData, ReceiveEmpty, ReceiveFails, PollAllowed, QueuesOK
  <1>5. ASSUME NEW c \in 1..MaxConns,
               TLSWrite(c) \/ TLSWriteFails(c) \/ TLSRead(c) \/ TLSReadFails(c)
        PROVE  QueuesOK'
    BY <1>0, <1>5 DEF TLSWrite, TLSWriteFails, TLSRead, TLSReadFails, QueuesOK
  <1>6. CASE Redial
    BY <1>0, <1>6 DEF Redial, QueuesOK
  <1>7. CASE HTTPSends \/ Tick
    BY <1>0, <1>7 DEF HTTPSends, HTTPStep, HTTPTake, HTTPPost, HTTPAnswer, HTTPError, HTTPRecord,
                HTTPLimited, Tick, QueuesOK
  <1>8. CASE UDPAnswer \/ UDPDouble \/ UDPLose
    BY <1>0, <1>8 DEF UDPAnswer, UDPDouble, UDPLose, Datagram, QueuesOK
  <1>9. CASE (\E how \in {"closed", "silent"} : LinkDies(how)) \/ ServerHasData
    BY <1>0, <1>9 DEF LinkDies, ServerHasData, QueuesOK
  <1>10. CASE UNCHANGED vars
    BY <1>0, <1>10 DEF vars, QueuesOK
  <1> QED
    BY <1>1, <1>2, <1>3, <1>4, <1>5, <1>6, <1>7, <1>8, <1>9, <1>10 DEF Next

LEMMA LinkStep == TransportInv /\ [Next]_vars => LinkOK'
  <1> SUFFICES ASSUME TransportInv, [Next]_vars PROVE LinkOK'
    OBVIOUS
  <1> USE DEF kcp, poller, limits, http, tls, transport, server
  <1>0. LinkOK
    BY DEF TransportInv
  <1>1. UNCHANGED transport => LinkOK'
    BY <1>0 DEF LinkOK
  <1>2. CASE KCPSend \/ KCPReceive \/ ClosePacketConn \/ TimerExpires
    BY <1>1, <1>2 DEF KCPSend, KCPReceive, ClosePacketConn, TimerExpires
  <1>3. CASE sendLoop \/ recvLoop
    BY <1>1, <1>3 DEF sendLoop, SendData, SendPolled, SendTimed, recvLoop, ReceiveData,
                      ReceiveEmpty, ReceiveFails
  <1>4. ASSUME NEW c \in 1..MaxConns,
               TLSWrite(c) \/ TLSWriteFails(c) \/ TLSRead(c) \/ TLSReadFails(c)
        PROVE  LinkOK'
    BY <1>0, <1>4 DEF TLSWrite, TLSWriteFails, TLSRead, TLSReadFails, Ends, LinkOK
  <1>5. CASE Redial
    BY <1>0, <1>5 DEF Redial, LinkOK
  <1>6. ASSUME NEW i \in Sender, HTTPStep(i) PROVE LinkOK'
    <2>1. CASE HTTPTake(i) \/ HTTPPost(i) \/ HTTPAnswer(i) \/ HTTPError(i)
      BY <1>0, <2>1 DEF HTTPTake, HTTPPost, HTTPAnswer, HTTPError, LinkOK
    <2>2. ASSUME NEW d \in 0..MaxHold, HTTPLimited(i, d) PROVE LinkOK'
      BY <1>0, <2>2 DEF HTTPLimited, LinkOK
    <2>3. CASE HTTPRecord(i)
      BY <1>0, <2>3 DEF HTTPRecord, Later, LinkOK
    <2> QED
      BY <1>6, <2>1, <2>2, <2>3 DEF HTTPStep
  <1>7. CASE Tick
    BY <1>0, <1>7 DEF Tick, Down, LinkOK
  <1>8. CASE UDPAnswer \/ UDPDouble \/ UDPLose
    BY <1>1, <1>8 DEF UDPAnswer, UDPDouble, UDPLose, Datagram
  <1>9. ASSUME NEW how \in {"closed", "silent"}, LinkDies(how) PROVE LinkOK'
    BY <1>0, <1>9 DEF LinkDies, LinkOK
  <1>10. CASE ServerHasData
    BY <1>1, <1>10 DEF ServerHasData
  <1>11. CASE UNCHANGED vars
    BY <1>1, <1>11 DEF vars
  <1> QED
    BY <1>2, <1>3, <1>4, <1>5, <1>6, <1>7, <1>8, <1>9, <1>10, <1>11 DEF Next, HTTPSends

(***************************************************************************)
(* Every queue keeps to its capacity and every counter to its bound, with  *)
(* queues of any size and any number of senders and connections.           *)
(***************************************************************************)
THEOREM TransportTypeCorrect == Spec => []TypeOK
  <1>1. Init => TransportInv
    <2> SUFFICES ASSUME Init PROVE TransportInv
      OBVIOUS
    <2>1. Flags
      BY Zenon DEF Init, Flags
    <2>2. AnswersOK /\ QueuesOK
      BY DEF Init, AnswersOK, QueuesOK, InQueue, initPollDelay
    <2>3. LinkOK
      BY DEF Init, LinkOK
    <2> QED
      BY <2>1, <2>2, <2>3 DEF TransportInv
  <1>2. TransportInv /\ [Next]_vars => TransportInv'
    BY FlagsStep, AnswersStep, QueuesStep, LinkStep DEF TransportInv
  <1>3. TransportInv => TypeOK
    BY Zenon DEF TransportInv, Flags, AnswersOK, QueuesOK, LinkOK, TypeOK
  <1> QED
    BY <1>1, <1>2, <1>3, PTL DEF Spec
-----------------------------------------------------------------------------
(***************************************************************************)
(* DNS names.  The arithmetic goes step by step: a division is replaced by *)
(* the bounds it obeys, and only linear facts remain.                      *)
(***************************************************************************)
\* What a division by each of the constants of the code guarantees.
LEMMA DivBounds ==
    ASSUME NEW a \in Nat
    PROVE  /\ a \div 64 \in Nat /\ 64 * (a \div 64) =< a
           /\ a \div 8 \in Nat /\ 8 * (a \div 8) =< a
           /\ a \div 5 \in Nat /\ 5 * (a \div 5) =< a
           /\ a \div 63 \in Nat /\ 63 * (a \div 63) =< a
BY SMT

\* The bytes a name may carry, and the octets they take once encoded.
LEMMA CapacityBound ==
    ASSUME NEW d \in 0..254
    PROVE  \E c \in Nat : /\ dnsNameCapacity(d) \in Nat
                          /\ 8 * dnsNameCapacity(d) =< 5 * c
                          /\ 64 * c =< 63 * (254 - d)
<1>1. (254 - d) * 63 \in Nat
  BY SMT
<1>2. /\ ((254 - d) * 63) \div 64 \in Nat
      /\ 64 * (((254 - d) * 63) \div 64) =< (254 - d) * 63
  BY <1>1, DivBounds
<1> DEFINE c == ((254 - d) * 63) \div 64
<1> HIDE DEF c
<1>3. c \in Nat /\ 64 * c =< (254 - d) * 63
  BY <1>2 DEF c
<1>4. c * 5 \in Nat
  BY <1>3, SMT
<1>5. (c * 5) \div 8 \in Nat /\ 8 * ((c * 5) \div 8) =< c * 5
  BY <1>4, DivBounds
<1>6. dnsNameCapacity(d) = (c * 5) \div 8
  BY SMT DEF dnsNameCapacity, c
<1>7. 64 * c =< 63 * (254 - d)
  BY <1>3, SMT
<1>8. 8 * dnsNameCapacity(d) =< 5 * c
  BY <1>3, <1>5, <1>6, SMT
<1> QED BY <1>3, <1>5, <1>6, <1>7, <1>8

(***************************************************************************)
(* send and NewName accept every packet up to the MTU, and the poll, for   *)
(* every domain that leaves an MTU of at least 80.                         *)
(***************************************************************************)
THEOREM PacketFits ==
    ASSUME NEW d \in 0..254, MTUFits(d), NEW n \in 0..mtu(d)
    PROVE  NameLength(n, d) =< 255 /\ n < 224
<1>1. PICK c \in Nat : /\ dnsNameCapacity(d) \in Nat
                       /\ 8 * dnsNameCapacity(d) =< 5 * c
                       /\ 64 * c =< 63 * (254 - d)
  BY CapacityBound
<1>2. Decoded(n) \in Nat /\ Decoded(n) =< dnsNameCapacity(d)
  BY <1>1, SMT DEF Decoded, mtu, Overhead, MTUFits, ClientIDLength, numPadding, numPaddingForPoll
<1>3. 8 * Decoded(n) + 4 \in Nat /\ 8 * Decoded(n) + 4 =< 5 * c + 4
  BY <1>1, <1>2, SMT
<1>4. EncodedLen(Decoded(n)) \in Nat /\ 5 * EncodedLen(Decoded(n)) =< 5 * c + 4
  BY <1>1, <1>3, DivBounds, SMT DEF EncodedLen
<1> DEFINE e == EncodedLen(Decoded(n))
<1> HIDE DEF e
<1>5. e \in Nat /\ e =< c
  <2>1. e \in Nat /\ 5 * e =< 5 * c + 4
    BY <1>4 DEF e
  <2> QED BY <1>1, <2>1, SMT
<1>6. Labels(e) \in Nat /\ 63 * Labels(e) =< e + 62
  <2>1. e + 62 \in Nat
    BY <1>5, SMT
  <2> QED BY <2>1, DivBounds DEF Labels
<1>7. 64 * e =< 63 * (254 - d)
  BY <1>1, <1>5, SMT
<1>8. e + Labels(e) =< 254 - d
  <2>1. 63 * (e + Labels(e)) =< 63 * (254 - d) + 62
    BY <1>5, <1>6, <1>7, SMT
  <2> QED BY <2>1, <1>5, <1>6, SMT
<1>9. NameLength(n, d) =< 255
  <2>1. NameLength(n, d) = e + Labels(e) + d + 1
    BY DEF NameLength, e
  <2> QED BY <2>1, <1>5, <1>6, <1>8, SMT
<1>10. n < 224
  BY <1>1, SMT DEF mtu, Overhead, ClientIDLength, numPadding
<1> QED BY <1>9, <1>10

\* The domain never changes, and a session is open only with a usable MTU.
SessionOK ==
    /\ domain \in 0..254
    /\ session = "open" => MTUFits(domain)
    /\ EveryPacketFits

(***************************************************************************)
(* Along every behaviour of a session no packet and no poll is refused.    *)
(***************************************************************************)
THEOREM EveryPacketFitsHolds == NameSpec => []EveryPacketFits
<1>1. NameInit => SessionOK
  BY DomainAssumption DEF NameInit, SessionOK, EveryPacketFits
<1>2. SessionOK /\ [NameNext]_nameVars => SessionOK'
  <2> SUFFICES ASSUME SessionOK, [NameNext]_nameVars PROVE SessionOK'
    OBVIOUS
  <2>1. CASE Open
    BY <2>1 DEF Open, SessionOK, EveryPacketFits, MTUFits, mtu
  <2>2. ASSUME NEW n \in 0..mtu(domain), Send(n) PROVE SessionOK'
    <3>1. NameLength(n, domain) =< 255 /\ n < 224
      BY <2>2, PacketFits DEF Send, SessionOK
    <3>2. NameLength(n, domain) \in Int
      BY SMT DEF NameLength, EncodedLen, Labels, Decoded, SessionOK, ClientIDLength, numPadding, numPaddingForPoll
    <3>3. SendOutcome(n, domain) = "ok"
      BY <3>1, <3>2, SMT DEF SendOutcome
    <3> QED BY <2>2, <3>3 DEF Send, SessionOK, EveryPacketFits, MTUFits, mtu
  <2>3. CASE UNCHANGED nameVars
    BY <2>3 DEF nameVars, SessionOK, EveryPacketFits, MTUFits, mtu
  <2> QED BY <2>1, <2>2, <2>3 DEF NameNext
<1>3. SessionOK => EveryPacketFits
  BY DEF SessionOK
<1> QED BY <1>1, <1>2, <1>3, PTL DEF NameSpec
-----------------------------------------------------------------------------
HIDE TransportAssumption

(***************************************************************************)
(* Messages.  Written ones hold pointers to what is before them; on their  *)
(* way one may have been bent, but it still leads into the message or to   *)
(* its end.  The reader's position stays within the message, and it reads  *)
(* no more entries than the header announces.                              *)
(***************************************************************************)
HeaderCell == [kind : {"header"}, qr : BOOLEAN, rcode : Nat, counts : [1..4 -> Nat]]

Cell ==
    UNION {HeaderCell, [kind : {"label"}, label : Seq(STRING)], [kind : {"pointer"}, to : Nat],
           [kind : {"terminator"}], [kind : {"rest"}, type : STRING, data : Seq(Nat)],
           [kind : {"padding"}]}

\* On its way a message holds pointers to what is before them; a resolver may
\* have bent one.
Outbound == {"write", "overflow", "travel"}

WireOK ==
    /\ phase \in Outbound \cup {"read", "failed", "done"}
    /\ wire \in Seq(Cell)
    /\ wire # << >> => wire[1] \in HeaderCell
    /\ phase = "travel" => wire # << >>

PointersOK ==
    \A k \in 1..Len(wire) : wire[k].kind = "pointer" =>
       IF phase \in Outbound THEN wire[k].to < k ELSE wire[k].to =< Len(wire)

WriterOK ==
    /\ message \in Messages /\ toWrite \in Seq(EntryType)
    /\ phase = "write" =>
          \A s \in DOMAIN nameCache : nameCache[s] \in Nat /\ nameCache[s] < Len(wire)

ReaderOK ==
    /\ pos \in 0..Len(wire) /\ seekTo \in 0..Len(wire)
    /\ numPointers \in 0..compressionPointerLimit
    /\ DOMAIN read = 1..4
    /\ \A i \in 1..4 : \E S : read[i] \in Seq(S)
    /\ wire # << >> => \A i \in 1..4 : Len(read[i]) =< wire[1].counts[i]
    /\ phase \in Outbound => /\ pos = 0 /\ seekTo = 0 /\ numPointers = 0
                             /\ read = [i \in 1..4 |-> << >>]

MessageInv == WireOK /\ PointersOK /\ WriterOK /\ ReaderOK
-----------------------------------------------------------------------------
LEMMA SmallMod ==
    ASSUME NEW n \in Nat, NEW m \in Nat \ {0}, n < m
    PROVE  n % m = n
  OBVIOUS

LEMMA PointerCell ==
    ASSUME NEW c \in Cell, c.kind = "pointer"
    PROVE  c.to \in Nat
  BY DEF Cell, HeaderCell

LEMMA MadeCells ==
    /\ \A m \in Messages : Header(m) \in HeaderCell
    /\ HeaderCell \subseteq Cell
    /\ \A l \in Seq(STRING) : Label(l) \in Cell /\ Label(l).kind # "pointer"
    /\ \A n \in Nat : Pointer(n) \in Cell /\ Pointer(n).to = n
    /\ Terminator \in Cell /\ Terminator.kind # "pointer"
    /\ \A e \in EntryType : Rest(e) \in Cell /\ Rest(e).kind # "pointer"
    /\ Padding \in Cell /\ Padding.kind # "pointer"
    /\ \A c \in HeaderCell : c.kind = "header"
  <1>1. \A m \in Messages : Header(m) \in HeaderCell
    BY MessageAssumption DEF Header, HeaderCell
  <1>2. HeaderCell \subseteq Cell /\ \A c \in HeaderCell : c.kind = "header"
    BY DEF Cell, HeaderCell
  <1>3. \A l \in Seq(STRING) : Label(l) \in Cell /\ Label(l).kind # "pointer"
    BY DEF Cell, Label
  <1>4. \A n \in Nat : Pointer(n) \in Cell /\ Pointer(n).to = n
    BY DEF Cell, Pointer
  <1>5. Terminator \in Cell /\ Terminator.kind # "pointer" /\ Padding \in Cell /\ Padding.kind # "pointer"
    BY DEF Cell, Terminator, Padding
  <1>6. \A e \in EntryType : Rest(e) \in Cell /\ Rest(e).kind # "pointer"
    BY DEF Cell, Rest, EntryType
  <1> QED
    BY <1>1, <1>2, <1>3, <1>4, <1>5, <1>6

LEMMA VerbatimBound ==
    ASSUME NEW name \in Seq(Seq(STRING))
    PROVE  /\ Verbatim(name) \in 0..Len(name)
           /\ Verbatim(name) # Len(name) => Cached(name, Verbatim(name) + 1)
  <1> DEFINE known == {i \in 1..Len(name) : Cached(name, i)}
  <1>1. CASE known = {}
    BY <1>1 DEF Verbatim
  <1>2. CASE known # {}
    <2>1. known \subseteq Nat /\ known \subseteq 1..Len(name)
      OBVIOUS
    <2>2. Verbatim(name) = Min(known) - 1
      BY <1>2 DEF Verbatim
    <2>3. \A i \in known : Cached(name, i)
      OBVIOUS
    <2> HIDE DEF known
    <2>4. Min(known) \in known
      BY <1>2, <2>1, MinIsLeast
    <2>5. Min(known) \in 1..Len(name)
      BY <2>1, <2>4, Zenon
    <2>6. Verbatim(name) \in 0..Len(name) /\ Verbatim(name) + 1 = Min(known)
      BY <2>2, <2>5
    <2>7. Cached(name, Min(known))
      BY <2>3, <2>4, Zenon
    <2> QED
      BY <2>6, <2>7, Zenon
  <1> QED
    BY <1>1, <1>2

\* The cells of a name, of which only the last can be a pointer, to a cell before.
LEMMA NameCellsOK ==
    ASSUME MessageInv, phase = "write", NEW name \in Seq(Seq(STRING))
    PROVE  /\ NameCells(name) \in Seq(Cell)
           /\ Len(NameCells(name)) = Verbatim(name) + 1
           /\ \A k \in 1..Len(NameCells(name)) : NameCells(name)[k].kind = "pointer" =>
                 NameCells(name)[k].to < Len(wire)
  <1> DEFINE n == Verbatim(name)
             verbatim == [i \in 1..n |-> Label(name[i])]
             end == IF n = Len(name) THEN Terminator
                    ELSE Pointer(nameCache[String(Suffix(name, n + 1))] % PointerRange)
  <1>1. n \in 0..Len(name) /\ (n # Len(name) => Cached(name, n + 1))
    BY VerbatimBound
  <1>2. end \in Cell /\ (end.kind = "pointer" => end.to < Len(wire))
    <2>1. CASE n = Len(name)
      BY <2>1, MadeCells
    <2>2. CASE n # Len(name)
      <3> DEFINE o == nameCache[String(Suffix(name, n + 1))]
      <3>1. o \in Nat /\ o < Len(wire) /\ o < PointerRange
        BY <1>1, <2>2 DEF Cached, MessageInv, WriterOK
      <3> HIDE DEF o
      <3>2. o % PointerRange = o
        <4>1. PointerRange \in Nat \ {0}
          BY MessageAssumption
        <4> QED
          BY <3>1, <4>1, SmallMod, Zenon
      <3>3. end = Pointer(o)
        BY <2>2, <3>2 DEF o
      <3> HIDE DEF end
      <3>4. Pointer(o) \in Cell /\ Pointer(o).to = o
        BY <3>1, MadeCells
      <3> QED
        BY <3>1, <3>3, <3>4
    <2> QED
      BY <2>1, <2>2
  <1>3. verbatim \in Seq(Cell) /\ Len(verbatim) = n /\ \A k \in 1..n : verbatim[k].kind # "pointer"
    <2>1. \A i \in 1..n : name[i] \in Seq(STRING)
      BY <1>1
    <2>2. \A i \in 1..n : Label(name[i]) \in Cell /\ Label(name[i]).kind # "pointer"
      BY <2>1, MadeCells
    <2> HIDE DEF n
    <2> QED
      BY <1>1, <2>2
  <1>4. NameCells(name) = verbatim \o <<end>>
    BY DEF NameCells
  <1> HIDE DEF verbatim, end, n
  <1>5. verbatim \o <<end>> = Append(verbatim, end) /\ n \in Nat
    BY <1>1, <1>2, <1>3
  <1>6. /\ Append(verbatim, end) \in Seq(Cell) /\ Len(Append(verbatim, end)) = n + 1
        /\ \A k \in 1..n : Append(verbatim, end)[k] = verbatim[k]
        /\ Append(verbatim, end)[n + 1] = end
    BY <1>2, <1>3, <1>5
  <1>7. ASSUME NEW k \in 1..n + 1, Append(verbatim, end)[k].kind = "pointer"
        PROVE  Append(verbatim, end)[k].to < Len(wire)
    <2>1. k \in 1..n \/ k = n + 1
      BY <1>5
    <2> QED
      BY <1>2, <1>3, <1>6, <1>7, <2>1
  <1> QED
    BY <1>4, <1>5, <1>6, <1>7 DEF n

-----------------------------------------------------------------------------
LEMMA MessageInvInit == MessageInit => MessageInv
  <1> SUFFICES ASSUME MessageInit PROVE MessageInv
    OBVIOUS
  <1> USE DEF MessageInit
  <1>1. wire = << >> /\ Len(wire) = 0 /\ DOMAIN nameCache = {} /\ phase = "write"
    OBVIOUS
  <1>2. WireOK /\ PointersOK
    BY <1>1 DEF WireOK, PointersOK, Outbound
  <1>3. WriterOK
    <2>1. message.sections \in [1..4 -> Seq(EntryType)]
      BY MessageAssumption
    <2>2. toWrite \in Seq(EntryType)
      BY <2>1
    <2> QED
      BY <1>1, <2>2 DEF WriterOK
  <1>4. ReaderOK
    <2>1. \A i \in 1..4 : read[i] \in Seq(Nat)
      OBVIOUS
    <2> QED
      BY <1>1, <2>1, MessageAssumption DEF ReaderOK
  <1> QED
    BY <1>2, <1>3, <1>4 DEF MessageInv

\* The builder's steps.
LEMMA WriteHeaderKeeps == MessageInv /\ WriteHeader => MessageInv'
  <1> SUFFICES ASSUME MessageInv, WriteHeader PROVE MessageInv'
    OBVIOUS
  <1>1. UNCHANGED <<message, nameCache, toWrite, pos, numPointers, seekTo, read>>
    BY DEF WriteHeader, ReaderIdle
  <1>2. CASE wire' = wire
    <2>1. phase = "write" /\ phase' \in {"write", "overflow"}
      BY <1>2 DEF WriteHeader
    <2> QED
      BY <1>1, <1>2, <2>1
      DEF MessageInv, WireOK, PointersOK, WriterOK, ReaderOK, Outbound
  <1>3. CASE wire' = <<Header(message)>> /\ phase' = phase
    <2>1. phase = "write" /\ wire = << >>
      BY DEF WriteHeader
    <2>2. Header(message) \in HeaderCell /\ Header(message) \in Cell
          /\ Header(message).kind = "header"
      BY MadeCells DEF MessageInv, WriterOK
    <2>3. Len(wire') = 1 /\ wire'[1] = Header(message) /\ wire' \in Seq(Cell)
      BY <1>3, <2>2
    <2>4. WireOK' /\ PointersOK'
      BY <1>3, <2>1, <2>2, <2>3 DEF WireOK, PointersOK, Outbound
    <2>5. WriterOK'
      BY <1>1, <1>3, <2>1, <2>3 DEF MessageInv, WriterOK
    <2>6. wire'[1].counts \in [1..4 -> Nat]
      BY <2>2, <2>3 DEF HeaderCell
    <2>7. read = [i \in 1..4 |-> << >>] /\ pos = 0 /\ seekTo = 0 /\ numPointers = 0
      BY <2>1 DEF MessageInv, ReaderOK, Outbound
    <2>8. ReaderOK'
      BY <1>1, <2>3, <2>6, <2>7 DEF MessageInv, ReaderOK
    <2> QED
      BY <2>4, <2>5, <2>8 DEF MessageInv
  <1> QED
    BY <1>2, <1>3 DEF WriteHeader

LEMMA WriteEntryKeeps == MessageInv /\ WriteEntry => MessageInv'
  <1> SUFFICES ASSUME MessageInv, WriteEntry PROVE MessageInv'
    OBVIOUS
  <1>0. /\ phase = "write" /\ wire # << >> /\ toWrite # << >>
        /\ UNCHANGED <<message, pos, numPointers, seekTo, read>>
    BY DEF WriteEntry, ReaderIdle
  <1>1. CASE phase' = "overflow" /\ UNCHANGED <<wire, nameCache, toWrite>>
    BY <1>0, <1>1 DEF MessageInv, WireOK, PointersOK, WriterOK, ReaderOK, Outbound
  <1>2. CASE phase' # "overflow"
    <2> DEFINE e == Head(toWrite)
               cells == NameCells(e.name)
               n == Verbatim(e.name)
    <2>1. /\ WriteName(e.name) /\ toWrite' = Tail(toWrite) /\ phase' = phase
          /\ wire' = wire \o cells \o <<Rest(e)>>
      BY <1>2 DEF WriteEntry
    <2>2. toWrite \in Seq(EntryType) /\ e \in EntryType /\ Tail(toWrite) \in Seq(EntryType)
      BY <1>0 DEF MessageInv, WriterOK
    <2>3. e.name \in Seq(Seq(STRING))
      BY <2>2 DEF EntryType
    <2>4. /\ cells \in Seq(Cell) /\ Len(cells) = n + 1 /\ n \in Nat
          /\ \A k \in 1..Len(cells) : cells[k].kind = "pointer" => cells[k].to < Len(wire)
      BY <1>0, <2>3, NameCellsOK, VerbatimBound
    <2>5. Rest(e) \in Cell /\ Rest(e).kind # "pointer"
      BY <2>2, MadeCells
    <2> HIDE DEF e, cells, n
    <2>6. wire \in Seq(Cell) /\ Len(wire) \in Nat /\ Len(wire) > 0
      BY <1>0 DEF MessageInv, WireOK
    <2>7. /\ wire' \in Seq(Cell) /\ Len(wire') = Len(wire) + n + 2
          /\ \A k \in 1..Len(wire) : wire'[k] = wire[k]
          /\ \A k \in 1..n + 1 : wire'[Len(wire) + k] = cells[k]
          /\ wire'[Len(wire) + n + 2] = Rest(e)
      <3> DEFINE front == wire \o cells
      <3>1. /\ front \in Seq(Cell) /\ Len(front) = Len(wire) + n + 1
            /\ \A k \in 1..Len(wire) : front[k] = wire[k]
            /\ \A k \in 1..n + 1 : front[Len(wire) + k] = cells[k]
        BY <2>4, <2>6
      <3> HIDE DEF front
      <3>2. wire' = front \o <<Rest(e)>> /\ <<Rest(e)>> \in Seq(Cell) /\ Len(<<Rest(e)>>) = 1
        BY <2>1, <2>5 DEF front
      <3>3. /\ wire' \in Seq(Cell) /\ Len(wire') = Len(front) + 1
            /\ \A k \in 1..Len(front) : wire'[k] = front[k]
            /\ wire'[Len(front) + 1] = Rest(e)
        BY <3>1, <3>2
      <3>4. \A k \in 1..n + 1 : Len(wire) + k \in 1..Len(front)
        BY <2>4, <2>6, <3>1
      <3>5. \A k \in 1..Len(wire) : k \in 1..Len(front)
        BY <2>4, <2>6, <3>1
      <3> QED
        BY <2>4, <2>6, <3>1, <3>3, <3>4, <3>5
    <2>8. WireOK'
      BY <1>0, <2>1, <2>6, <2>7 DEF MessageInv, WireOK
    <2>9. PointersOK'
      <3>1. ASSUME NEW k \in 1..Len(wire'), wire'[k].kind = "pointer" PROVE wire'[k].to < k
        <4>1. CASE k \in 1..Len(wire)
          BY <1>0, <2>7, <3>1, <4>1 DEF MessageInv, PointersOK, Outbound
        <4>2. CASE k > Len(wire) /\ k # Len(wire) + n + 2
          <5> DEFINE j == k - Len(wire)
          <5>1. j \in 1..n + 1 /\ k = Len(wire) + j
            <6> DEFINE len == Len(wire)
            <6>1. len \in Nat /\ n \in Nat /\ k \in 1..len + n + 2
              BY <2>4, <2>6, <2>7
            <6> HIDE DEF len
            <6>2. k > len /\ k # len + n + 2
              BY <4>2 DEF len
            <6>3. k - len \in 1..n + 1 /\ k = len + (k - len)
              BY <6>1, <6>2
            <6> QED
              BY <6>3 DEF len
          <5> HIDE DEF j
          <5>2. cells[j].to < Len(wire) /\ cells[j] \in Cell /\ cells[j].kind = "pointer"
            BY <2>4, <2>7, <3>1, <5>1
          <5>3. cells[j].to \in Nat
            BY <5>2, PointerCell
          <5> QED
            BY <2>6, <2>7, <5>1, <5>2, <5>3
        <4>3. CASE k = Len(wire) + n + 2
          BY <2>5, <2>7, <3>1, <4>3
        <4> QED
          BY <2>4, <2>6, <2>7, <4>1, <4>2, <4>3
      <3> QED
        BY <1>0, <2>1, <3>1 DEF PointersOK, Outbound
    <2>10. WriterOK'
      <3>1. ASSUME NEW s \in DOMAIN nameCache'
            PROVE  nameCache'[s] \in Nat /\ nameCache'[s] < Len(wire')
        <4> DEFINE S == {String(Suffix(e.name, i)) : i \in 1..n}
                   at(t) == CHOOSE i \in 1..n : t = String(Suffix(e.name, i))
                   new == [t \in S |-> Len(wire) + at(t) - 1]
        <4>1. nameCache' = [t \in DOMAIN new \cup DOMAIN nameCache |->
                              IF t \in DOMAIN new THEN new[t] ELSE nameCache[t]]
          BY <2>1 DEF WriteName, n
        <4>2. CASE s \in S
          <5>1. at(s) \in 1..n
            BY <4>2
          <5>2. nameCache'[s] = Len(wire) + at(s) - 1
            BY <4>1, <4>2
          <5> HIDE DEF at
          <5> QED
            BY <2>4, <2>6, <2>7, <5>1, <5>2
        <4>3. CASE s \notin S
          <5>1. s \in DOMAIN nameCache /\ nameCache'[s] = nameCache[s]
            BY <3>1, <4>1, <4>3
          <5>2. nameCache[s] \in Nat /\ nameCache[s] < Len(wire)
            BY <1>0, <5>1 DEF MessageInv, WriterOK
          <5> QED
            BY <2>4, <2>6, <2>7, <5>1, <5>2
        <4> QED
          BY <4>2, <4>3
      <3> QED
        BY <1>0, <2>1, <2>2, <3>1 DEF MessageInv, WriterOK
    <2>11. ReaderOK'
      <3>1. wire'[1] = wire[1]
        BY <2>6, <2>7
      <3>2. pos = 0 /\ seekTo = 0 /\ numPointers = 0 /\ read = [i \in 1..4 |-> << >>]
        BY <1>0 DEF MessageInv, ReaderOK, Outbound
      <3>3. pos' \in 0..Len(wire') /\ seekTo' \in 0..Len(wire') /\ numPointers' = numPointers
        <4>1. 0 \in 0..Len(wire')
          BY <2>7
        <4> QED
          BY <1>0, <3>2, <4>1
      <3>4. read' = read /\ pos' = 0 /\ seekTo' = 0
        BY <1>0, <3>2
      <3>5. \A i \in 1..4 : Len(read[i]) =< wire'[1].counts[i]
        BY <1>0, <3>1 DEF MessageInv, ReaderOK
      <3> QED
        BY <3>2, <3>3, <3>4, <3>5 DEF MessageInv, ReaderOK
    <2> QED
      BY <2>8, <2>9, <2>10, <2>11 DEF MessageInv
  <1> QED
    BY <1>1, <1>2 DEF WriteEntry

LEMMA WrittenKeeps == MessageInv /\ Written => MessageInv'
  BY DEF MessageInv, WireOK, PointersOK, WriterOK, ReaderOK, Outbound,
         Written, WriterIdle, ReaderIdle

\* A message arrives: with its own header, if with any, and pointers into it.
LEMMA ArrivesKeeps ==
    ASSUME MessageInv, NEW w, NEW f, Arrives(w, f), w \in Seq(Cell), w # << >> => w[1] = wire[1],
           w # << >> => wire # << >>,
           \A k \in 1..Len(w) : w[k].kind = "pointer" => w[k].to =< Len(w)
    PROVE  MessageInv'
  <1>1. /\ phase = "travel" /\ phase' = "read" /\ wire' = w
        /\ UNCHANGED <<message, toWrite, pos, numPointers, seekTo, read>>
    BY DEF Arrives, WriterIdle, ReaderIdle
  <1>2. WireOK' /\ PointersOK' /\ WriterOK'
    BY <1>1 DEF MessageInv, WireOK, PointersOK, WriterOK, Outbound
  <1>3. pos = 0 /\ seekTo = 0 /\ pos' = 0 /\ seekTo' = 0 /\ read' = read /\ numPointers' = numPointers
    BY <1>1 DEF MessageInv, ReaderOK, Outbound
  <1>4. 0 \in 0..Len(w)
    OBVIOUS
  <1>5. w # << >> => \A i \in 1..4 : Len(read[i]) =< w[1].counts[i]
    BY DEF MessageInv, ReaderOK
  <1>6. ReaderOK'
    BY <1>1, <1>3, <1>4, <1>5 DEF MessageInv, ReaderOK, Outbound
  <1> QED
    BY <1>2, <1>6 DEF MessageInv

LEMMA TravelKeeps == MessageInv /\ Travel => MessageInv'
  <1> SUFFICES ASSUME MessageInv, Travel PROVE MessageInv'
    OBVIOUS
  <1>1. phase = "travel"
    BY DEF Travel, Cut, Repoint, Arrives
  <1>2. wire \in Seq(Cell) /\ Len(wire) \in Nat
    BY DEF MessageInv, WireOK
  <1>3. ASSUME NEW k \in 1..Len(wire), wire[k].kind = "pointer"
        PROVE  wire[k].to \in Nat /\ wire[k].to < k
    BY <1>1, <1>2, <1>3, PointerCell DEF MessageInv, PointersOK, Outbound
  <1>4. CASE Arrives(wire, "whole")
    <2>1. \A k \in 1..Len(wire) : wire[k].kind = "pointer" => wire[k].to =< Len(wire)
      BY <1>2, <1>3
    <2> QED
      BY <1>2, <1>4, <2>1, ArrivesKeeps
  <1>5. CASE Arrives(Append(wire, Padding), "padded")
    <2> DEFINE w == Append(wire, Padding)
    <2>1. Padding \in Cell /\ Padding.kind # "pointer"
      BY MadeCells
    <2>2. /\ w \in Seq(Cell) /\ Len(w) = Len(wire) + 1
          /\ \A k \in 1..Len(wire) : w[k] = wire[k]
          /\ w[Len(wire) + 1] = Padding
      BY <1>2, <2>1
    <2>3. wire # << >>
      BY <1>1 DEF MessageInv, WireOK
    <2>4. w[1] = wire[1]
      BY <1>2, <2>2, <2>3
    <2> HIDE DEF w
    <2>5. \A k \in 1..Len(w) : k \in 1..Len(wire) \/ k = Len(wire) + 1
      BY <1>2, <2>2
    <2>6. \A k \in 1..Len(w) : w[k].kind = "pointer" => w[k].to =< Len(w)
      BY <1>2, <1>3, <2>1, <2>2, <2>5
    <2>7. Arrives(w, "padded")
      BY <1>5 DEF w
    <2> QED
      BY <2>2, <2>3, <2>4, <2>6, <2>7, ArrivesKeeps
  <1>6. CASE Cut
    <2>1. PICK n \in 0..Len(wire) - 1 : Arrives(SubSeq(wire, 1, n), "cut")
      BY <1>6 DEF Cut
    <2> DEFINE w == SubSeq(wire, 1, n)
    <2>2. w \in Seq(Cell) /\ Len(w) = n /\ \A k \in 1..n : w[k] = wire[k]
      BY <1>2, <2>1
    <2> HIDE DEF w
    <2>3. \A k \in 1..n : k \in 1..Len(wire)
      BY <1>2, <2>1
    <2>4. \A k \in 1..Len(w) : w[k].kind = "pointer" => w[k].to =< Len(w)
      BY <1>2, <1>3, <2>2, <2>3
    <2>5. w # << >> => w[1] = wire[1] /\ wire # << >>
      BY <1>2, <2>1, <2>2
    <2>6. Arrives(w, "cut")
      BY <2>1 DEF w
    <2> QED
      BY <2>2, <2>4, <2>5, <2>6, ArrivesKeeps
  <1>7. CASE Repoint
    <2>1. PICK i \in Cells({"pointer", "terminator"}),
               to \in Cells({"label", "pointer", "terminator"}) \cup {Len(wire) + 1} :
             Arrives([wire EXCEPT ![i] = Pointer(to - 1)], "repointed")
      BY <1>7 DEF Repoint
    <2> DEFINE w == [wire EXCEPT ![i] = Pointer(to - 1)]
    <2>2. i \in 1..Len(wire) /\ wire[i].kind # "header"
      BY DEF Cells
    <2>3. to - 1 \in Nat /\ to - 1 =< Len(wire)
      BY <1>2 DEF Cells
    <2>4. Pointer(to - 1) \in Cell /\ Pointer(to - 1).to = to - 1
      BY <2>3, MadeCells
    <2>5. /\ w \in Seq(Cell) /\ Len(w) = Len(wire) /\ w[i] = Pointer(to - 1)
          /\ \A k \in 1..Len(wire) : k # i => w[k] = wire[k]
      BY <1>2, <2>2, <2>4
    <2>6. wire # << >> /\ i # 1
      BY <1>2, <2>2, MadeCells DEF MessageInv, WireOK
    <2>7. w[1] = wire[1]
      BY <1>2, <2>2, <2>5, <2>6
    <2> HIDE DEF w
    <2>8. Arrives(w, "repointed")
      BY <2>1 DEF w
    <2>9. \A k \in 1..Len(w) : w[k].kind = "pointer" => w[k].to =< Len(w)
      BY <1>2, <1>3, <2>3, <2>4, <2>5
    <2> QED
      BY <2>5, <2>6, <2>7, <2>8, <2>9, ArrivesKeeps
  <1> QED
    BY <1>4, <1>5, <1>6, <1>7 DEF Travel

-----------------------------------------------------------------------------
\* Failing leaves everything but the phase.
LEMMA FailedKeeps == MessageInv /\ phase = "read" /\ Failed => MessageInv'
  BY DEF MessageInv, WireOK, PointersOK, WriterOK, ReaderOK, Outbound,
         Failed, WriterIdle, ReaderIdle

\* A step of the reader leaves the message alone.
LEMMA ReaderKeeps ==
    ASSUME MessageInv, phase = "read", StillReading, ReaderOK'
    PROVE  MessageInv'
  BY DEF MessageInv, WireOK, PointersOK, WriterOK, Outbound, StillReading, WriterIdle

LEMMA SectionShort ==
    ASSUME MessageInv, InEntry
    PROVE  /\ Section \in 1..4 /\ wire # << >> /\ wire[1].counts \in [1..4 -> Nat]
           /\ Len(read[Section]) < wire[1].counts[Section]
  <1> DEFINE short == {i \in 1..4 : Len(read[i]) < wire[1].counts[i]}
  <1>1. Section = (IF short = {} THEN 5 ELSE Min(short)) /\ Section # 5
    BY DEF Section, InEntry
  <1>2. short # {} /\ short \subseteq Nat
    BY <1>1
  <1>3. \A i \in short : i \in 1..4 /\ Len(read[i]) < wire[1].counts[i]
    OBVIOUS
  <1> HIDE DEF short
  <1>4. Section \in short
    BY <1>1, <1>2, MinIsLeast
  <1>5. wire # << >>
    BY DEF MessageInv, ReaderOK, InEntry, WireOK
  <1>6. wire[1].counts \in [1..4 -> Nat]
    BY <1>5 DEF MessageInv, WireOK, HeaderCell
  <1> QED
    BY <1>3, <1>4, <1>5, <1>6

LEMMA AppendOne ==
    ASSUME NEW S, NEW s \in Seq(S), NEW e
    PROVE  Append(s, e) \in Seq(S \cup {e}) /\ Len(Append(s, e)) = Len(s) + 1
  <1>1. s \in Seq(S \cup {e})
    OBVIOUS
  <1> QED
    BY <1>1

LEMMA Sums ==
    /\ \A a, b \in Nat : a + b \in Nat
    /\ \A a, b \in Nat : b =< a => a - b \in Nat
    /\ \A a, b \in Nat : b < a => a - (b + 1) = (a - b) - 1 /\ b + 1 =< a
  OBVIOUS

\* What is left to read has been counted down.
Shrinks == ToRead' < ToRead /\ ToRead' >= 0

\* The measure is a number whose leading part counts entries and pointers.
LEMMA Measure ==
    ASSUME NEW a \in Nat, NEW b \in Nat, NEW s \in Nat, NEW c \in Nat, NEW d \in Nat,
           b < a, d < s
    PROVE  b * s + d < a * s + c
  <1>1. PICK k \in Nat : a = b + 1 + k
    <2>1. a - b - 1 \in Nat /\ a = b + 1 + (a - b - 1)
      OBVIOUS
    <2> QED
      BY <2>1
  <1>2. a * s = b * s + s + k * s
    BY <1>1
  <1>3. b * s \in Nat /\ k * s \in Nat
    OBVIOUS
  <1> QED
    BY <1>2, <1>3

Lead == EntriesLeft * (compressionPointerLimit + 1) + compressionPointerLimit - numPointers

LeadOK ==
    /\ EntriesLeft \in Nat /\ Lead \in Nat
    /\ Len(wire) \in Nat /\ Len(wire) + 1 - pos \in 1..Len(wire) + 1
    /\ ToRead = Lead * (Len(wire) + 2) + (Len(wire) + 1 - pos)

LEMMA LeadIsNat == MessageInv /\ wire # << >> => LeadOK
  <1> SUFFICES ASSUME MessageInv, wire # << >> PROVE LeadOK
    OBVIOUS
  <1> DEFINE left(i) == wire[1].counts[i] - Len(read[i])
  <1>1. wire[1].counts \in [1..4 -> Nat]
    BY DEF MessageInv, WireOK, HeaderCell
  <1>2. \A i \in 1..4 : Len(read[i]) \in Nat /\ Len(read[i]) =< wire[1].counts[i]
    BY DEF MessageInv, ReaderOK
  <1>3. \A i \in 1..4 : left(i) \in Nat
    <2> TAKE i \in 1..4
    <2>1. wire[1].counts[i] \in Nat
      BY <1>1
    <2> QED
      BY <1>2, <2>1, Sums, Zenon
  <1>4. EntriesLeft = left(1) + left(2) + left(3) + left(4)
    BY DEF EntriesLeft
  <1> HIDE DEF left
  <1>5. EntriesLeft \in Nat
    BY <1>3, <1>4
  <1>6. Len(wire) \in Nat /\ Len(wire) + 1 - pos \in 1..Len(wire) + 1
    BY DEF MessageInv, WireOK, ReaderOK
  <1>7. /\ compressionPointerLimit \in Nat /\ numPointers \in 0..compressionPointerLimit
    BY MessageAssumption DEF MessageInv, ReaderOK
  <1>8. EntriesLeft * (compressionPointerLimit + 1) \in Nat
    BY <1>5, <1>7
  <1>9. Lead \in Nat
    BY <1>7, <1>8 DEF Lead
  <1>10. Lead * (Len(wire) + 2) \in Nat
    BY <1>6, <1>9
  <1>11. pos \in Nat
    BY <1>6 DEF MessageInv, ReaderOK
  <1>12. ToRead = Lead * (Len(wire) + 2) + Len(wire) + 1 - pos
    BY DEF ToRead, Lead
  <1> QED
    BY <1>5, <1>6, <1>9, <1>10, <1>11, <1>12 DEF LeadOK

\* Either the leading part has become smaller, or the reader has moved on.
LEMMA LessToRead ==
    ASSUME MessageInv, MessageInv', wire # << >>, UNCHANGED wire,
           Lead' < Lead \/ (Lead' = Lead /\ pos' > pos)
    PROVE  Shrinks
  <1> DEFINE s == Len(wire) + 2
             c == Len(wire) + 1 - pos
             d == Len(wire) + 1 - pos'
  <1>1. Lead \in Nat /\ Len(wire) \in Nat /\ c \in 1..Len(wire) + 1 /\ ToRead = Lead * s + c
    BY LeadIsNat DEF LeadOK
  <1>2. Lead' \in Nat /\ d \in 1..Len(wire) + 1 /\ ToRead' = Lead' * s + d
    <2>1. (MessageInv /\ wire # << >> => LeadOK)'
      BY LeadIsNat, PTL
    <2>2. wire' = wire /\ LeadOK'
      BY <2>1
    <2> QED
      BY <2>2 DEF LeadOK
  <1>3. s \in Nat /\ c \in Nat /\ d \in Nat /\ d < s
    BY <1>1, <1>2
  <1>4. Lead' * s \in Nat /\ Lead * s \in Nat
    BY <1>1, <1>2, <1>3
  <1>5. pos \in Nat /\ pos' \in Nat
    BY <1>1 DEF MessageInv, ReaderOK
  <1>6. pos' > pos => d < c
    BY <1>1, <1>5
  <1> HIDE DEF s, c, d
  <1>7. CASE Lead' < Lead
    <2>1. Lead' * s + d < Lead * s + c
      BY <1>1, <1>2, <1>3, <1>7, Measure
    <2>2. ToRead' < ToRead
      BY <1>1, <1>2, <2>1
    <2>3. ToRead' \in Nat
      BY <1>2, <1>3, <1>4, Sums, Zenon
    <2> QED
      BY <2>2, <2>3 DEF Shrinks
  <1>8. CASE Lead' = Lead /\ pos' > pos
    BY <1>1, <1>2, <1>3, <1>4, <1>6, <1>8 DEF Shrinks
  <1> QED
    BY <1>7, <1>8

\* The step of the reader fails, or it keeps the invariant and reads on.
ReadsOn == MessageInv' /\ (phase' = "read" => Shrinks)

LEMMA FailsReading == MessageInv /\ phase = "read" /\ Failed => ReadsOn
  BY FailedKeeps DEF Failed, ReadsOn

LEMMA SameEntries ==
    ASSUME UNCHANGED <<wire, read>>
    PROVE  EntriesLeft' = EntriesLeft
  BY DEF EntriesLeft

LEMMA ReadHeaderShrinks == MessageInv /\ ReadHeader => ReadsOn
  <1> SUFFICES ASSUME MessageInv, ReadHeader PROVE ReadsOn
    OBVIOUS
  <1>1. CASE Failed
    BY <1>1, FailsReading DEF ReadHeader
  <1>2. CASE ~Failed
    <2>1. /\ phase = "read" /\ pos = 0 /\ wire # << >> /\ pos' = 1 /\ StillReading
          /\ UNCHANGED <<numPointers, seekTo, read>>
      BY <1>2 DEF ReadHeader
    <2>2. UNCHANGED <<wire, phase>>
      BY <2>1 DEF StillReading
    <2>3. 1 \in 0..Len(wire)
      BY <2>1 DEF MessageInv, WireOK
    <2>4. ReaderOK'
      BY <2>1, <2>2, <2>3 DEF MessageInv, ReaderOK, Outbound
    <2>5. MessageInv'
      BY <2>1, <2>4, ReaderKeeps
    <2>6. Lead' = Lead
      BY <2>1, <2>2, SameEntries DEF Lead
    <2> QED
      BY <2>1, <2>2, <2>5, <2>6, LessToRead DEF ReadsOn
  <1> QED
    BY <1>1, <1>2

LEMMA ReadLabelShrinks == MessageInv /\ ReadLabel => ReadsOn
  <1> SUFFICES ASSUME MessageInv, ReadLabel PROVE ReadsOn
    OBVIOUS
  <1>1. /\ phase = "read" /\ pos < Len(wire) /\ pos' = pos + 1 /\ StillReading
        /\ UNCHANGED <<numPointers, seekTo, read>>
    BY DEF ReadLabel, InEntry
  <1>2. UNCHANGED <<wire, phase>>
    BY <1>1 DEF StillReading
  <1>3. Len(wire) \in Nat /\ pos \in 0..Len(wire) /\ wire # << >>
    BY <1>1 DEF MessageInv, WireOK, ReaderOK
  <1>4. pos' \in 0..Len(wire) /\ pos' > pos
    BY <1>1, <1>3
  <1>5. ReaderOK'
    BY <1>1, <1>2, <1>4 DEF MessageInv, ReaderOK, Outbound
  <1>6. MessageInv'
    BY <1>1, <1>5, ReaderKeeps
  <1>7. Lead' = Lead
    BY <1>1, <1>2, SameEntries DEF Lead
  <1> QED
    BY <1>2, <1>3, <1>4, <1>6, <1>7, LessToRead DEF ReadsOn

LEMMA FollowPointerShrinks == MessageInv /\ FollowPointer => ReadsOn
  <1> SUFFICES ASSUME MessageInv, FollowPointer PROVE ReadsOn
    OBVIOUS
  <1>1. phase = "read" /\ pos < Len(wire) /\ Here.kind = "pointer"
    BY DEF FollowPointer, InEntry
  <1>2. CASE Failed
    BY <1>1, <1>2, FailsReading
  <1>3. CASE ~Failed
    <2>1. /\ numPointers < compressionPointerLimit
          /\ seekTo' = (IF numPointers = 0 THEN pos + 1 ELSE seekTo)
          /\ numPointers' = numPointers + 1 /\ pos' = Here.to
          /\ StillReading /\ UNCHANGED read
      BY <1>3 DEF FollowPointer, MayFollow
    <2>2. UNCHANGED <<wire, phase>>
      BY <2>1 DEF StillReading
    <2>3. /\ Len(wire) \in Nat /\ pos \in 0..Len(wire) /\ seekTo \in 0..Len(wire) /\ wire # << >>
          /\ wire \in Seq(Cell)
      BY <1>1 DEF MessageInv, WireOK, ReaderOK
    <2>4. pos + 1 \in 1..Len(wire)
      BY <1>1, <2>3
    <2>5. Here \in Cell /\ Here.to =< Len(wire)
      BY <1>1, <2>3, <2>4 DEF Here, MessageInv, PointersOK, Outbound
    <2>6. Here.to \in Nat
      BY <1>1, <2>5, PointerCell
    <2>7. pos' \in 0..Len(wire) /\ seekTo' \in 0..Len(wire)
      BY <2>1, <2>3, <2>4, <2>5, <2>6
    <2>8. numPointers' \in 0..compressionPointerLimit /\ numPointers \in Nat
      BY <2>1, MessageAssumption DEF MessageInv, ReaderOK
    <2>9. ReaderOK'
      BY <1>1, <2>1, <2>2, <2>7, <2>8 DEF MessageInv, ReaderOK, Outbound
    <2>10. MessageInv'
      BY <1>1, <2>1, <2>9, ReaderKeeps
    <2>11. Lead' < Lead
      <3>1. EntriesLeft' = EntriesLeft
        BY <2>1, <2>2, SameEntries
      <3>2. EntriesLeft * (compressionPointerLimit + 1) \in Nat
        BY <2>3, LeadIsNat, MessageAssumption DEF LeadOK
      <3> QED
        BY <2>1, <2>8, <3>1, <3>2, MessageAssumption DEF Lead
    <2> QED
      BY <2>2, <2>3, <2>10, <2>11, LessToRead DEF ReadsOn
  <1> QED
    BY <1>2, <1>3

LEMMA ReadEntryShrinks == MessageInv /\ ReadEntry => ReadsOn
  <1> SUFFICES ASSUME MessageInv, ReadEntry PROVE ReadsOn
    OBVIOUS
  <1>1. phase = "read" /\ pos < Len(wire) /\ InEntry
    BY DEF ReadEntry, InEntry
  <1>2. CASE Failed
    BY <1>1, <1>2, FailsReading
  <1>3. CASE ~Failed
    <2> DEFINE e == [name |-> labels, type |-> wire[After + 1].type, data |-> wire[After + 1].data]
               x == Section
    <2>1. /\ After < Len(wire) /\ pos' = After + 1 /\ numPointers' = 0 /\ seekTo' = 0
          /\ read' = [read EXCEPT ![x] = Append(@, e)] /\ StillReading
      <3>1. ~(NameLengthOf(labels) > MaxNameLength \/ After >= Len(wire))
        BY <1>3 DEF ReadEntry
      <3>2. /\ pos' = After + 1 /\ numPointers' = 0 /\ seekTo' = 0
            /\ read' = [read EXCEPT ![x] = Append(@, e)] /\ StillReading
        BY <1>3 DEF ReadEntry
      <3>3. After \in Nat /\ Len(wire) \in Nat
        BY <1>1 DEF After, MessageInv, ReaderOK, WireOK
      <3> QED
        BY <3>1, <3>2, <3>3
    <2>2. UNCHANGED <<wire, phase>>
      BY <2>1 DEF StillReading
    <2>3. /\ x \in 1..4 /\ wire # << >> /\ wire[1].counts \in [1..4 -> Nat]
          /\ Len(read[x]) < wire[1].counts[x]
      BY <1>1, SectionShort
    <2>4. DOMAIN read = 1..4 /\ \A i \in 1..4 : Len(read[i]) \in Nat /\ Len(read[i]) =< wire[1].counts[i]
      <3>1. /\ DOMAIN read = 1..4 /\ \A i \in 1..4 : \E S : read[i] \in Seq(S)
            /\ wire # << >> => \A i \in 1..4 : Len(read[i]) =< wire[1].counts[i]
        BY Zenon DEF MessageInv, ReaderOK
      <3>2. \A i \in 1..4 : Len(read[i]) \in Nat
        BY <3>1
      <3> QED
        BY <2>3, <3>1, <3>2, Zenon
    <2> HIDE DEF e, x
    <2>5. PICK S : read[x] \in Seq(S)
      BY <2>3 DEF MessageInv, ReaderOK
    <2>6. Append(read[x], e) \in Seq(S \cup {e}) /\ Len(Append(read[x], e)) = Len(read[x]) + 1
      BY <2>5, AppendOne
    <2>7. /\ DOMAIN read' = 1..4 /\ read'[x] = Append(read[x], e)
          /\ \A i \in 1..4 : i # x => read'[i] = read[i]
      BY <2>1, <2>3, <2>4
    <2>8. After \in Nat /\ pos' \in 0..Len(wire) /\ Len(wire) \in Nat
      BY <1>1, <2>1 DEF After, MessageInv, ReaderOK, WireOK
    <2>9. ReaderOK'
      <3>1. \A i \in 1..4 : \E R : read'[i] \in Seq(R)
        BY <2>6, <2>7 DEF MessageInv, ReaderOK
      <3>2. \A i \in 1..4 : Len(read'[i]) =< wire[1].counts[i]
        <4> TAKE i \in 1..4
        <4>1. wire[1].counts[i] \in Nat /\ Len(read[i]) \in Nat
          BY <2>3, <2>4
        <4>2. CASE i = x
          <5>1. Len(read'[i]) = Len(read[i]) + 1 /\ Len(read[i]) < wire[1].counts[i]
            BY <2>3, <2>6, <2>7, <4>2, Zenon
          <5> QED
            BY <4>1, <5>1, Sums, Zenon
        <4>3. CASE i # x
          BY <2>4, <2>7, <4>3
        <4> QED
          BY <4>2, <4>3
      <3>3. 0 \in 0..Len(wire) /\ 0 \in 0..compressionPointerLimit
        BY <2>8, MessageAssumption
      <3> QED
        BY <1>1, <2>1, <2>2, <2>7, <2>8, <3>1, <3>2, <3>3 DEF ReaderOK, Outbound
    <2>10. MessageInv'
      BY <1>1, <2>1, <2>9, ReaderKeeps
    <2>11. EntriesLeft' = EntriesLeft - 1
      <3> DEFINE left(i) == wire[1].counts[i] - Len(read[i])
                 left2(i) == wire[1].counts[i] - Len(read'[i])
      <3>1. EntriesLeft = left(1) + left(2) + left(3) + left(4)
        BY <2>3 DEF EntriesLeft
      <3>2. EntriesLeft' = left2(1) + left2(2) + left2(3) + left2(4)
        BY <2>2, <2>3 DEF EntriesLeft
      <3>3. \A i \in 1..4 : left(i) \in Nat /\ left2(i) = IF i = x THEN left(i) - 1 ELSE left(i)
        <4> TAKE i \in 1..4
        <4>1. wire[1].counts[i] \in Nat /\ Len(read[i]) \in Nat
          BY <2>3, <2>4
        <4>2. left(i) \in Nat
          BY <2>4, <4>1, Sums, Zenon
        <4>3. CASE i = x
          <5>1. Len(read'[i]) = Len(read[i]) + 1 /\ Len(read[i]) < wire[1].counts[i]
            BY <2>3, <2>6, <2>7, <4>3, Zenon
          <5>2. left2(i) = left(i) - 1
            BY <4>1, <5>1, Sums, Zenon
          <5> QED
            BY <4>2, <4>3, <5>2, Zenon
        <4>4. CASE i # x
          <5>1. read'[i] = read[i]
            BY <2>7, <4>4, Zenon
          <5>2. left2(i) = left(i)
            BY <5>1, Zenon
          <5> QED
            BY <4>2, <4>4, <5>2, Zenon
        <4> QED
          BY <4>2, <4>3, <4>4
      <3> HIDE DEF left, left2
      <3>4. left(1) \in Nat /\ left(2) \in Nat /\ left(3) \in Nat /\ left(4) \in Nat
        BY <3>3
      <3>5. \/ left2(1) = left(1) - 1 /\ left2(2) = left(2) /\ left2(3) = left(3) /\ left2(4) = left(4)
            \/ left2(1) = left(1) /\ left2(2) = left(2) - 1 /\ left2(3) = left(3) /\ left2(4) = left(4)
            \/ left2(1) = left(1) /\ left2(2) = left(2) /\ left2(3) = left(3) - 1 /\ left2(4) = left(4)
            \/ left2(1) = left(1) /\ left2(2) = left(2) /\ left2(3) = left(3) /\ left2(4) = left(4) - 1
        BY <2>3, <3>3
      <3> DEFINE a == left(1)
                 b == left(2)
                 c == left(3)
                 d == left(4)
      <3>6. a \in Nat /\ b \in Nat /\ c \in Nat /\ d \in Nat
        BY <3>4
      <3>7. \/ EntriesLeft' = (a - 1) + b + c + d
            \/ EntriesLeft' = a + (b - 1) + c + d
            \/ EntriesLeft' = a + b + (c - 1) + d
            \/ EntriesLeft' = a + b + c + (d - 1)
        BY <3>2, <3>5, Zenon
      <3>8. EntriesLeft = a + b + c + d
        BY <3>1
      <3> HIDE DEF a, b, c, d
      <3> QED
        BY <3>6, <3>7, <3>8
    <2>12. Lead' < Lead
      <3> DEFINE l == compressionPointerLimit
      <3>1. l \in Nat /\ numPointers \in 0..l /\ EntriesLeft \in Nat
        BY <2>3, LeadIsNat, MessageAssumption DEF LeadOK, MessageInv, ReaderOK
      <3>2. EntriesLeft' * (l + 1) = EntriesLeft * (l + 1) - (l + 1)
        BY <2>11, <3>1
      <3>3. EntriesLeft * (l + 1) \in Nat
        BY <3>1
      <3> QED
        BY <2>1, <3>1, <3>2, <3>3 DEF Lead
    <2> QED
      BY <2>2, <2>3, <2>10, <2>12, LessToRead DEF ReadsOn
  <1> QED
    BY <1>2, <1>3

LEMMA ReadDoneShrinks == MessageInv /\ ReadDone => ReadsOn
  <1> SUFFICES ASSUME MessageInv, ReadDone PROVE ReadsOn
    OBVIOUS
  <1>1. CASE Failed
    BY <1>1, FailsReading DEF ReadDone
  <1>2. CASE ~Failed
    <2>1. /\ phase = "read" /\ phase' = "done"
          /\ UNCHANGED <<wire, pos, numPointers, seekTo, read, message, nameCache, toWrite>>
      BY <1>2 DEF ReadDone, WriterIdle
    <2>2. MessageInv'
      BY <2>1 DEF MessageInv, WireOK, PointersOK, WriterOK, ReaderOK, Outbound
    <2> QED
      BY <2>1, <2>2 DEF ReadsOn
  <1> QED
    BY <1>1, <1>2

LEMMA ReadingReadsOn == MessageInv /\ Reading => ReadsOn
  <1>1. MessageInv /\ ReadsPast => ReadsOn
    BY FailsReading DEF ReadsPast, InEntry
  <1> QED
    BY <1>1, ReadHeaderShrinks, ReadLabelShrinks, FollowPointerShrinks, ReadEntryShrinks,
       ReadDoneShrinks DEF Reading

LEMMA MessageInvStep == MessageInv /\ [MessageNext]_messageVars => MessageInv'
  <1>1. MessageInv /\ UNCHANGED messageVars => MessageInv'
    BY DEF messageVars, MessageInv, WireOK, PointersOK, WriterOK, ReaderOK
  <1>2. MessageInv /\ Reading => MessageInv'
    BY ReadingReadsOn DEF ReadsOn
  <1> QED
    BY <1>1, <1>2, WriteHeaderKeeps, WriteEntryKeeps, WrittenKeeps, TravelKeeps DEF MessageNext

(***************************************************************************)
(* Whatever a message holds and wherever its pointers lead, each step of   *)
(* MessageFromWireFormat uses up some of what there is to read, so it ends.*)
(***************************************************************************)
THEOREM ReadingAlwaysShrinks == MessageSpec => ReadingShrinks
  <1> DEFINE Use == phase = "read" => phase' # "read" \/ (ToRead' < ToRead /\ ToRead' >= 0)
  <1>1. MessageInv /\ [MessageNext]_messageVars => [Use]_messageVars
    <2> SUFFICES ASSUME MessageInv, MessageNext, phase = "read", phase' = "read"
                 PROVE  ToRead' < ToRead /\ ToRead' >= 0
      OBVIOUS
    <2>1. Reading
      BY DEF MessageNext, WriteHeader, WriteEntry, Written, Travel, Cut, Repoint, Arrives
    <2> QED
      BY <2>1, ReadingReadsOn DEF ReadsOn, Shrinks
  <1>2. MessageSpec => [][Use]_messageVars
    BY <1>1, MessageInvInit, MessageInvStep, PTL DEF MessageSpec
  <1> QED
    BY <1>2 DEF ReadingShrinks
=============================================================================
