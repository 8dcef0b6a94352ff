---------------------------- MODULE DnsTransport ----------------------------
(***************************************************************************)
(* The DNSTT packet transport: the loops of DNSPacketConn                  *)
(* (internal/dnsttclient/dns.go), below them the loops and the redialling  *)
(* goroutine of TLSPacketConn (tls.go), the senders of HTTPPacketConn      *)
(* (http.go) or a UDP socket, and the bounded queues of QueuePacketConn    *)
(* (dnsttcore/turbotunnel) between them.                                   *)
(*                                                                         *)
(* KCP writes packets to, and reads packets from, the DNSPacketConn; the   *)
(* server answers only when it is asked, so what it has for the client     *)
(* waits until a query, often an empty poll, reaches it.  Packets are      *)
(* counted, not told apart: neither end matches answers with queries.      *)
(* One iteration of a loop is one step.  The delays between polls are kept *)
(* in units of initPollDelay.  KCP, the resolver and the server are        *)
(* external: KCP acknowledges what it reads, the server sends one packet   *)
(* per query, and sends again what the client's queues dropped.            *)
(***************************************************************************)
EXTENDS Naturals

CONSTANTS
    QueueSize,      \* capacity of every packet queue
    pollLimit,      \* capacity of pollChan
    maxPollDelay,   \* longest delay between timed polls
    numSenders,     \* sender goroutines of the HTTPPacketConn
    MaxHold,        \* bound: longest Retry-After
    MaxConns,       \* bound: TLS connections that are dialled
    MaxInFlight,    \* bound: queries on their way on a connection
    MaxData,        \* bound: packets the server has for the client
    MaxSends        \* bound: packets KCP sends besides acknowledgements

ASSUME TransportAssumption ==
    /\ QueueSize \in Nat \ {0} /\ pollLimit \in Nat \ {0} /\ maxPollDelay \in Nat \ {0}
    /\ numSenders \in Nat /\ MaxHold \in Nat
    /\ MaxConns \in Nat \ {0} /\ MaxInFlight \in Nat \ {0} /\ MaxData \in Nat /\ MaxSends \in Nat

initPollDelay == 1
pollDelayMultiplier == 2

Loop == {"recv", "send"}
Sender == 1..numSenders

VARIABLES
    outgoing,   \* packets of KCP in the DNSPacketConn's send queue
    incoming,   \* packets for KCP in the DNSPacketConn's receive queue
    pollChan,   \* permissions to poll at once
    pollTimer,  \* "armed" or "expired"
    pollDelay,  \* delay the timer was armed with
    receiving,  \* DNSPacketConn.recvLoop has not returned
    stopped,    \* the DNSPacketConn was closed
    via,        \* the resolver: "dot", "doh" or "udp"
    queries,    \* DNS queries in the transport's send queue
    answers,    \* its receive queue: answers with and without data
    closed,     \* the TLSPacketConn was closed
    conn,       \* number of the TLS connection dialled last
    link,       \* "up", "closed" (the read side knows) or "silent"
    asked,      \* queries on their way on that connection
    loops,      \* <<loop, connection>> of the TLS goroutines that run
    sender,     \* what each HTTP sender is doing
    hold,       \* time units until the Retry-After a sender has read
    notBefore,  \* time units until it
    quiet,      \* time units the responses have asked for (for the properties)
    committed,  \* senders past their check when that began (for the properties)
    waiting,    \* packets the server has for the client
    produced,   \* packets the server ever had
    sends       \* packets KCP sent by itself

kcp == <<outgoing, incoming, sends, stopped>>
poller == <<pollChan, pollTimer, pollDelay>>
limits == <<hold, notBefore, quiet>>
http == <<sender, limits, committed>>
tls == <<closed, conn, link, asked, loops>>
transport == <<via, tls, http>>
server == <<waiting, produced>>
vars == <<kcp, poller, receiving, queries, answers, transport, server>>

InQueue(q) == q.data + q.empty

TypeOK ==
    /\ outgoing \in 0..QueueSize /\ incoming \in 0..QueueSize
    /\ pollChan \in 0..pollLimit
    /\ pollTimer \in {"armed", "expired"}
    /\ pollDelay \in initPollDelay..maxPollDelay
    /\ receiving \in BOOLEAN /\ stopped \in BOOLEAN /\ closed \in BOOLEAN
    /\ queries \in 0..QueueSize
    /\ answers \in [data : 0..QueueSize, empty : 0..QueueSize]
    /\ InQueue(answers) <= QueueSize
    /\ conn \in 1..MaxConns
    /\ link \in {"up", "closed", "silent"}
    /\ asked \in 0..MaxInFlight
    /\ via \in {"dot", "doh", "udp"}
    /\ sender \in [Sender -> {"idle", "cleared", "posted", "limited"}]
    /\ hold \in [Sender -> 0..MaxHold]
    /\ notBefore \in 0..MaxHold /\ quiet \in 0..MaxHold /\ committed \subseteq Sender
    /\ loops \subseteq Loop \X (1..MaxConns)
    /\ waiting \in 0..MaxData /\ produced \in 0..MaxData
    /\ sends \in 0..MaxSends

\* NewTLSPacketConn has dialled, or there are senders; NewDNSPacketConn has started its loops.
Init ==
    /\ outgoing = 0 /\ incoming = 0 /\ sends = 0 /\ stopped = FALSE
    /\ pollChan = 0 /\ pollTimer = "armed" /\ pollDelay = initPollDelay
    /\ receiving = TRUE
    /\ queries = 0 /\ answers = [data |-> 0, empty |-> 0]
    /\ closed = FALSE /\ conn = 1 /\ link = "up" /\ asked = 0
    /\ via \in {"dot", "doh", "udp"}
    /\ loops = IF via = "dot" THEN Loop \X {1} ELSE {}
    /\ sender = [i \in Sender |-> "idle"] /\ hold = [i \in Sender |-> 0]
    /\ notBefore = 0 /\ quiet = 0 /\ committed = {}
    /\ waiting = 0 /\ produced = 0
-----------------------------------------------------------------------------
(***************************************************************************)
(* QueuePacketConn: a full queue drops what is put into it, silently.      *)
(***************************************************************************)
Enqueued(n) == IF n < QueueSize THEN n + 1 ELSE n

\* KCP writes a packet; WriteTo fails once the connection is closed.
KCPSend ==
    /\ ~stopped /\ sends < MaxSends
    /\ sends' = sends + 1
    /\ outgoing' = Enqueued(outgoing)
    /\ UNCHANGED <<incoming, stopped, poller, receiving, queries, answers, transport, server>>

\* KCP reads a packet and acknowledges it.
KCPReceive ==
    /\ ~stopped /\ incoming > 0
    /\ incoming' = incoming - 1
    /\ outgoing' = Enqueued(outgoing)
    /\ UNCHANGED <<sends, stopped, poller, receiving, queries, answers, transport, server>>

\* runContext returns or its context ends: pconn.Close, on this layer only.
ClosePacketConn ==
    /\ ~stopped
    /\ stopped' = TRUE
    /\ UNCHANGED <<outgoing, incoming, sends, poller, receiving, queries, answers, transport, server>>
-----------------------------------------------------------------------------
(***************************************************************************)
(* DNSPacketConn.sendLoop.                                                 *)
(***************************************************************************)
TimerExpires ==
    /\ pollTimer = "armed"
    /\ pollTimer' = "expired"
    /\ UNCHANGED <<kcp, pollChan, pollDelay, receiving, queries, answers, transport, server>>

Smaller(a, b) == IF a < b THEN a ELSE b

\* send ends with the transport's WriteTo; its error is logged.
Transmit == queries' = IF closed THEN queries ELSE Enqueued(queries)

\* Stop the timer, drain it if it has expired, and arm it anew.
ResetTimer == pollTimer' = "armed" /\ pollDelay' = initPollDelay

\* A packet displaces one pending poll opportunity, if any.
SendData ==
    /\ outgoing > 0
    /\ outgoing' = outgoing - 1
    /\ pollChan' = IF pollChan > 0 THEN pollChan - 1 ELSE 0
    /\ ResetTimer
    /\ Transmit
    /\ UNCHANGED <<incoming, sends, stopped, receiving, answers, transport, server>>

SendPolled ==
    /\ outgoing = 0 /\ pollChan > 0
    /\ pollChan' = pollChan - 1
    /\ ResetTimer
    /\ Transmit
    /\ UNCHANGED <<kcp, receiving, answers, transport, server>>

SendTimed ==
    /\ outgoing = 0 /\ pollTimer = "expired"
    /\ pollDelay' = Smaller(pollDelay * pollDelayMultiplier, maxPollDelay)
    /\ pollTimer' = "armed"
    /\ Transmit
    /\ UNCHANGED <<kcp, pollChan, receiving, answers, transport, server>>

sendLoop == SendData \/ SendPolled \/ SendTimed
-----------------------------------------------------------------------------
(***************************************************************************)
(* DNSPacketConn.recvLoop.  An answer with data permits one poll; the data *)
(* itself is dropped when the queue is full or closed (KCP's peer then     *)
(* sends it again, as long as there is a KCP).                             *)
(***************************************************************************)
PollAllowed == IF pollChan < pollLimit THEN pollChan + 1 ELSE pollChan

ReceiveData ==
    /\ receiving /\ ~closed /\ answers.data > 0
    /\ answers' = [answers EXCEPT !.data = @ - 1]
    /\ incoming' = IF stopped THEN incoming ELSE Enqueued(incoming)
    /\ waiting' = IF ~stopped /\ incoming = QueueSize THEN waiting + 1 ELSE waiting
    /\ pollChan' = PollAllowed
    /\ UNCHANGED <<outgoing, sends, stopped, pollTimer, pollDelay, receiving,
                   queries, transport, produced>>

ReceiveEmpty_Returns ==
    /\ receiving /\ ~closed /\ answers.empty > 0
    /\ answers' = [answers EXCEPT !.empty = @ - 1]
    /\ receiving' = FALSE
    /\ UNCHANGED <<kcp, poller, queries, transport, server>>

ReceiveEmpty ==
    /\ receiving /\ ~closed /\ answers.empty > 0
    /\ answers' = [answers EXCEPT !.empty = @ - 1]
    /\ UNCHANGED <<kcp, poller, receiving, queries, transport, server>>

\* ReadFrom fails once the transport is closed, which is not temporary.
ReceiveFails ==
    /\ receiving /\ closed
    /\ receiving' = FALSE
    /\ UNCHANGED <<kcp, poller, queries, answers, transport, server>>

recvLoop == ReceiveData \/ ReceiveEmpty \/ ReceiveFails
-----------------------------------------------------------------------------
(***************************************************************************)
(* TLSPacketConn: a loop for each direction of the connection.             *)
(***************************************************************************)
Ends(l, c) == loops' = loops \ {<<l, c>>}

TLSWrite(c) ==
    /\ <<"send", c>> \in loops /\ queries > 0
    /\ queries' = queries - 1
    /\ UNCHANGED <<kcp, poller, receiving, answers, via, http, closed, conn, server>>
    /\ \/ /\ c = conn /\ link = "up" /\ asked < MaxInFlight
          /\ asked' = asked + 1
          /\ UNCHANGED <<link, loops>>
       \/ /\ c # conn \/ link # "up"     \* accepted by the kernel, and lost
          /\ UNCHANGED <<asked, link, loops>>

\* A write fails in the end, and the read side of the socket with it.
TLSWriteFails(c) ==
    /\ <<"send", c>> \in loops /\ queries > 0
    /\ c # conn \/ link # "up"
    /\ queries' = queries - 1
    /\ Ends("send", c)
    /\ link' = IF c = conn THEN "closed" ELSE link
    /\ UNCHANGED <<kcp, poller, receiving, answers, via, http, closed, conn, asked, server>>

\* The server answers a query, with data if it has any; the answer is queued.
Answered ==
    LET kind == IF waiting > 0 THEN "data" ELSE "empty"
        full == InQueue(answers) = QueueSize
    IN  /\ answers' = IF full THEN answers ELSE [answers EXCEPT ![kind] = @ + 1]
        /\ waiting' = IF full \/ kind = "empty" THEN waiting ELSE waiting - 1

TLSRead(c) ==
    /\ <<"recv", c>> \in loops /\ c = conn
    /\ link = "up" /\ asked > 0
    /\ asked' = asked - 1
    /\ Answered
    /\ UNCHANGED <<kcp, poller, receiving, queries, via, http, closed, conn, link, loops, produced>>

TLSReadFails(c) ==
    /\ <<"recv", c>> \in loops
    /\ c # conn \/ link = "closed"
    /\ Ends("recv", c)
    /\ UNCHANGED <<kcp, poller, receiving, queries, answers, via, http, closed, conn, link, asked, server>>

LoopsDone_Receiver == <<"recv", conn>> \notin loops
LoopsDone == loops = {}

\* wg.Wait, conn.Close and a new dial; if it fails, the deferred Close.
Redial ==
    /\ via = "dot" /\ LoopsDone /\ ~closed
    /\ UNCHANGED <<kcp, poller, receiving, queries, answers, via, http, server>>
    /\ \/ /\ conn < MaxConns
          /\ conn' = conn + 1
          /\ link' = "up"
          /\ loops' = loops \cup (Loop \X {conn + 1})
          /\ asked' = 0
          /\ UNCHANGED closed
       \/ /\ closed' = TRUE
          /\ link' = "closed"
          /\ UNCHANGED <<conn, asked, loops>>
-----------------------------------------------------------------------------
(***************************************************************************)
(* HTTPPacketConn: each sender takes a query, reads notBefore under the    *)
(* lock, drops the query while that is ahead, and posts it otherwise: the  *)
(* other senders may move notBefore between the two.  A response with      *)
(* another status than 200 names a time, Retry-After or the default; the   *)
(* sender then takes the lock and moves notBefore there, never back.       *)
(***************************************************************************)
HTTPTake(i) ==
    /\ via = "doh" /\ queries > 0 /\ sender[i] = "idle"
    /\ queries' = queries - 1
    /\ sender' = IF notBefore > 0 THEN sender ELSE [sender EXCEPT ![i] = "cleared"]
    /\ UNCHANGED <<kcp, poller, receiving, answers, via, limits, committed, tls, server>>

HTTPPost(i) ==
    /\ sender[i] = "cleared" /\ sender' = [sender EXCEPT ![i] = "posted"]
    /\ committed' = committed \ {i}
    /\ UNCHANGED <<kcp, poller, receiving, queries, answers, via, limits, tls, server>>

HTTPAnswer(i) ==
    /\ sender[i] = "posted" /\ sender' = [sender EXCEPT ![i] = "idle"]
    /\ Answered
    /\ UNCHANGED <<kcp, poller, receiving, queries, via, limits, committed, tls, produced>>

\* No connection, a timeout, another content type, a body cut off.
HTTPError(i) ==
    /\ sender[i] = "posted" /\ sender' = [sender EXCEPT ![i] = "idle"]
    /\ UNCHANGED <<kcp, poller, receiving, queries, answers, via, limits, committed, tls, server>>

HTTPLimited(i, d) ==
    /\ sender[i] = "posted" /\ sender' = [sender EXCEPT ![i] = "limited"]
    /\ hold' = [hold EXCEPT ![i] = d]
    /\ UNCHANGED <<kcp, poller, receiving, queries, answers, via, notBefore, quiet,
                   committed, tls, server>>

Later_Latest(t, d) == d
Later(t, d) == IF d < t THEN t ELSE d

HTTPRecord(i) ==
    /\ sender[i] = "limited" /\ sender' = [sender EXCEPT ![i] = "idle"]
    /\ hold' = [hold EXCEPT ![i] = 0]
    /\ notBefore' = Later(notBefore, hold[i])
    /\ quiet' = IF hold[i] > quiet THEN hold[i] ELSE quiet
    /\ committed' = IF quiet = 0 /\ hold[i] > 0 THEN {j \in Sender : sender[j] = "cleared"}
                                                ELSE committed
    /\ UNCHANGED <<kcp, poller, receiving, queries, answers, via, tls, server>>

HTTPStep(i) ==
    \/ HTTPTake(i) \/ HTTPPost(i) \/ HTTPAnswer(i) \/ HTTPError(i) \/ HTTPRecord(i)
    \/ \E d \in 0..MaxHold : HTTPLimited(i, d)

HTTPSends == \E i \in Sender : HTTPStep(i)

Down(t) == IF t > 0 THEN t - 1 ELSE 0

Tick ==
    /\ notBefore > 0 \/ quiet > 0 \/ \E i \in Sender : hold[i] > 0
    /\ notBefore' = Down(notBefore) /\ quiet' = Down(quiet)
    /\ hold' = [i \in Sender |-> Down(hold[i])]
    /\ committed' = IF quiet = 1 THEN {} ELSE committed
    /\ UNCHANGED <<kcp, poller, receiving, queries, answers, via, sender, tls, server>>
-----------------------------------------------------------------------------
(***************************************************************************)
(* A UDP socket has no goroutines of its own: what is written is on its    *)
(* way.  The network loses queries and answers and doubles them.           *)
(***************************************************************************)
Datagram(left) ==
    /\ via = "udp" /\ queries > 0
    /\ queries' = left
    /\ UNCHANGED <<kcp, poller, receiving, transport, produced>>

UDPAnswer == Datagram(queries - 1) /\ Answered
UDPDouble == Datagram(queries) /\ Answered
UDPLose == Datagram(queries - 1) /\ UNCHANGED <<answers, waiting>>
-----------------------------------------------------------------------------
\* The peer closes the connection, or vanishes without a word.
LinkDies(how) ==
    /\ via = "dot" /\ link = "up"
    /\ link' = how
    /\ asked' = 0
    /\ UNCHANGED <<kcp, poller, receiving, queries, answers, via, http, closed, conn, loops, server>>

ServerHasData ==
    /\ produced < MaxData
    /\ produced' = produced + 1
    /\ waiting' = waiting + 1
    /\ UNCHANGED <<kcp, poller, receiving, queries, answers, transport>>

Next ==
    \/ KCPSend \/ KCPReceive \/ ClosePacketConn
    \/ TimerExpires \/ sendLoop \/ recvLoop
    \/ \E c \in 1..MaxConns :
          TLSWrite(c) \/ TLSWriteFails(c) \/ TLSRead(c) \/ TLSReadFails(c)
    \/ Redial
    \/ HTTPSends \/ Tick
    \/ UDPAnswer \/ UDPDouble \/ UDPLose
    \/ \E how \in {"closed", "silent"} : LinkDies(how)
    \/ ServerHasData

Spec == Init /\ [][Next]_vars

(***************************************************************************)
(* Goroutines are scheduled, timers expire, the server answers, and a      *)
(* kernel that keeps being handed data for a dead peer reports it.  An     *)
(* HTTP resolver and one over UDP do answer now and then when asked again  *)
(* and again.                                                              *)
(***************************************************************************)
Fairness ==
    /\ WF_vars(TimerExpires) /\ WF_vars(sendLoop) /\ WF_vars(recvLoop)
    /\ WF_vars(KCPReceive)
    /\ \A c \in 1..MaxConns :
          /\ SF_vars(TLSWriteFails(c))
          /\ WF_vars(TLSWrite(c) \/ TLSWriteFails(c))
          /\ WF_vars(TLSRead(c)) /\ WF_vars(TLSReadFails(c))
    /\ WF_vars(Redial)
    /\ \A i \in Sender : WF_vars(HTTPTake(i)) /\ WF_vars(HTTPPost(i)) /\ WF_vars(HTTPRecord(i))
    /\ WF_vars(Tick) /\ SF_vars(UDPAnswer \/ \E i \in Sender : HTTPAnswer(i))

FairSpec == Spec /\ Fairness
-----------------------------------------------------------------------------
(***************************************************************************)
(* tls.go: "We maintain one TLS connection at a time": no loop of an       *)
(* earlier connection takes queries any more once the next one is dialled. *)
(***************************************************************************)
OneConnection == \A l \in loops : l[2] = conn

(***************************************************************************)
(* Whatever ended it, a TLS connection is replaced or the transport gives  *)
(* up; a peer that vanished is only noticed because polls never cease.     *)
(***************************************************************************)
ConnectionReplaced == link # "up" ~> (link = "up" \/ closed)

(***************************************************************************)
(* Everything the server has for the client is fetched in the end although *)
(* it may not speak first, full queues drop packets, connections die, the  *)
(* network loses and doubles them and an HTTP resolver limits the rate.    *)
(***************************************************************************)
DataFetched == waiting > 0 ~> (waiting = 0 \/ closed)

(***************************************************************************)
(* notBefore is "a time before which we may not send any queries": until   *)
(* the latest time any response has named, whichever of the concurrent     *)
(* senders recorded it and in whatever order, the only requests started    *)
(* are those of senders that had passed their check when the waiting       *)
(* began, and one from each.                                               *)
(***************************************************************************)
RetryAfterHonoured ==
    [][\A i \in Sender : sender[i] # "posted" /\ sender'[i] = "posted"
                            => quiet = 0 \/ i \in committed]_vars

(***************************************************************************)
(* api.go, Client.Stop: "Stop shuts down the listener and DNS transport."  *)
(***************************************************************************)
StopClosesTransport == stopped ~> closed
=============================================================================
