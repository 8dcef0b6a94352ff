------------------------------- MODULE Udpgw --------------------------------
(***************************************************************************)
(* One SOCKS5 UDP association over a UDP gateway:                          *)
(* internal/engine/udpgw_client.go.  The handler allocates a 16-bit        *)
(* connection ID to every (client address, destination) pair, writes       *)
(* framed datagrams to the gateway over one TCP stream, and a second       *)
(* goroutine maps the ID of every reply back to a client address.  A third *)
(* one only waits for the control connection to end.                       *)
(*                                                                         *)
(* Payloads and byte layouts are left out: a frame is what it carries.     *)
(* Each datagram is tagged with the client that asked, a tag only the      *)
(* properties read.  The gateway (badvpn-udpgw) is external: it keeps one  *)
(* socket per ID and opens a new one when a frame rebinds the ID or names  *)
(* another destination.                                                    *)
(***************************************************************************)
EXTENDS Naturals, Sequences, FiniteSets

CONSTANTS
    Client,        \* local UDP addresses that use the association
    Dest,          \* destinations of their datagrams
    NotIP,         \* destinations given by name, which frames cannot carry
    MaxID,         \* largest connection ID, 65535 in the code
    MaxInFlight    \* bound: frames on their way in each direction

ASSUME UdpgwAssumption ==
    /\ NotIP \subseteq Dest
    /\ MaxID \in Nat \ {0} /\ MaxInFlight \in Nat \ {0}

Goroutine == {"forward", "reader", "discard"}

VARIABLES
    nextID,      \* sess.nextID
    pairID,      \* sess.pairID
    idClient,    \* sess.idClient
    toGateway,   \* frames written to the gateway connection
    replies,     \* frames the gateway has written
    sockets,     \* the gateway's sockets: destination and clients to answer
    delivery,    \* the reply written to a client last
    control,     \* the client holds its control connection open
    gateway,     \* the gateway holds its end of the TCP stream open
    stopped,     \* stop has closed the three connections
    running      \* goroutines that have not returned

session == <<nextID, pairID, idClient>>
wire == <<toGateway, replies, sockets>>
life == <<control, gateway, stopped, running>>
vars == <<session, wire, delivery, life>>

NoDelivery == [to |-> "", asker |-> ""]

TypeOK ==
    /\ nextID \in 1..MaxID
    /\ \A k \in DOMAIN pairID : pairID[k] \in 1..MaxID
    /\ DOMAIN idClient \subseteq 1..MaxID /\ \A i \in DOMAIN idClient : idClient[i] \in Client
    /\ Len(toGateway) <= MaxInFlight /\ Len(replies) <= MaxInFlight
    /\ control \in BOOLEAN /\ gateway \in BOOLEAN /\ stopped \in BOOLEAN
    /\ running \subseteq Goroutine

Init ==
    /\ nextID = 1
    /\ pairID = << >> /\ idClient = << >>
    /\ toGateway = << >> /\ replies = << >> /\ sockets = << >>
    /\ delivery = NoDelivery
    /\ control = TRUE /\ gateway = TRUE /\ stopped = FALSE
    /\ running = Goroutine
-----------------------------------------------------------------------------
(***************************************************************************)
(* idFor: the ID of a pair, a new one if it has none.  IDs are never given *)
(* back; uint16 arithmetic wraps, and 0 is skipped.                        *)
(***************************************************************************)
PairKey_DestOnly(c, d) == d
PairKey(c, d) == <<c, d>>

With(f, k, v) == [x \in DOMAIN f \cup {k} |-> IF x = k THEN v ELSE f[x]]

IsNew(c, d) == PairKey(c, d) \notin DOMAIN pairID
NewID == IF nextID = 0 THEN 1 ELSE nextID
IDFor(c, d) == IF IsNew(c, d) THEN NewID ELSE pairID[PairKey(c, d)]

Following(id) == IF (id + 1) % (MaxID + 1) = 0 THEN 1 ELSE (id + 1) % (MaxID + 1)

idFor(c, d) ==
    /\ nextID' = IF IsNew(c, d) THEN Following(NewID) ELSE nextID
    /\ pairID' = With(pairID, PairKey(c, d), IDFor(c, d))
    /\ idClient' = With(idClient, IDFor(c, d), c)

Frame(c, d) == [id |-> IDFor(c, d), rebind |-> IsNew(c, d), dest |-> d, asker |-> c]

Returns(g) == running' = running \ {g}

(***************************************************************************)
(* forwardUDPToUDPGW, one datagram: a frame that cannot be built is        *)
(* dropped, after the pair has its ID.                                     *)
(***************************************************************************)
ForwardDatagram(c, d) ==
    /\ "forward" \in running /\ ~stopped
    /\ gateway \/ d \in NotIP
    /\ Len(toGateway) < MaxInFlight
    /\ idFor(c, d)
    /\ toGateway' = IF d \in NotIP THEN toGateway ELSE Append(toGateway, Frame(c, d))
    /\ UNCHANGED <<replies, sockets, delivery, life>>

stop == stopped' = TRUE /\ UNCHANGED <<control, gateway>>

\* The write fails, the loop returns and handleUDPGWAssociate calls stop.
ForwardFails(c, d) ==
    /\ "forward" \in running /\ ~stopped /\ ~gateway
    /\ d \notin NotIP
    /\ idFor(c, d)
    /\ Returns("forward")
    /\ stop
    /\ UNCHANGED <<wire, delivery>>

\* The socket was closed under the loop.
ForwardEnds ==
    /\ "forward" \in running /\ stopped
    /\ Returns("forward")
    /\ stop
    /\ UNCHANGED <<session, wire, delivery>>

\* io.Copy(io.Discard, c) ends with the control connection.
DiscardEnds ==
    /\ "discard" \in running
    /\ ~control \/ stopped
    /\ Returns("discard")
    /\ stop
    /\ UNCHANGED <<session, wire, delivery>>
-----------------------------------------------------------------------------
(***************************************************************************)
(* readUDPGWReplies, one frame.                                            *)
(***************************************************************************)
DeliverReply ==
    /\ "reader" \in running /\ ~stopped
    /\ replies # << >>
    /\ LET r == Head(replies)
       IN  delivery' = IF r.id \in DOMAIN idClient
                       THEN [to |-> idClient[r.id], asker |-> r.asker] ELSE NoDelivery
    /\ replies' = Tail(replies)
    /\ UNCHANGED <<session, toGateway, sockets, life>>

\* The stream ended: the reader returns, and nobody is told.
ReaderEnds ==
    /\ "reader" \in running
    /\ stopped \/ (~gateway /\ replies = << >>)
    /\ Returns("reader")
    /\ UNCHANGED <<session, wire, delivery, control, gateway, stopped>>

\* A frame of an impossible length: the reader returns and leaves the rest unread.
ReaderRejects ==
    /\ "reader" \in running /\ ~stopped
    /\ Returns("reader")
    /\ UNCHANGED <<session, wire, delivery, control, gateway, stopped>>
-----------------------------------------------------------------------------
(***************************************************************************)
(* The gateway, the client and the connection between them.                *)
(***************************************************************************)
GatewayTakes ==
    /\ gateway /\ ~stopped /\ toGateway # << >>
    /\ LET f == Head(toGateway)
           keep == /\ f.id \in DOMAIN sockets /\ ~f.rebind
                   /\ sockets[f.id].dest = f.dest
           asked == IF keep THEN sockets[f.id].askers ELSE {}
       IN  sockets' = With(sockets, f.id, [dest |-> f.dest, askers |-> asked \cup {f.asker}])
    /\ toGateway' = Tail(toGateway)
    /\ UNCHANGED <<session, replies, delivery, life>>

GatewayReplies(id, c) ==
    /\ gateway /\ ~stopped
    /\ id \in DOMAIN sockets /\ c \in sockets[id].askers
    /\ Len(replies) < MaxInFlight
    /\ replies' = Append(replies, [id |-> id, asker |-> c])
    /\ sockets' = [sockets EXCEPT ![id].askers = @ \ {c}]
    /\ UNCHANGED <<session, toGateway, delivery, life>>

GatewayCloses ==
    /\ gateway
    /\ gateway' = FALSE
    /\ toGateway' = << >>
    /\ UNCHANGED <<session, replies, sockets, delivery, control, stopped, running>>

ClientCloses ==
    /\ control
    /\ control' = FALSE
    /\ UNCHANGED <<session, wire, delivery, gateway, stopped, running>>

Next ==
    \/ \E c \in Client, d \in Dest : ForwardDatagram(c, d) \/ ForwardFails(c, d)
    \/ ForwardEnds \/ DiscardEnds \/ DeliverReply \/ ReaderEnds \/ ReaderRejects
    \/ GatewayTakes \/ \E id \in 1..MaxID, c \in Client : GatewayReplies(id, c)
    \/ GatewayCloses \/ ClientCloses

Spec == Init /\ [][Next]_vars

\* The goroutines are scheduled; a frame on the stream reaches its reader.
FairSpec ==
    /\ Spec
    /\ WF_vars(ForwardEnds) /\ WF_vars(DiscardEnds)
    /\ WF_vars(ReaderEnds) /\ WF_vars(DeliverReply)
-----------------------------------------------------------------------------
\* More pairs than IDs: an ID now stands for two of them.
Wrapped == Cardinality(DOMAIN pairID) > MaxID

(***************************************************************************)
(* A reply goes to the client whose datagram it answers, as long as the    *)
(* association has not used more pairs than there are IDs.                 *)
(***************************************************************************)
RepliesReachAsker ==
    ~Wrapped /\ delivery # NoDelivery => delivery.to = delivery.asker
=============================================================================
