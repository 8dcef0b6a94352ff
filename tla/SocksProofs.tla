---------------------------- MODULE SocksProofs -----------------------------
(***************************************************************************)
(* Proofs about the SOCKS5 server and its UDP gateway association, for any *)
(* clients, destinations, DNS servers and size of the ID space: a handler  *)
(* that has returned holds no channel, and a reply of the gateway goes to  *)
(* the client that asked until the 16-bit IDs run out.                     *)
(***************************************************************************)
EXTENDS Socks, FiniteSetTheorems, SequenceTheorems, TLAPS

USE UdpgwAssumption
-----------------------------------------------------------------------------
(***************************************************************************)
(* What NothingLeftOpen needs: whatever is open has its close deferred, or *)
(* belongs to the DNS exchange that will close it; nothing is deferred     *)
(* when the deferred calls are over; and every stage holds what it should, *)
(* no socket and no channel before it is time for them.                    *)
(***************************************************************************)
CloseDeferred ==
    /\ open \subseteq deferred /\ deferred \subseteq {"conn", "udp", "channel"}
    /\ stage = "closed" => deferred = {}
    /\ stage \notin {"return", "closed"} => "conn" \in deferred

StageHolds ==
    /\ copying # {} => stage = "copy"
    /\ Serving => stage = "dns"
    /\ dnsStep \in {"dial", "exchange"}
    /\ dnsStep = "exchange" => Serving
    /\ dnsStep = "exchange" => dnsConns = 1
    /\ dnsStep = "dial" => dnsConns = 0
    /\ stage \in {"handshake", "request", "dial", "redial", "associate", "gateway",
                  "accept dns", "dns"} => "channel" \notin open

HeldInv == CloseDeferred /\ StageHolds

LEMMA HeldStep == HeldInv /\ [SocksNext]_allVars => HeldInv'
  <1> SUFFICES ASSUME HeldInv, [SocksNext]_allVars PROVE HeldInv'
    OBVIOUS
  <1> USE DEF HeldInv, CloseDeferred, StageHolds, Serving, dialog, held, peers, pipe, resolver, To
  <1>1. CASE Handshake \/ ReadRequest \/ ReadFails
    BY <1>1 DEF Handshake, ReadRequest, ReadFails
  <1>2. CASE Dial \/ Connected
    BY <1>2 DEF Dial, Connected, Opens
  <1>3. CASE Associate \/ DialGateway \/ Accept
    BY <1>3 DEF Associate, DialGateway, Accept, Opens
  <1>4. CASE Return
    BY <1>4 DEF Return
  <1>5. CASE DeadlinePasses
    BY <1>5 DEF DeadlinePasses
  <1>6. CASE UpEnds \/ UpFails \/ DownDelivers \/ DownEnds
    BY <1>6 DEF UpEnds, UpFails, DownDelivers, DownEnds, Direction
  <1>7. CASE CopyDone
    BY <1>7 DEF CopyDone
  <1>8. CASE Resolving
    <2>1. CASE DnsDial
      BY <2>1 DEF DnsDial, AskNext
    <2>2. CASE DnsExchange
      BY <2>2 DEF DnsExchange, AskNext
    <2> QED
      BY <1>8, <2>1, <2>2 DEF Resolving
  <1>9. CASE DnsEnds \/ GatewayDone
    BY <1>9 DEF DnsEnds, GatewayDone
  <1>10. ASSUME NEW r \in Requested, Datagram(r) PROVE HeldInv'
    BY <1>10 DEF Datagram
  <1>11. CASE Gatewayed(Next)
    <2>1. open' \subseteq open /\ UNCHANGED <<dialog, deferred, peers, pipe, resolver>>
      BY <1>11 DEF Gatewayed
    <2> QED
      BY <2>1
  <1>12. ASSUME NEW how \in {"half", "gone"}, ClientEnds(how) PROVE HeldInv'
    BY <1>12 DEF ClientEnds
  <1>13. CASE RemoteSends \/ RemoteEnds \/ SSHDies
    <2>1. UNCHANGED <<stage, open, deferred, copying, dnsLeft, dnsStep, dnsConns>>
      BY <1>13 DEF RemoteSends, RemoteEnds, SSHDies
    <2> QED
      BY <2>1
  <1>14. CASE UNCHANGED allVars
    BY <1>14 DEF allVars, socksVars
  <1> QED
    BY <1>1, <1>2, <1>3, <1>4, <1>5, <1>6, <1>7, <1>8, <1>9, <1>10, <1>11, <1>12, <1>13, <1>14
    DEF SocksNext, Talking, Copying

(***************************************************************************)
(* Whichever way a handler returns, nothing it opened is open, and it      *)
(* never held two SSH channels, with any number of DNS servers.            *)
(***************************************************************************)
THEOREM HandlerClosesChannels == SocksSpec => []NothingLeftOpen
  <1>1. SocksInit => HeldInv
    BY DEF SocksInit, HeldInv, CloseDeferred, StageHolds, Serving
  <1>2. HeldInv => NothingLeftOpen
    <2> SUFFICES ASSUME HeldInv PROVE NothingLeftOpen
      OBVIOUS
    <2>1. dnsConns = 0 \/ (dnsConns = 1 /\ stage = "dns" /\ "channel" \notin open)
      BY DEF HeldInv, StageHolds
    <2>2. stage = "closed" => open = {} /\ copying = {}
      BY DEF HeldInv, CloseDeferred, StageHolds
    <2> QED
      BY <2>1, <2>2 DEF NothingLeftOpen
  <1> QED
    BY <1>1, <1>2, HeldStep, PTL DEF SocksSpec
-----------------------------------------------------------------------------
(***************************************************************************)
(* The association is the one Udpgw describes: to a reader of its session  *)
(* and its connections every step of the handler is a step of Udpgw, or    *)
(* none.                                                                   *)
(***************************************************************************)
LEMMA SocksStepIsUdpgw == [SocksNext]_allVars => [Next]_vars
  <1> SUFFICES ASSUME [SocksNext]_allVars, ~Next PROVE UNCHANGED vars
    OBVIOUS
  <1>1. CASE Talking \/ Copying \/ Resolving
    BY <1>1 DEF Talking, Handshake, ReadRequest, ReadFails, Dial, Connected,
                Associate, DialGateway, Accept, Return, Copying, UpEnds, DownDelivers, DownEnds, Direction, CopyDone,
                Resolving, DnsDial, DnsExchange
  <1>2. CASE \/ DeadlinePasses \/ UpFails \/ DnsEnds \/ \E r \in Requested : Datagram(r)
             \/ GatewayDone \/ \E how \in {"half", "gone"} : ClientEnds(how)
             \/ RemoteSends \/ RemoteEnds \/ SSHDies
    BY <1>2 DEF DeadlinePasses, UpFails, Direction, DnsEnds, Datagram, GatewayDone, ClientEnds,
                RemoteSends, RemoteEnds, SSHDies
  <1>3. CASE Gatewayed(Next)
    BY <1>3 DEF Gatewayed
  <1>4. CASE UNCHANGED allVars
    BY <1>4 DEF allVars
  <1> QED
    BY <1>1, <1>2, <1>3, <1>4 DEF SocksNext

(***************************************************************************)
(* The SOCKS5 server runs handleUDPGWAssociate as it is: seen through the  *)
(* variables of the association alone, every behaviour of a handler is one *)
(* of Udpgw, which therefore lends it all its properties.                  *)
(***************************************************************************)
THEOREM SocksImplementsUdpgw == SocksSpec => Spec
  <1>1. SocksInit => Init
    BY DEF SocksInit
  <1> QED
    BY <1>1, SocksStepIsUdpgw, PTL DEF SocksSpec, Spec
-----------------------------------------------------------------------------
(***************************************************************************)
(* Connection IDs.  Until the pairs outnumber the IDs, the n-th pair has   *)
(* the ID n, every ID in use belongs to one client, and whatever is on its *)
(* way carries the ID of the client that asked for it.                     *)
(***************************************************************************)
Pairs == DOMAIN pairID
Count == Cardinality(Pairs)

FrameRec == [id : Nat, rebind : BOOLEAN, dest : Dest, asker : Client]
ReplyRec == [id : Nat, asker : Client]

WireTypes ==
    /\ toGateway \in Seq(FrameRec) /\ replies \in Seq(ReplyRec)

Owns(c, id) == id \in DOMAIN idClient /\ idClient[id] = c

FreshID ==
    /\ Count < MaxID => nextID = Count + 1
    /\ DOMAIN idClient \subseteq 1..Count

Addressed ==
    /\ \A k \in Pairs : Owns(k[1], pairID[k])
    /\ \A i \in 1..Len(toGateway) : Owns(toGateway[i].asker, toGateway[i].id)
    /\ \A i \in 1..Len(replies) : Owns(replies[i].asker, replies[i].id)
    /\ \A id \in DOMAIN sockets : \A a \in sockets[id].askers : Owns(a, id)

UdpgwInv ==
    /\ IsFiniteSet(Pairs)
    /\ ~Wrapped => WireTypes /\ FreshID /\ Addressed /\ RepliesReachAsker

\* A map with one more entry, as sess.pairID[key] = id makes it.
LEMMA WithEntry ==
    ASSUME NEW f, NEW k, NEW v
    PROVE  /\ DOMAIN With(f, k, v) = DOMAIN f \cup {k}
           /\ With(f, k, v)[k] = v
           /\ \A x \in DOMAIN f \ {k} : With(f, k, v)[x] = f[x]
  BY DEF With

\* One more pair is counted.
LEMMA CountGrows ==
    ASSUME IsFiniteSet(Pairs), NEW c, NEW d, idFor(c, d)
    PROVE  /\ Pairs' = Pairs \cup {<<c, d>>}
           /\ IsFiniteSet(Pairs') /\ Count \in Nat
           /\ Count' = IF IsNew(c, d) THEN Count + 1 ELSE Count
           /\ ~Wrapped' => ~Wrapped
  <1>1. Pairs' = Pairs \cup {<<c, d>>}
    BY WithEntry DEF idFor, PairKey, Pairs
  <1>2. Count \in Nat
    BY FS_CardinalityType DEF Count
  <1>3. /\ IsFiniteSet(Pairs')
        /\ Count' = IF IsNew(c, d) THEN Count + 1 ELSE Count
    BY <1>1, FS_AddElement DEF Count, IsNew, PairKey, Pairs
  <1>4. ~Wrapped' => ~Wrapped
    BY <1>2, <1>3 DEF Wrapped, Count, Pairs
  <1> QED
    BY <1>1, <1>2, <1>3, <1>4

\* uint16 arithmetic does not wrap below the largest ID.
LEMMA FollowingID ==
    ASSUME NEW n \in Nat, n < MaxID
    PROVE  Following(n) = n + 1
  BY DEF Following

(***************************************************************************)
(* idFor takes no ID from its owner, and the pair it returns for owns its  *)
(* own.                                                                    *)
(***************************************************************************)
LEMMA IdForKeepsOwners ==
    ASSUME UdpgwInv, NEW c \in Client, NEW d \in Dest, idFor(c, d), ~Wrapped'
    PROVE  /\ ~Wrapped
           /\ \A a, id : Owns(a, id) => Owns(a, id)'
           /\ \A k \in Pairs' : Owns(k[1], pairID[k])'
           /\ idClient'[IDFor(c, d)] = c /\ IDFor(c, d) \in DOMAIN idClient'
           /\ IDFor(c, d) \in Nat
           /\ FreshID'
  <1> DEFINE k0 == <<c, d>>
             i0 == IDFor(c, d)
  <1>1. /\ Pairs' = Pairs \cup {k0} /\ Count \in Nat
        /\ Count' = IF IsNew(c, d) THEN Count + 1 ELSE Count
        /\ ~Wrapped
    BY CountGrows DEF UdpgwInv
  <1>2. FreshID /\ Addressed
    BY <1>1 DEF UdpgwInv
  <1>3. /\ DOMAIN idClient' = DOMAIN idClient \cup {i0}
        /\ idClient'[i0] = c
        /\ \A x \in DOMAIN idClient \ {i0} : idClient'[x] = idClient[x]
    <2>1. idClient' = With(idClient, i0, c)
      BY DEF idFor
    <2> HIDE DEF i0
    <2> QED
      BY <2>1 DEF With
  <1>4. /\ pairID'[k0] = i0
        /\ \A x \in Pairs \ {k0} : pairID'[x] = pairID[x]
    <2>1. pairID' = With(pairID, k0, i0)
      BY DEF idFor, PairKey
    <2> HIDE DEF i0, k0
    <2> QED
      BY <2>1 DEF With, Pairs
  <1>5. /\ i0 \in 1..Count'
        /\ i0 \in DOMAIN idClient => idClient[i0] = c
        /\ Count' < MaxID => nextID' = Count' + 1
    <2>1. CASE IsNew(c, d)
      <3>1. Count < MaxID /\ Count' = Count + 1
        BY <1>1, <2>1 DEF Wrapped, Count, Pairs
      <3>2. i0 = Count + 1
        BY <1>1, <1>2, <2>1, <3>1 DEF IDFor, NewID, FreshID
      <3>3. nextID' = Following(Count + 1)
        BY <1>1, <1>2, <2>1, <3>1 DEF idFor, NewID, FreshID
      <3>4. Count' < MaxID => nextID' = Count' + 1
        BY <1>1, <3>1, <3>3, FollowingID
      <3> HIDE DEF i0
      <3> QED
        BY <1>1, <1>2, <3>1, <3>2, <3>4 DEF FreshID
    <2>2. CASE ~IsNew(c, d)
      <3>1. k0 \in Pairs /\ i0 = pairID[k0] /\ nextID' = nextID /\ Count' = Count
        BY <1>1, <2>2 DEF IsNew, IDFor, PairKey, Pairs, idFor
      <3>2. Owns(c, i0)
        BY <1>2, <3>1 DEF Addressed
      <3> HIDE DEF i0
      <3> QED
        BY <1>2, <3>1, <3>2 DEF FreshID, Owns
    <2> QED
      BY <2>1, <2>2
  <1> HIDE DEF i0
  <1>6. ASSUME NEW a, NEW id, Owns(a, id) PROVE Owns(a, id)'
    BY <1>3, <1>5, <1>6 DEF Owns
  <1>7. ASSUME NEW k \in Pairs' PROVE Owns(k[1], pairID[k])'
    <2>1. CASE k = k0
      BY <1>3, <1>4, <2>1 DEF Owns
    <2>2. CASE k # k0
      <3>1. k \in Pairs /\ pairID'[k] = pairID[k]
        BY <1>1, <1>4, <2>2
      <3>2. Owns(k[1], pairID[k])
        BY <1>2, <3>1 DEF Addressed
      <3> QED
        BY <1>3, <1>5, <3>1, <3>2 DEF Owns
    <2> QED
      BY <2>1, <2>2
  <1>8. FreshID'
    BY <1>1, <1>2, <1>3, <1>5 DEF FreshID
  <1>9. i0 \in Nat
    BY <1>1, <1>5
  <1> QED
    BY <1>1, <1>3, <1>6, <1>7, <1>8, <1>9 DEF i0

\* Sequences of frames: what is appended, and what is left of one.
LEMMA AppendOwned ==
    ASSUME NEW S, NEW s \in Seq(S), NEW e \in S
    PROVE  /\ Append(s, e) \in Seq(S)
           /\ \A i \in 1..Len(Append(s, e)) :
                 (i \in 1..Len(s) /\ Append(s, e)[i] = s[i]) \/ Append(s, e)[i] = e
  OBVIOUS

LEMMA TailOwned ==
    ASSUME NEW S, NEW s \in Seq(S), s # << >>
    PROVE  /\ Tail(s) \in Seq(S) /\ Head(s) \in S
           /\ 1 \in 1..Len(s) /\ Head(s) = s[1]
           /\ \A i \in 1..Len(Tail(s)) : i + 1 \in 1..Len(s) /\ Tail(s)[i] = s[i + 1]
  OBVIOUS

\* A step that leaves the session alone keeps what is said of it.
LEMMA SameSession ==
    ASSUME UNCHANGED session
    PROVE  /\ Wrapped' <=> Wrapped
           /\ FreshID' <=> FreshID
           /\ IsFiniteSet(Pairs)' <=> IsFiniteSet(Pairs)
           /\ \A a, id : Owns(a, id)' <=> Owns(a, id)
           /\ UNCHANGED <<Pairs, pairID>>
  BY DEF session, Wrapped, FreshID, Pairs, Count, Owns

LEMMA ForwardKeeps ==
    ASSUME UdpgwInv, NEW c \in Client, NEW d \in Dest,
           ForwardDatagram(c, d) \/ ForwardFails(c, d)
    PROVE  UdpgwInv'
  <1>1. idFor(c, d) /\ UNCHANGED <<replies, sockets, delivery>>
    BY DEF ForwardDatagram, ForwardFails, wire
  <1>2. toGateway' \in {toGateway, Append(toGateway, Frame(c, d))}
    BY DEF ForwardDatagram, ForwardFails, wire
  <1>3. IsFiniteSet(Pairs')
    BY <1>1, CountGrows DEF UdpgwInv
  <1>4. ASSUME ~Wrapped' PROVE (WireTypes /\ FreshID /\ Addressed /\ RepliesReachAsker)'
    <2> DEFINE f == Frame(c, d)
    <2>1. /\ ~Wrapped /\ FreshID'
          /\ \A a, id : Owns(a, id) => Owns(a, id)'
          /\ \A k \in Pairs' : Owns(k[1], pairID[k])'
          /\ idClient'[IDFor(c, d)] = c /\ IDFor(c, d) \in DOMAIN idClient'
          /\ IDFor(c, d) \in Nat
      BY <1>1, <1>4, IdForKeepsOwners
    <2>2. WireTypes /\ Addressed /\ RepliesReachAsker
      BY <2>1 DEF UdpgwInv
    <2>3. f \in FrameRec /\ f.id \in DOMAIN idClient' /\ idClient'[f.id] = f.asker
      BY <2>1 DEF Frame, FrameRec, IsNew
    <2> HIDE DEF f
    <2>4. /\ toGateway' \in Seq(FrameRec)
          /\ \A i \in 1..Len(toGateway') :
                (i \in 1..Len(toGateway) /\ toGateway'[i] = toGateway[i]) \/ toGateway'[i] = f
      <3>1. CASE toGateway' = toGateway
        BY <2>2, <3>1 DEF WireTypes
      <3>2. CASE toGateway' = Append(toGateway, f)
        BY <2>2, <2>3, <3>2, AppendOwned DEF WireTypes
      <3> QED
        BY <1>2, <3>1, <3>2 DEF f
    <2>5. WireTypes'
      BY <1>1, <2>2, <2>4 DEF WireTypes
    <2>6. \A i \in 1..Len(toGateway') : Owns(toGateway[i].asker, toGateway[i].id)'
      <3> SUFFICES ASSUME NEW i \in 1..Len(toGateway')
                   PROVE  Owns(toGateway[i].asker, toGateway[i].id)'
        OBVIOUS
      <3>1. CASE i \in 1..Len(toGateway) /\ toGateway'[i] = toGateway[i]
        BY <2>1, <2>2, <3>1 DEF Addressed, Owns
      <3>2. CASE toGateway'[i] = f
        BY <2>3, <3>2 DEF Owns
      <3> QED
        BY <2>4, <3>1, <3>2
    <2>7. Addressed'
      BY <1>1, <2>1, <2>2, <2>6 DEF Addressed
    <2>8. RepliesReachAsker'
      BY <1>1, <2>1, <2>2 DEF RepliesReachAsker
    <2> QED
      BY <2>1, <2>5, <2>7, <2>8
  <1> QED
    BY <1>3, <1>4 DEF UdpgwInv

LEMMA DeliverKeeps == UdpgwInv /\ DeliverReply => UdpgwInv'
  <1> SUFFICES ASSUME UdpgwInv, DeliverReply PROVE UdpgwInv'
    OBVIOUS
  <1>1. UNCHANGED session /\ UNCHANGED <<toGateway, sockets>>
    BY DEF DeliverReply
  <1> SUFFICES ASSUME ~Wrapped PROVE (WireTypes /\ Addressed /\ RepliesReachAsker)'
    BY <1>1, SameSession DEF UdpgwInv
  <1>2. WireTypes /\ Addressed
    BY DEF UdpgwInv
  <1>3. replies # << >> /\ replies' = Tail(replies)
    BY DEF DeliverReply
  <1>4. /\ replies' \in Seq(ReplyRec)
        /\ \A i \in 1..Len(replies') : i + 1 \in 1..Len(replies) /\ replies'[i] = replies[i + 1]
    BY <1>2, <1>3, TailOwned DEF WireTypes
  <1>5. Addressed'
    BY <1>1, <1>2, <1>4, SameSession DEF Addressed
  <1>6. Owns(Head(replies).asker, Head(replies).id)
    BY <1>2, <1>3, TailOwned DEF WireTypes, Addressed
  <1>7. RepliesReachAsker'
    BY <1>6 DEF DeliverReply, Owns, RepliesReachAsker, NoDelivery
  <1> QED
    BY <1>1, <1>2, <1>4, <1>5, <1>7 DEF WireTypes

\* A frame that is taken makes its sender one of its socket's askers.
LEMMA TakesKeeps == UdpgwInv /\ GatewayTakes => UdpgwInv'
  <1> SUFFICES ASSUME UdpgwInv, GatewayTakes PROVE UdpgwInv'
    OBVIOUS
  <1>1. UNCHANGED session /\ UNCHANGED <<replies, delivery>>
    BY DEF GatewayTakes
  <1> SUFFICES ASSUME ~Wrapped PROVE (WireTypes /\ Addressed /\ RepliesReachAsker)'
    BY <1>1, SameSession DEF UdpgwInv
  <1>2. WireTypes /\ Addressed /\ RepliesReachAsker
    BY DEF UdpgwInv
  <1>3. toGateway # << >> /\ toGateway' = Tail(toGateway)
    BY DEF GatewayTakes
  <1>4. /\ toGateway' \in Seq(FrameRec)
        /\ \A i \in 1..Len(toGateway') :
              i + 1 \in 1..Len(toGateway) /\ toGateway'[i] = toGateway[i + 1]
    BY <1>2, <1>3, TailOwned DEF WireTypes
  <1> DEFINE f == Head(toGateway)
  <1>5. Owns(f.asker, f.id)
    BY <1>2, <1>3, TailOwned DEF WireTypes, Addressed
  <1>6. PICK asked \in SUBSET (IF f.id \in DOMAIN sockets THEN sockets[f.id].askers ELSE {}) :
          sockets' = With(sockets, f.id, [dest |-> f.dest, askers |-> asked \cup {f.asker}])
    BY DEF GatewayTakes
  <1> HIDE DEF f
  <1>7. \A id \in DOMAIN sockets' : \A a \in sockets'[id].askers : Owns(a, id)
    <2>1. DOMAIN sockets' = DOMAIN sockets \cup {f.id}
      BY <1>6 DEF With
    <2>2. sockets'[f.id].askers = asked \cup {f.asker}
      BY <1>6 DEF With
    <2>3. \A id \in DOMAIN sockets : id # f.id => sockets'[id] = sockets[id]
      BY <1>6 DEF With
    <2>4. \A a \in asked : Owns(a, f.id)
      BY <1>2, <1>6 DEF Addressed
    <2> QED
      BY <1>2, <1>5, <2>1, <2>2, <2>3, <2>4 DEF Addressed
  <1>8. Addressed'
    BY <1>1, <1>2, <1>4, <1>7, SameSession DEF Addressed
  <1> QED
    BY <1>1, <1>2, <1>4, <1>8, SameSession DEF WireTypes, RepliesReachAsker

LEMMA RepliesKeep ==
    ASSUME UdpgwInv, NEW id \in 1..MaxID, NEW c \in Client, GatewayReplies(id, c)
    PROVE  UdpgwInv'
  <1>1. UNCHANGED session /\ UNCHANGED <<toGateway, delivery>>
    BY DEF GatewayReplies
  <1> SUFFICES ASSUME ~Wrapped PROVE (WireTypes /\ Addressed /\ RepliesReachAsker)'
    BY <1>1, SameSession DEF UdpgwInv
  <1>2. WireTypes /\ Addressed /\ RepliesReachAsker
    BY DEF UdpgwInv
  <1> DEFINE r == [id |-> id, asker |-> c]
  <1>3. r \in ReplyRec /\ Owns(r.asker, r.id)
    BY <1>2 DEF GatewayReplies, Addressed, ReplyRec
  <1>4. replies' = Append(replies, r)
    BY DEF GatewayReplies
  <1> HIDE DEF r
  <1>5. /\ replies' \in Seq(ReplyRec)
        /\ \A i \in 1..Len(replies') :
              (i \in 1..Len(replies) /\ replies'[i] = replies[i]) \/ replies'[i] = r
    BY <1>2, <1>3, <1>4, AppendOwned DEF WireTypes
  <1>6. \A x \in DOMAIN sockets' : x \in DOMAIN sockets /\ sockets'[x].askers \subseteq sockets[x].askers
    BY DEF GatewayReplies
  <1>7. Addressed'
    BY <1>1, <1>2, <1>3, <1>5, <1>6, SameSession DEF Addressed
  <1> QED
    BY <1>1, <1>2, <1>5, <1>7, SameSession DEF WireTypes, RepliesReachAsker

\* The steps that end something.
LEMMA EndsKeep ==
    ASSUME UdpgwInv,
           \/ ForwardEnds \/ DiscardEnds \/ ReaderEnds \/ ReaderRejects
           \/ GatewayCloses \/ ClientCloses \/ UNCHANGED vars
    PROVE  UdpgwInv'
  <1>1. /\ UNCHANGED session /\ UNCHANGED <<replies, sockets, delivery>>
        /\ toGateway' \in {toGateway, << >>}
    BY DEF ForwardEnds, DiscardEnds, ReaderEnds, ReaderRejects, GatewayCloses, ClientCloses, vars, wire
  <1> SUFFICES ASSUME ~Wrapped PROVE (WireTypes /\ Addressed /\ RepliesReachAsker)'
    BY <1>1, SameSession DEF UdpgwInv
  <1>2. WireTypes /\ Addressed /\ RepliesReachAsker
    BY DEF UdpgwInv
  <1>3. toGateway' \in Seq(FrameRec)
    BY <1>1, <1>2, EmptySeq, Zenon DEF WireTypes
  <1>4. \A i \in 1..Len(toGateway') : i \in 1..Len(toGateway) /\ toGateway'[i] = toGateway[i]
    BY <1>1, EmptySeq
  <1>5. Addressed'
    BY <1>1, <1>2, <1>4, SameSession DEF Addressed
  <1> QED
    BY <1>1, <1>2, <1>3, <1>5, SameSession DEF WireTypes, RepliesReachAsker

LEMMA UdpgwInvStep == UdpgwInv /\ [Next]_vars => UdpgwInv'
  BY ForwardKeeps, DeliverKeeps, TakesKeeps, RepliesKeep, EndsKeep DEF Next

(***************************************************************************)
(* A reply goes to the client whose datagram it answers, for any number of *)
(* clients and destinations, until an association has used up its IDs.     *)
(***************************************************************************)
THEOREM EveryReplyReachesAsker == Spec => []RepliesReachAsker
  <1>1. Init => UdpgwInv
    <2> SUFFICES ASSUME Init PROVE UdpgwInv
      OBVIOUS
    <2>1. Pairs = {} /\ DOMAIN idClient = {} /\ DOMAIN sockets = {}
      BY DEF Init, Pairs
    <2>2. IsFiniteSet(Pairs) /\ Count = 0
      BY <2>1, FS_EmptySet DEF Count
    <2>3. WireTypes /\ FreshID /\ Addressed /\ RepliesReachAsker
      BY <2>1, <2>2 DEF Init, WireTypes, FreshID, Addressed, RepliesReachAsker
    <2> QED
      BY <2>2, <2>3 DEF UdpgwInv
  <1>2. UdpgwInv => RepliesReachAsker
    BY DEF UdpgwInv, RepliesReachAsker
  <1> QED
    BY <1>1, <1>2, UdpgwInvStep, PTL DEF Spec

(***************************************************************************)
(* The same of the association inside the SOCKS5 server.                   *)
(***************************************************************************)
THEOREM SocksRepliesReachAsker == SocksSpec => []RepliesReachAsker
  BY SocksImplementsUdpgw, EveryReplyReachesAsker, PTL
=============================================================================
