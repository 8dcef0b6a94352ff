------------------------------- MODULE Socks --------------------------------
(***************************************************************************)
(* One connection to the local SOCKS5 server: internal/engine/socks5.go    *)
(* and the SSH channels it opens (ssh_direct_tcp.go).  The handler reads a *)
(* request under a 30 second deadline, dials through SSH, replies, and     *)
(* then copies both ways, answers DNS datagrams over SSH, or becomes the   *)
(* UDP gateway association that Udpgw describes.                           *)
(*                                                                         *)
(* The client, the remote end, the DNS servers and the SSH session are     *)
(* external.  Each may close or fail at any time.  Bytes are counted only  *)
(* where a property asks: whether the remote's last words are delivered.   *)
(***************************************************************************)
EXTENDS Udpgw, SequencesExt

CONSTANTS
    Requested,     \* servers DNS datagrams are addressed to
    Configured     \* s.DNS

VARIABLES
    stage,       \* what the handler does; "return" during its deferred calls
    open,        \* what it holds: "conn", "udp" (a socket), "channel" (over SSH)
    deferred,    \* what it has deferred closing
    target,      \* the request: "v4", "v6" or "udp"
    udpgwOn,     \* s.UDPGW.Enabled
    deadline,    \* of the client's connection: "running", "passed", "none"
    reply,       \* the reply the client got: "none", "ok", "fail", "unsupported"
    client,      \* "open", "half" (has ended its sending side), "gone"
    ssh,         \* the SSH session is up
    remote,      \* the channel's peer: "none", "open", "eof" (it has ended)
    owed,        \* the remote has sent what the client has not got
    gotData,     \* the client has got bytes of the remote
    copying,     \* the directions of proxyCopy that run
    shut,        \* the ends CloseWrite was called on
    dnsLeft,     \* DNS servers still to ask for the datagram being served
    dnsStep,     \* "dial" or "exchange"
    dnsConns,    \* channels to them that are open
    dnsAsked,    \* the servers whose exchange failed for this datagram
    dnsResult    \* the outcome for the last one: "none", "answered", "failed"

dialog == <<stage, target, udpgwOn, deadline, reply>>
peers == <<client, ssh>>
pipe == <<remote, owed, gotData, copying, shut>>
held == <<open, deferred>>
resolver == <<dnsLeft, dnsStep, dnsConns, dnsAsked, dnsResult>>
socksVars == <<dialog, held, peers, pipe, resolver>>

SocksInit ==
    /\ Init
    /\ stage = "handshake" /\ target = "v4" /\ udpgwOn \in BOOLEAN
    /\ open = {"conn"} /\ deferred = {"conn"}
    /\ deadline = "running" /\ reply = "none"
    /\ client = "open" /\ ssh = TRUE
    /\ remote = "none" /\ owed = FALSE /\ gotData = FALSE /\ copying = {} /\ shut = {}
    /\ dnsLeft = << >> /\ dnsStep = "dial" /\ dnsConns = 0 /\ dnsAsked = {} /\ dnsResult = "none"
-----------------------------------------------------------------------------
(***************************************************************************)
(* Up to the reply.                                                        *)
(***************************************************************************)
To(s) == stage' = s
Readable == client = "open" /\ deadline # "passed"
Writable == client # "gone" /\ deadline # "passed"
Reply(r) == reply' = IF Writable THEN r ELSE reply

Handshake ==
    /\ stage = "handshake" /\ Readable
    /\ To("request") \/ To("return")
    /\ UNCHANGED <<vars, target, udpgwOn, deadline, reply, held, peers, pipe, resolver>>

ReadRequest ==
    /\ stage = "request" /\ Readable
    /\ \/ \E t \in {"v4", "v6"} : target' = t /\ To("dial") /\ UNCHANGED reply
       \/ target' = "udp" /\ To("associate") /\ UNCHANGED reply
       \/ To("return") /\ Reply("unsupported") /\ UNCHANGED target
       \/ To("return") /\ UNCHANGED <<target, reply>>     \* not a request
    /\ UNCHANGED <<vars, udpgwOn, deadline, held, peers, pipe, resolver>>

\* io.ReadFull fails: the client is gone or too slow.
ReadFails ==
    /\ stage \in {"handshake", "request"} /\ ~Readable
    /\ To("return")
    /\ UNCHANGED <<vars, target, udpgwOn, deadline, reply, held, peers, pipe, resolver>>

\* Something is open from here on, and a deferred call closes it.
Opens(x) == open' = open \cup {x} /\ deferred' = deferred \cup {x}

\* dialSSHDirectTCP: a refusal that looks like a misread IPv6 address is
\* answered with a second attempt, the host in brackets.
Dial ==
    /\ stage \in {"dial", "redial"}
    /\ \/ ssh /\ To("reply") /\ remote' = "open" /\ Opens("channel") /\ UNCHANGED reply
       \/ stage = "dial" /\ target = "v6" /\ To("redial") /\ UNCHANGED <<remote, held, reply>>
       \/ To("return") /\ Reply("fail") /\ UNCHANGED <<remote, held>>
    /\ UNCHANGED <<vars, target, udpgwOn, deadline, peers, owed, gotData, copying, shut, resolver>>

\* The reply's own error is ignored; the deadline is lifted.
Connected ==
    /\ stage = "reply"
    /\ Reply("ok") /\ deadline' = "none"
    /\ To("copy") /\ copying' = {"up", "down"}
    /\ UNCHANGED <<vars, target, udpgwOn, held, peers, remote, owed, gotData, shut, resolver>>

\* Both associations begin with a socket; the gateway's dials through SSH.
Associate ==
    /\ stage = "associate"
    /\ \/ To("return") /\ Reply("fail") /\ UNCHANGED held
       \/ Opens("udp") /\ To(IF udpgwOn THEN "gateway" ELSE "accept dns") /\ UNCHANGED reply
    /\ UNCHANGED <<vars, target, udpgwOn, deadline, peers, pipe, resolver>>

DialGateway_NoDefer ==
    /\ stage = "gateway"
    /\ \/ To("return") /\ Reply("fail") /\ UNCHANGED held
       \/ ssh /\ open' = open \cup {"channel"} /\ To("accept udpgw") /\ UNCHANGED <<reply, deferred>>
    /\ UNCHANGED <<vars, target, udpgwOn, deadline, peers, pipe, resolver>>

DialGateway ==
    /\ stage = "gateway"
    /\ \/ To("return") /\ Reply("fail") /\ UNCHANGED held
       \/ ssh /\ Opens("channel") /\ To("accept udpgw") /\ UNCHANGED reply
    /\ UNCHANGED <<vars, target, udpgwOn, deadline, peers, pipe, resolver>>

\* Here the reply's error is not ignored.
Accept ==
    /\ stage \in {"accept dns", "accept udpgw"}
    /\ Reply("ok")
    /\ IF Writable
       THEN deadline' = "none" /\ To(IF stage = "accept dns" THEN "dns" ELSE "udpgw")
       ELSE To("return") /\ UNCHANGED deadline
    /\ UNCHANGED <<vars, target, udpgwOn, held, peers, pipe, resolver>>

\* The deferred calls: what was opened last is closed first.
Return ==
    /\ stage = "return"
    /\ \E x \in deferred :
          /\ x = "conn" => deferred = {"conn"}
          /\ x = "udp" => "channel" \notin deferred
          /\ open' = open \ {x} /\ deferred' = deferred \ {x}
    /\ To(IF deferred' = {} THEN "closed" ELSE "return")
    /\ UNCHANGED <<vars, target, udpgwOn, deadline, reply, peers, pipe, resolver>>

DeadlinePasses ==
    /\ deadline = "running" /\ stage \notin {"return", "closed"}
    /\ deadline' = "passed"
    /\ UNCHANGED <<vars, stage, target, udpgwOn, reply, held, peers, pipe, resolver>>
-----------------------------------------------------------------------------
(***************************************************************************)
(* proxyCopy.  A direction ends at the end of its source or when its sink  *)
(* takes nothing more, and then ends the sink's sending side.              *)
(***************************************************************************)
Direction_NoCloseWrite(d, sink) ==
    /\ d \in copying
    /\ copying' = copying \ {d}
    /\ UNCHANGED <<vars, dialog, held, peers, remote, gotData, shut, resolver>>

Direction(d, sink) ==
    /\ d \in copying
    /\ copying' = copying \ {d} /\ shut' = shut \cup {sink}
    /\ UNCHANGED <<vars, dialog, held, peers, remote, gotData, resolver>>

UpEnds_EndsBoth ==
    /\ client # "open" /\ "up" \in copying
    /\ copying' = {} /\ shut' = shut \cup {"remote"}
    /\ UNCHANGED <<vars, dialog, held, peers, remote, owed, gotData, resolver>>

UpEnds == client # "open" /\ Direction("up", "remote") /\ UNCHANGED owed

\* The client sends on to a remote that is gone.
UpFails == client = "open" /\ (~ssh \/ remote = "eof") /\ Direction("up", "remote") /\ UNCHANGED owed

DownDelivers ==
    /\ "down" \in copying /\ owed /\ client # "gone"
    /\ owed' = FALSE /\ gotData' = TRUE
    /\ UNCHANGED <<vars, dialog, held, peers, remote, copying, shut, resolver>>

DownEnds ==
    /\ IF owed THEN client = "gone" ELSE remote = "eof" \/ ~ssh
    /\ Direction("down", "client")
    /\ owed' = FALSE

CopyDone ==
    /\ stage = "copy" /\ copying = {}
    /\ To("return")
    /\ UNCHANGED <<vars, target, udpgwOn, deadline, reply, held, peers, pipe, resolver>>
-----------------------------------------------------------------------------
(***************************************************************************)
(* handleDNSUDPAssociate: one datagram at a time, its servers one after    *)
(* the other.                                                              *)
(***************************************************************************)
dnsServers(requested) ==
    FoldLeft(LAMBDA out, v : IF Contains(out, v) THEN out ELSE Append(out, v), << >>,
             <<requested>> \o Configured \o <<"1.1.1.1", "8.8.8.8">>)

Serving == dnsLeft # << >>

Datagram(requested) ==
    /\ stage = "dns" /\ ~Serving
    /\ dnsLeft' = dnsServers(requested)
    /\ dnsAsked' = {} /\ dnsResult' = "none"
    /\ UNCHANGED <<vars, dialog, held, peers, pipe, dnsStep, dnsConns>>

\* The next server, or the error once there is none.
AskNext ==
    /\ dnsLeft' = Tail(dnsLeft) /\ dnsAsked' = dnsAsked \cup {Head(dnsLeft)}
    /\ dnsResult' = IF Len(dnsLeft) = 1 THEN "failed" ELSE dnsResult

DnsDial ==
    /\ Serving /\ dnsStep = "dial"
    /\ \/ /\ ssh /\ dnsStep' = "exchange" /\ dnsConns' = dnsConns + 1
          /\ UNCHANGED <<dnsLeft, dnsAsked, dnsResult>>
       \/ AskNext /\ UNCHANGED <<dnsStep, dnsConns>>
    /\ UNCHANGED <<vars, dialog, held, peers, pipe>>

\* The channel is closed whatever comes of the exchange.
DnsExchange ==
    /\ Serving /\ dnsStep = "exchange"
    /\ dnsStep' = "dial" /\ dnsConns' = dnsConns - 1
    /\ \/ ssh /\ dnsLeft' = << >> /\ dnsResult' = "answered" /\ UNCHANGED dnsAsked
       \/ AskNext
    /\ UNCHANGED <<vars, dialog, held, peers, pipe>>

\* Half a second without a datagram, and the control connection has ended.
DnsEnds ==
    /\ stage = "dns" /\ ~Serving /\ client # "open"
    /\ To("return")
    /\ UNCHANGED <<vars, target, udpgwOn, deadline, reply, held, peers, pipe, resolver>>
-----------------------------------------------------------------------------
(***************************************************************************)
(* The UDP gateway association, and its handler's return.  There the       *)
(* client's end is control and the channel's is gateway.  stop closes all  *)
(* that is open, and the deferred calls close it again.                    *)
(***************************************************************************)
Gatewayed(A) ==
    /\ stage = "udpgw" \/ (stage \in {"return", "closed"} /\ stopped)   \* its goroutines go on
    /\ A
    /\ open' = IF stopped' THEN {} ELSE open
    /\ UNCHANGED <<dialog, deferred, peers, pipe, resolver>>

GatewayDone ==
    /\ stage = "udpgw" /\ "forward" \notin running
    /\ To("return")
    /\ UNCHANGED <<vars, target, udpgwOn, deadline, reply, held, peers, pipe, resolver>>
-----------------------------------------------------------------------------
(***************************************************************************)
(* The others.                                                             *)
(***************************************************************************)
ClientEnds(how) ==
    /\ stage \notin {"return", "closed", "udpgw"}
    /\ client = "open" \/ (client = "half" /\ how = "gone")
    /\ client' = how
    /\ UNCHANGED <<vars, dialog, held, ssh, pipe, resolver>>

RemoteSends ==
    /\ stage \in {"reply", "copy"} /\ remote = "open" /\ ssh
    /\ owed' = TRUE
    /\ UNCHANGED <<vars, dialog, held, peers, remote, gotData, copying, shut, resolver>>

RemoteEnds ==
    /\ stage \in {"reply", "copy"} /\ remote = "open"
    /\ remote' = "eof"
    /\ UNCHANGED <<vars, dialog, held, peers, owed, gotData, copying, shut, resolver>>

SSHDies ==
    /\ ssh /\ stage \notin {"return", "closed", "udpgw"}
    /\ ssh' = FALSE
    /\ UNCHANGED <<vars, dialog, held, client, pipe, resolver>>

Talking ==
    \/ Handshake \/ ReadRequest \/ ReadFails \/ Dial \/ Connected
    \/ Associate \/ DialGateway \/ Accept \/ Return
Copying == UpEnds \/ DownDelivers \/ DownEnds \/ CopyDone
Resolving == DnsDial \/ DnsExchange

SocksNext ==
    \/ Talking \/ DeadlinePasses \/ Copying \/ UpFails
    \/ Resolving \/ DnsEnds \/ \E r \in Requested : Datagram(r)
    \/ Gatewayed(Next) \/ GatewayDone
    \/ \E how \in {"half", "gone"} : ClientEnds(how)
    \/ RemoteSends \/ RemoteEnds \/ SSHDies

allVars == <<vars, socksVars>>

(***************************************************************************)
(* The handler is scheduled, a dial ends, and there is a time without a    *)
(* datagram.  A remote told that nothing more comes ends its side, and so  *)
(* does a client.  For FairServers a DNS server answers, or at least       *)
(* closes: no deadline is set that would make it.                          *)
(***************************************************************************)
FairHandler ==
    /\ WF_allVars(Talking) /\ WF_allVars(DnsDial) /\ SF_allVars(DnsEnds)
    /\ WF_allVars(UpEnds) /\ WF_allVars(DownDelivers) /\ WF_allVars(DownEnds)
    /\ WF_allVars(CopyDone)
    /\ WF_allVars("remote" \in shut /\ RemoteEnds)
    /\ WF_allVars("client" \in shut /\ ClientEnds("gone"))
    /\ WF_allVars(Gatewayed(ForwardEnds)) /\ WF_allVars(Gatewayed(DiscardEnds))
    /\ WF_allVars(Gatewayed(ReaderEnds)) /\ WF_allVars(Gatewayed(DeliverReply))
    /\ WF_allVars(GatewayDone)

SocksSpec == SocksInit /\ [][SocksNext]_allVars
SilentServers == SocksSpec /\ FairHandler
FairServers == SilentServers /\ WF_allVars(DnsExchange)
-----------------------------------------------------------------------------
(***************************************************************************)
(* However the handler ends, also when a dial, a reply or an exchange      *)
(* fails or another goroutine of the association has called stop before    *)
(* it, it leaves neither the connection nor a socket nor an SSH channel    *)
(* open and no copy running; and it never holds two channels at a time,    *)
(* however many DNS servers it tries.                                      *)
(***************************************************************************)
NothingLeftOpen ==
    /\ stage = "closed" => open = {} /\ dnsConns = 0 /\ copying = {}
    /\ dnsConns + (IF "channel" \in open THEN 1 ELSE 0) <= 1

(***************************************************************************)
(* A datagram goes unanswered only after every server was asked: the one   *)
(* it names, the configured ones and two public ones, each of them once.   *)
(***************************************************************************)
EveryServerAsked ==
    dnsResult = "failed" =>
       \E r \in Requested : dnsAsked = {r, "1.1.1.1", "8.8.8.8"} \cup ToSet(Configured)

(***************************************************************************)
(* proxyCopy "waits for both copy goroutines to finish": a client that has *)
(* ended its sending side still gets what the remote sends.                *)
(***************************************************************************)
LastWordsDelivered == (stage = "copy" /\ owed) ~> (~owed \/ client = "gone" \/ ~ssh)

(***************************************************************************)
(* A handler whose client has gone, or whose association was stopped,      *)
(* returns in whatever stage it was, and so frees its channel; the other   *)
(* goroutines of the association end too, because the one that notices     *)
(* closes the connections they block on.                                   *)
(***************************************************************************)
HandlerEnds ==
    (client = "gone" \/ ~control \/ stopped) ~>
        stage = "closed" /\ (stopped => running = {})

(***************************************************************************)
(* What the client reads first is the reply, never the remote's bytes.     *)
(***************************************************************************)
ReplyComesFirst == gotData => reply = "ok"
=============================================================================
