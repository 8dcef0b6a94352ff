------------------------------ MODULE SshDial -------------------------------
(***************************************************************************)
(* connectSSH: internal/engine/sshclient.go.  A profile names a list of    *)
(* proxies (payload mode) or of TLS hosts (SSL modes); connectSSH tries    *)
(* them in order, each through TCP, TLS, payload and SSH handshake as the  *)
(* mode asks, and returns the first connection that gets through all of    *)
(* them, with the host that has to stay outside the tunnel.                *)
(*                                                                         *)
(* An entry of a host list is a host and a port, 0 standing for none given *)
(* and NoHost for an entry without a host, such as ":80".  The payload     *)
(* exchange is module Payload; here it succeeds or fails.                  *)
(***************************************************************************)
EXTENDS Naturals, Sequences, FiniteSets, SequencesExt

CONSTANTS
    Host,        \* hosts a list may name
    Target,      \* the SSH server, or the local end of the DNSTT tunnel
    NoHost,      \* the empty host
    ListText,    \* the whole list taken for one host name, which no resolver knows
    EntryPorts,  \* ports an entry may give, 0 for none
    Ports,       \* the port field of the profile, 0 for none
    TargetPort,
    MaxList      \* bound: entries in a list

ASSUME HostAssumption ==
    /\ Target \notin Host \cup {NoHost, ListText}
    /\ NoHost \notin Host \cup {ListText} /\ ListText \notin Host
    /\ EntryPorts \subseteq Nat /\ Ports \subseteq Nat
    /\ TargetPort \in Nat \ {0} /\ MaxList \in Nat

Mode == {"direct", "dnstt", "payload", "ssl", "payloadSSL"}
TLSModes == {"ssl", "payloadSSL"}
PayloadModes == {"payload", "payloadSSL"}
Listed == {"payload"} \cup TLSModes   \* modes that use a list of hosts

Entry == [host : Host \cup {NoHost}, port : EntryPorts]
Empty == [host |-> NoHost, port |-> 0]

VARIABLES
    mode, list, port,   \* the profile
    attempts,           \* the attempts it asks for
    i,                  \* index of the current one
    pc,                 \* step of the attempt
    ctxDone,            \* the context of Start is cancelled
    tried,              \* entries whose host has been dialled
    open,               \* hosts of the connections that are open
    bundle              \* ControlHosts of the result, {} if there is none

profile == <<mode, list, port, attempts>>
vars == <<profile, i, pc, ctxDone, tried, open, bundle>>
-----------------------------------------------------------------------------
(***************************************************************************)
(* The attempts of a profile.                                              *)
(***************************************************************************)
\* splitHostList: empty entries are dropped, of equal ones the first stays.
splitHostList(l) ==
    LET out[k \in 0..Len(l)] ==
          IF k = 0 THEN << >>
          ELSE IF l[k] = Empty \/ l[k] \in Range(out[k - 1]) THEN out[k - 1]
          ELSE Append(out[k - 1], l[k])
    IN  out[Len(l)]

hostPortWithDefault(e, default) ==
    IF e.port > 0 THEN e ELSE [e EXCEPT !.port = default]

\* The entries of the list that name a host, with their ports.
Named_FirstOnly(default) ==
    LET all == SelectSeq(splitHostList(list), LAMBDA e : e.host # NoHost)
    IN  IF all = << >> THEN all ELSE <<hostPortWithDefault(Head(all), default)>>

Named(default) ==
    LET all == splitHostList(list)
        out[k \in 0..Len(all)] ==
          IF k = 0 THEN << >>
          ELSE IF all[k].host = NoHost THEN out[k - 1]
          ELSE Append(out[k - 1], hostPortWithDefault(all[k], default))
    IN  out[Len(all)]

\* An attempt without a host: dialTransportAttempt chooses for it.
payloadProxyAttempts ==
    IF port = 0 \/ Named(port) = << >> THEN <<Empty>> ELSE Named(port)

TLSDefault == IF port = 0 THEN TargetPort ELSE port
tlsHostAttempts ==
    IF Named(TLSDefault) = << >>
    THEN <<[host |-> Target, port |-> TLSDefault]>> ELSE Named(TLSDefault)

buildTransportAttempts ==
    CASE mode = "payload"   -> payloadProxyAttempts
      [] mode \in TLSModes  -> tlsHostAttempts
      [] OTHER              -> <<Empty>>

attempt == attempts[i]

\* The host field of the profile is empty.
NoText == list \in {<< >>, <<Empty>>}

\* The host dialTransportAttempt and dialTLSAttempt connect to.
DialledHost ==
    IF mode \in Listed /\ attempt.host # NoHost
    THEN attempt.host
    ELSE IF mode \in Listed /\ ~NoText /\ (port > 0 \/ mode \in TLSModes)
         THEN ListText ELSE Target

controlHostsForAttempt_Target == {Target}

controlHostsForAttempt ==
    IF mode \in Listed /\ attempt.host # NoHost
    THEN {attempt.host} ELSE {Target}
-----------------------------------------------------------------------------
Init ==
    /\ mode \in Mode /\ port \in Ports
    /\ \E n \in 0..MaxList : list \in [1..n -> Entry]
    /\ attempts = buildTransportAttempts
    /\ i = 1 /\ pc = "check"
    /\ ctxDone = FALSE
    /\ tried = {} /\ open = {} /\ bundle = {}

\* The head of the loop of connectSSH.
Check ==
    /\ pc = "check"
    /\ pc' = IF ctxDone \/ i > Len(attempts) THEN "failed" ELSE "dial"
    /\ UNCHANGED <<profile, i, ctxDone, tried, open, bundle>>

\* continue: the attempt has failed, what it had opened is closed.
Continue_LeavesOpen ==
    /\ i' = i + 1 /\ pc' = "check"
    /\ UNCHANGED <<open, bundle>>

Continue ==
    /\ i' = i + 1 /\ pc' = "check"
    /\ open' = open \ {DialledHost}
    /\ UNCHANGED bundle

Advance(to) == pc' = to /\ UNCHANGED <<i, open, bundle>>

AfterTransport == IF mode \in PayloadModes THEN "payload" ELSE "handshake"

\* DialContext; the context bounds it, and so does the dialer's timeout.
Dial ==
    /\ pc = "dial"
    /\ tried' = tried \cup {attempt}
    /\ \/ /\ DialledHost # ListText
          /\ open' = open \cup {DialledHost}
          /\ pc' = IF mode \in TLSModes THEN "tls" ELSE AfterTransport
          /\ UNCHANGED <<i, bundle>>
       \/ Continue
    /\ UNCHANGED <<profile, ctxDone>>

TLSHandshake ==
    /\ pc = "tls"
    /\ Advance(AfterTransport) \/ Continue
    /\ UNCHANGED <<profile, ctxDone, tried>>

WritePayload ==
    /\ pc = "payload"
    /\ Advance("handshake") \/ Continue
    /\ UNCHANGED <<profile, ctxDone, tried>>

finishSSHHandshake ==
    /\ pc = "handshake"
    /\ \/ /\ pc' = "connected" /\ bundle' = controlHostsForAttempt
          /\ UNCHANGED <<i, open>>
       \/ Continue
    /\ UNCHANGED <<profile, ctxDone, tried>>

\* Stop, or a newer Start, cancels the context.
Cancel ==
    /\ ~ctxDone
    /\ ctxDone' = TRUE
    /\ UNCHANGED <<profile, i, pc, tried, open, bundle>>

Next == Check \/ Dial \/ TLSHandshake \/ WritePayload \/ finishSSHHandshake \/ Cancel

Spec == Init /\ [][Next]_vars
-----------------------------------------------------------------------------
(***************************************************************************)
(* However many attempts fail and wherever they fail, their connections    *)
(* are closed: an attempt has at most its own, a failed connectSSH leaves  *)
(* none behind and a successful one exactly the one it returns.            *)
(***************************************************************************)
NoStrayConnection ==
    /\ pc \in {"check", "dial", "failed"} => open = {}
    /\ pc \in {"tls", "payload", "handshake", "connected"} => open = {DialledHost}

(***************************************************************************)
(* The hosts reported with the connection, which Start keeps off the TUN   *)
(* routes, are the host the connection goes to.  Reporting another one     *)
(* would route the tunnel's own packets into the tunnel.                   *)
(***************************************************************************)
ControlHostsAreDialled == pc = "connected" => bundle = open

(***************************************************************************)
(* README, Proxy rotation: "The app tries each proxy until the full        *)
(* sequence succeeds", and "Entries may also include individual ports".    *)
(* connectSSH gives up only when it has tried every host of the list.      *)
(***************************************************************************)
EveryHostTried ==
    pc = "failed" /\ ~ctxDone /\ mode \in Listed
       => \A k \in DOMAIN list :
             list[k].host # NoHost => \E a \in tried : a.host = list[k].host
=============================================================================
