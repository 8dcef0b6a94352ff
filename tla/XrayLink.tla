------------------------------ MODULE XrayLink ------------------------------
(***************************************************************************)
(* Share links of the Import link dialog: internal/xraylink/xraylink.go.   *)
(*                                                                         *)
(* Somebody shares a server as a link in one of the usual shapes, and      *)
(* Parse makes a configuration of the link.  A text is a sequence of       *)
(* tokens, so that the separators which may also occur in a password are   *)
(* told apart only by where they are found.  Base64 is undone exactly,     *)
(* except that the standard alphabet has a slash: it may come of a "?" in  *)
(* the text, and url.Parse takes what follows it for the path.             *)
(***************************************************************************)
EXTENDS Integers, Sequences, SequencesExt

CONSTANTS
    Servers,   \* what is shared: vless, trojan, ss and vmess servers
    Ports      \* tokens that are positive numbers

VARIABLES
    server,    \* the server shared
    shape,     \* the shape of the link
    url,       \* the link as url.Parse takes it apart
    config     \* what Parse returned

linkVars == <<server, shape, url, config>>

Empty == << >>
Unparsed == [ok |-> FALSE, parsed |-> FALSE]
Refused == [ok |-> FALSE, parsed |-> TRUE]

\* A component of the link: its text, and whether it is base64 of that text.
Raw(t) == [b64 |-> FALSE, text |-> t]
Base64(t) == [b64 |-> TRUE, text |-> t]
Absent == Raw(Empty)

Credentials(s) == s.method \o <<":">> \o s.password
Whole(s) == Credentials(s) \o <<"@">> \o s.host \o <<":", s.port>>

\* The JSON of a vmess link: the same fields, and a remark.
Payload(s) == Whole(s) \o s.remark

IndexOf(t, c) == SelectInSeq(t, LAMBDA x : x = c)
LastIndexOf(t, c) == SelectLastInSeq(t, LAMBDA x : x = c)

Before(t, i) == SubSeq(t, 1, i - 1)
From(t, i) == SubSeq(t, i + 1, Len(t))

\* What stands before the "@": a user name that ends at the first colon which is
\* not escaped.  The code never reads the password behind it.
UserInfo(s) == IF s.scheme = "ss" THEN Credentials(s) ELSE s.password
Username(t) == LET i == IndexOf(t, ":") IN IF i = 0 THEN t ELSE Before(t, i)

\* url.Parse on a link with user information, host and port.
Parts(user, s) == [user |-> user, host |-> Raw(s.host), port |-> s.port]

\* url.Parse on a link that is one base64 word, as far as the first slash.
OneWord(e) == [user |-> Absent, host |-> e, port |-> ""]

\* The links of a shape: the word may be cut where the text has a "?".
Cuts(t) == {SubSeq(t, 1, i - 1) : i \in {j \in 1..Len(t) : t[j] = "?"}}

Links(s, form) ==
    CASE form = "plain" -> {Parts(Raw(Username(UserInfo(s))), s)}
      [] form = "escaped" -> {Parts(Raw(UserInfo(s)), s)}
      [] form = "user64" -> {Parts(Base64(Credentials(s)), s)}
                              \cup {OneWord(Base64(c)) : c \in Cuts(Credentials(s))}
      [] form = "all64" -> {OneWord(Base64(c)) : c \in {Whole(s)} \cup Cuts(Whole(s))}
      [] form = "json" -> {OneWord(Base64(c)) : c \in {Payload(s)} \cup Cuts(Payload(s))}

Shapes(s) ==
    CASE s.scheme \in {"vless", "trojan"} -> {"plain", "escaped"}
      [] s.scheme = "ss" -> {"plain", "escaped", "user64", "all64"}
      [] s.scheme = "vmess" -> {"json"}

NotShared == [user |-> Absent, host |-> Absent, port |-> "none"]

LinkInit ==
    /\ server \in Servers /\ shape \in Shapes(server)
    /\ url = NotShared /\ config = Unparsed

Share ==
    /\ url = NotShared
    /\ url' \in Links(server, shape)
    /\ UNCHANGED <<server, shape, config>>
-----------------------------------------------------------------------------
atoiOrZero(p) == p \in Ports

Marks == {":", "@", "?"}

\* Not base64: refused when a character is not in the alphabet, noise otherwise.
decodeBase64(e) ==
    [ok |-> e.b64 \/ ~\E i \in 1..Len(e.text) : e.text[i] \in Marks,
     text |-> IF e.b64 THEN e.text ELSE <<"noise">>]

OrElseText(a, b) == IF a = "" THEN b ELSE a

\* The name TLS verifies: sni, then the host header, then the address.
ServerName(q, address) ==
    IF q.sni # "" THEN <<q.sni>> ELSE IF q.host # "" THEN <<q.host>> ELSE address

\* Each network and each security has settings of its own.
buildStream(q, address) ==
    LET network == OrElseText(q.type, "tcp")
    IN  [network |-> network,
         security |-> IF q.security = "none" THEN "" ELSE q.security,
         serverName |-> IF q.security \in {"tls", "reality"} THEN ServerName(q, address)
                        ELSE Empty,
         key |-> IF q.security = "reality" THEN q.pbk ELSE "",
         path |-> IF network = "ws" THEN q.path ELSE "",
         hostHeader |-> IF network = "ws" THEN q.host ELSE "",
         service |-> IF network = "grpc" THEN q.serviceName ELSE "",
         header |-> IF network = "kcp" THEN q.headerType ELSE ""]

NoStream == "none"

buildConfig(protocol, address, port, method, password, stream) ==
    [ok |-> TRUE, parsed |-> TRUE, protocol |-> protocol, address |-> address, port |-> port,
     method |-> method, password |-> password, stream |-> stream]

parseVLESSOrTrojan ==
    config' = IF url.user.text = Empty \/ url.host.text = Empty \/ ~atoiOrZero(url.port)
                THEN Refused
                ELSE buildConfig(server.scheme, url.host.text, url.port, Empty,
                                 url.user.text, buildStream(server.query, url.host.text))

\* The shadowsocks server of a text "method:password" and a host.
Shadowsocks(mp, host, port) ==
    LET i == IndexOf(mp, ":")
    IN  IF i <= 1 \/ host = Empty \/ ~atoiOrZero(port) THEN Refused
        ELSE buildConfig("ss", host, port, Before(mp, i), From(mp, i), NoStream)

AtSign_First(t) == IndexOf(t, "@")
AtSign(t) == LastIndexOf(t, "@")

\* The last colon of host:port; without one the port stays 0.
splitHostPort(hp) ==
    LET i == LastIndexOf(hp, ":")
    IN  IF i = 0 THEN [host |-> hp, port |-> ""]
        ELSE [host |-> Before(hp, i),
              port |-> IF Len(hp) = i + 1 THEN hp[i + 1] ELSE ""]

parseSS ==
    IF url.user # Absent
      THEN LET d == decodeBase64(url.user)
               mp == IF d.ok THEN d.text ELSE url.user.text
           IN  config' = Shadowsocks(mp, url.host.text, url.port)
      ELSE LET d == decodeBase64(url.host)
               at == AtSign(d.text)
               hp == splitHostPort(From(d.text, at))
           IN  config' = IF ~d.ok \/ at = 0 THEN Refused
                         ELSE Shadowsocks(Before(d.text, at), hp.host, hp.port)

\* The query parseVMess sets: the payload's header type has no place in it, and
\* the service of grpc is its path there.
VMessQuery(q) ==
    [q EXCEPT !.security = IF q.security = "tls" THEN "tls" ELSE "",
              !.headerType = "", !.serviceName = "", !.pbk = ""]

\* json.Unmarshal fails on a payload that is cut, and on a port that is not a
\* string.
parseVMess ==
    config' = IF \/ url.host.text # Payload(server) \/ ~server.portIsString
                 \/ server.host = Empty \/ server.password = Empty
                 \/ ~atoiOrZero(server.port)
                THEN Refused
                ELSE buildConfig("vmess", server.host, server.port, Empty, server.password,
                                 buildStream(VMessQuery(server.query), server.host))

Parse ==
    /\ url # NotShared /\ config = Unparsed
    /\ \/ server.scheme \in {"vless", "trojan"} /\ parseVLESSOrTrojan
       \/ server.scheme = "ss" /\ parseSS
       \/ server.scheme = "vmess" /\ parseVMess
    /\ UNCHANGED <<server, shape, url>>

LinkNext == Share \/ Parse

LinkSpec == LinkInit /\ [][LinkNext]_linkVars
-----------------------------------------------------------------------------
\* A link with a password for a user name, whose colons are not escaped.
CutShort ==
    server.scheme # "ss" /\ shape = "plain" /\ Username(server.password) # server.password

(***************************************************************************)
(* A configuration Parse returns is that of the server that was shared,    *)
(* with its own address, port, cipher and password: separators inside a    *)
(* password never move a part of it elsewhere, whichever way the link is   *)
(* put together, unless the link is one that is cut short; and TLS and     *)
(* REALITY always have a name to verify.                                   *)
(***************************************************************************)
LinkServerKept ==
    config.ok =>
        /\ config.protocol = server.scheme
        /\ config.address = server.host /\ config.port = server.port
        /\ CutShort \/ config.password = server.password
        /\ server.scheme = "ss" => config.method = server.method
        /\ server.scheme # "ss" /\ config.stream.security \in {"tls", "reality"} =>
             config.stream.serverName # Empty

(***************************************************************************)
(* An accepted link has the whole password: parseVLESSOrTrojan returns     *)
(* "missing credentials/host/port" for one that has not.                   *)
(***************************************************************************)
WholePassword == config.ok => config.password = server.password

(***************************************************************************)
(* What the README says of share links: the links of a server that has all *)
(* its parts are imported, in each of the shapes the code speaks of.       *)
(***************************************************************************)
EveryLinkImported == config # Refused
=============================================================================
