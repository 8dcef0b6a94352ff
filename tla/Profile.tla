------------------------------ MODULE Profile -------------------------------
(***************************************************************************)
(* A profile and what internal/config/config.go does to one: the defaults  *)
(* ApplyDefaults fills in, the rules Validate enforces, and the file       *)
(* format, whose reader applies both again.                                *)
(*                                                                         *)
(* A profile keeps the fields that depend on each other or on which a rule *)
(* depends.  Texts a rule only wants to be there are members of given, and *)
(* blanks around a text do not count; a number stands for its kind (0      *)
(* unset, 12 out of range for a verbosity).  Arguments are the words in    *)
(* them; a list whose arguments are not just its words, because one has a  *)
(* blank in it or is empty, is in odd.  Modes ssl and payload_ssl are      *)
(* treated as direct and payload are.                                      *)
(***************************************************************************)
EXTENDS Integers, FiniteSets

Mode == {"direct", "payload", "dnstt", "xray", "openvpn"}
Text == {"name", "login", "host", "config", "resolver"}
Route == {"tun", "proxifier", "proxy"}

\* The zero value of the Go type; a literal sets fields of it.
NoID == 0
ZeroProfile ==
    [id |-> NoID, given |-> {}, mode |-> "", payload |-> "", json |-> "",
     path |-> "", args |-> "", odd |-> {}, embedded |-> FALSE, resolver |-> "",
     exe |-> "", dargs |-> FALSE,
     verb |-> 0, port |-> 0, udpgw |-> FALSE, proto |-> "",
     enabled |-> FALSE, route |-> "", ipv6 |-> FALSE, cidr |-> "", dns |-> ""]

\* OpenVPN's verbosity and the local SOCKS port of a profile that names none.
DefaultVerb == 3
DefaultPort == 10809

\* Paths with a blank in them.
Spaced == {"my file.json"}

OrElse(v, default) == IF v = "" THEN default ELSE v
OrNumber(n, default) == IF n = 0 THEN default ELSE n

\* The switch on RouteMode: old profiles carry only Enabled.
RouteOf(p) ==
    IF p.route \in Route THEN p.route ELSE IF p.enabled THEN "tun" ELSE "proxy"

\* The length of each list of arguments is 0.
NoArgs(p) == p.args = "" /\ "xray" \notin p.odd
NoDNSTTArgs(p) == ~p.dargs /\ "dnstt" \notin p.odd

\* The default arguments name the configuration file in one of them.
OddArgs(p) ==
    p.odd \cup {a \in {"xray"} : NoArgs(p) /\ OrElse(p.path, "xray.json") \in Spaced}

(***************************************************************************)
(* ApplyDefaults.  The defaults of a payload, a path, an executable and a  *)
(* CIDR pass Validate; a verbosity of 0 counts as unset.                   *)
(***************************************************************************)
ApplyDefaults(p, newID) ==
    [p EXCEPT
       !.id = IF @ = NoID THEN newID ELSE @,
       !.mode = OrElse(@, "direct"),
       !.payload = OrElse(@, "text"),
       !.path = OrElse(@, "xray.json"),
       !.args = IF NoArgs(p) THEN OrElse(p.path, "xray.json") ELSE @,
       !.odd = OddArgs(p),
       !.resolver = OrElse(@, "doh"),
       !.embedded = @ \/ (p.exe = "" /\ NoDNSTTArgs(p)),
       !.exe = OrElse(@, "set"),
       !.verb = OrNumber(@, DefaultVerb),
       !.port = OrNumber(@, DefaultPort),
       !.proto = OrElse(@, "badvpn"),
       !.cidr = OrElse(@, "v6"),
       !.route = RouteOf(p),
       !.enabled = RouteOf(p) = "tun"]

\* What Validate asks for in each mode.
ModeValid(p) ==
    /\ p.mode \in Mode
    /\ p.mode \in {"direct", "payload", "dnstt"} => "login" \in p.given
    /\ p.mode \in {"direct", "payload"} => "host" \in p.given
    /\ p.mode = "payload" => p.payload \notin {"", "blank"}
    /\ p.mode = "xray" => p.json # "broken"
    /\ p.mode = "openvpn" => "config" \in p.given /\ p.verb \in 0..11
    /\ p.mode = "dnstt" => IF p.embedded THEN p.resolver # "" /\ "resolver" \in p.given
                           ELSE p.exe # ""

\* Protocol names are compared in lower case.
ProtocolKnown(proto) == proto \in {"", "badvpn", "legacy", "BadVPN"}

PortNumber == 1..65535

Validate(p) ==
    /\ "name" \in p.given
    /\ ModeValid(p)
    /\ p.udpgw => ProtocolKnown(p.proto)
    /\ p.port \in PortNumber
    /\ p.enabled /\ p.ipv6 => p.cidr = "v6"
    /\ p.dns # "bad"

\* DecodeProfileFile: the defaults again, then the rules.
Decodes(file) == Validate(ApplyDefaults(file, NoID))
Decoded(file) == ApplyDefaults(file, NoID)
=============================================================================
