------------------------------ MODULE DnsName -------------------------------
(***************************************************************************)
(* How much of a packet fits into a DNS name: dnsNameCapacity and the MTU  *)
(* of internal/dnsttclient (main.go, api.go), the encoding done by send    *)
(* (dns.go) and the limits NewName enforces (dnsttcore/dns/dns.go).        *)
(*                                                                         *)
(* A name is only its length.  The domain is the octets its labels take,   *)
(* one length octet each included, so 254 is the longest a valid name has  *)
(* (the null terminator is the 255th).                                     *)
(***************************************************************************)
EXTENDS Integers

CONSTANT DomainLength   \* the domains considered
ASSUME DomainAssumption == DomainLength \subseteq 0..254

numPadding == 3
numPaddingForPoll == 8
ClientIDLength == 8

VARIABLES domain,    \* octets of the configured domain
          session,   \* "new", "open" or "refused"
          packet,    \* length of the packet sent last, 0 for a poll
          sent       \* "none", "ok" or the error send returned

nameVars == <<domain, session, packet, sent>>

dnsNameCapacity_NoLabels(d) == ((255 - 1 - d) * 5) \div 8

\* 255 less the terminator and the domain; 63 of 64 octets; 5 bytes in 8.
dnsNameCapacity(d) == ((((255 - 1 - d) * 63) \div 64) * 5) \div 8

\* Client ID, padding and its prefix, and the packet's length prefix.
Overhead == ClientIDLength + 1 + numPadding + 1

\* runContext refuses a domain that leaves less than 80 bytes for KCP.
mtu(d) == dnsNameCapacity(d) - Overhead
MTUFits(d) == mtu(d) >= 80

\* What send puts into the name for a packet of n bytes.
Decoded(n) ==
    IF n = 0 THEN ClientIDLength + 1 + numPaddingForPoll
             ELSE ClientIDLength + 1 + numPadding + 1 + n

\* base32 without padding.
EncodedLen(k) == (8 * k + 4) \div 5

\* chunks(encoded, 63): a length octet for each label of at most 63.
Labels(e) == (e + 62) \div 63

\* The name's wire format: its labels, the domain and the terminator.
NameLength(n, d) ==
    EncodedLen(Decoded(n)) + Labels(EncodedLen(Decoded(n))) + d + 1

NameInit ==
    /\ domain \in DomainLength
    /\ session = "new"
    /\ packet = 0
    /\ sent = "none"

Open ==
    /\ session = "new"
    /\ session' = IF MTUFits(domain) THEN "open" ELSE "refused"
    /\ UNCHANGED <<domain, packet, sent>>

SendOutcome(n, d) ==
    CASE n >= 224 -> "too long"
      [] n < 224 /\ NameLength(n, d) > 255 -> "name is longer than 255 octets"
      [] OTHER -> "ok"

\* KCP hands over packets of at most the MTU; a poll is the empty packet.
Send(n) ==
    /\ session = "open"
    /\ packet' = n
    /\ sent' = SendOutcome(n, domain)
    /\ UNCHANGED <<domain, session>>

NameNext == Open \/ \E n \in 0..mtu(domain) : Send(n)

NameSpec == NameInit /\ [][NameNext]_nameVars
-----------------------------------------------------------------------------
(***************************************************************************)
(* Whatever the domain, once runContext has accepted it no packet KCP may  *)
(* send and no poll is refused by send or by NewName: sendLoop only logs   *)
(* such an error, and the packet would be lost on every retransmission.    *)
(***************************************************************************)
EveryPacketFits == sent \in {"none", "ok"}
=============================================================================
