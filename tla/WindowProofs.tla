---------------------------- MODULE WindowProofs ----------------------------
(***************************************************************************)
(* Proofs about the window: the profile editor for any number of IDs and   *)
(* edits and any files a user imports; the updater, one update at a time,  *)
(* for any number of releases and updates; the log for rings and texts of  *)
(* any size; and share links for any servers.                              *)
(***************************************************************************)
EXTENDS ProfileEditor, LogView, Updater, XrayLink, Induction, TLAPS

(***************************************************************************)
(* What a text field may hold: what the program itself puts there, and     *)
(* whatever the imported files hold.                                       *)
(***************************************************************************)
TextField ==
    {"mode", "payload", "json", "path", "args", "resolver", "exe", "proto", "route", "cidr", "dns"}

OwnWords ==
    {"", "direct", "payload", "dnstt", "xray", "openvpn", "text", "blank", "valid", "broken",
     "xray.json", "other.json", "my file.json", "doh", "dot", "udp", "set", "badvpn", "legacy", "tun", "proxifier", "proxy", "v6", "bad"}

Words == OwnWords \cup UNION {{file[x] : x \in TextField} : file \in Imports}

ArgList == {"xray", "dnstt"}

\* A profile with numbers from N: naturals in a profile, texts for them in the form.
Record(N) ==
    [id : Nat, given : SUBSET Text, mode : Words, payload : Words, json : Words, path : Words,
     args : Words, odd : SUBSET ArgList, embedded : BOOLEAN, resolver : Words, exe : Words, dargs : BOOLEAN, verb : N, port : N,
     udpgw : BOOLEAN, proto : Words, enabled : BOOLEAN, route : Words, ipv6 : BOOLEAN,
     cidr : Words, dns : Words]

Entry == Nat \cup {Blank, Junk}

\* The files a user imports are profiles, with any texts and numbers in them.
ImportsAreProfiles == \A file \in Imports : file \in Record(Nat)

\* What ApplyDefaults leaves behind.
Settled(p) ==
    /\ p.id # NoID /\ p.mode # "" /\ p.payload # "" /\ p.path # "" /\ ~NoArgs(p)
    /\ p.resolver # "" /\ p.exe # "" /\ p.verb # 0 /\ p.port # 0 /\ p.proto # "" /\ p.cidr # ""
    /\ p.route \in Route /\ p.enabled = (p.route = "tun")

LEMMA WordFacts ==
    /\ OwnWords \subseteq Words /\ Route \subseteq Words
    /\ Protocols \subseteq Words /\ Resolvers \subseteq Words
  BY DEF Words, OwnWords, Route, Protocols, Resolvers

LEMMA NatRecord == Record(Nat) \subseteq Record(Entry)
<1>1. Nat \subseteq Entry
  BY DEF Entry
<1> QED BY <1>1 DEF Record

LEMMA RouteIsRoute ==
    ASSUME NEW p \in Record(Entry)
    PROVE  RouteOf(p) \in Route /\ (p.route \in Route => RouteOf(p) = p.route)
<1>1. p.enabled \in BOOLEAN
  BY DEF Record
<1> QED BY <1>1 DEF RouteOf, Route

LEMMA OrElseFacts ==
    ASSUME NEW v \in Words, NEW w \in OwnWords, w # ""
    PROVE  OrElse(v, w) \in Words /\ OrElse(v, w) # "" /\ (v # "" => OrElse(v, w) = v)
  BY WordFacts DEF OrElse

LEMMA OrNumberFacts ==
    ASSUME NEW n \in Nat, NEW d \in {DefaultVerb, DefaultPort}
    PROVE  OrNumber(n, d) \in Nat /\ OrNumber(n, d) # 0 /\ (n # 0 => OrNumber(n, d) = n)
  BY DEF OrNumber, DefaultVerb, DefaultPort

\* Records are equal when their fields are.
LEMMA SameRecord ==
    ASSUME NEW p \in Record(Entry), NEW q \in Record(Entry),
           p.id = q.id, p.given = q.given, p.mode = q.mode, p.payload = q.payload,
           p.json = q.json, p.path = q.path, p.args = q.args, p.odd = q.odd,
           p.embedded = q.embedded, p.resolver = q.resolver, p.exe = q.exe, p.dargs = q.dargs, p.verb = q.verb, p.port = q.port,
           p.udpgw = q.udpgw, p.proto = q.proto, p.enabled = q.enabled, p.route = q.route,
           p.ipv6 = q.ipv6, p.cidr = q.cidr, p.dns = q.dns
    PROVE  p = q
  BY DEF Record

\* What ApplyDefaults does to each field.
LEMMA DefaultedTexts ==
    ASSUME NEW p \in Record(Nat), NEW n \in Nat
    PROVE  /\ ApplyDefaults(p, n).given = p.given
           /\ ApplyDefaults(p, n).mode = OrElse(p.mode, "direct")
           /\ ApplyDefaults(p, n).payload = OrElse(p.payload, "text")
           /\ ApplyDefaults(p, n).json = p.json
           /\ ApplyDefaults(p, n).path = OrElse(p.path, "xray.json")
           /\ ApplyDefaults(p, n).args = (IF NoArgs(p) THEN OrElse(p.path, "xray.json") ELSE p.args)
           /\ ApplyDefaults(p, n).odd = OddArgs(p)
           /\ ApplyDefaults(p, n).resolver = OrElse(p.resolver, "doh")
           /\ ApplyDefaults(p, n).exe = OrElse(p.exe, "set")
           /\ ApplyDefaults(p, n).proto = OrElse(p.proto, "badvpn")
           /\ ApplyDefaults(p, n).route = RouteOf(p)
           /\ ApplyDefaults(p, n).cidr = OrElse(p.cidr, "v6")
           /\ ApplyDefaults(p, n).dns = p.dns
  BY DEF ApplyDefaults, Record

LEMMA DefaultedNumbers ==
    ASSUME NEW p \in Record(Nat), NEW n \in Nat
    PROVE  /\ ApplyDefaults(p, n).id = (IF p.id = NoID THEN n ELSE p.id)
           /\ ApplyDefaults(p, n).verb = OrNumber(p.verb, DefaultVerb)
           /\ ApplyDefaults(p, n).port = OrNumber(p.port, DefaultPort)
  BY DEF ApplyDefaults, Record

LEMMA DefaultedFlags ==
    ASSUME NEW p \in Record(Nat), NEW n \in Nat
    PROVE  /\ ApplyDefaults(p, n).embedded = (p.embedded \/ (p.exe = "" /\ NoDNSTTArgs(p)))
           /\ ApplyDefaults(p, n).enabled = (RouteOf(p) = "tun")
           /\ ApplyDefaults(p, n).dargs = p.dargs
           /\ ApplyDefaults(p, n).udpgw = p.udpgw
           /\ ApplyDefaults(p, n).ipv6 = p.ipv6
  BY DEF ApplyDefaults, Record

LEMMA DefaultedType ==
    ASSUME NEW p \in Record(Nat), NEW n \in Nat
    PROVE  ApplyDefaults(p, n) \in Record(Nat)
<1>1. /\ p.mode \in Words /\ p.payload \in Words /\ p.path \in Words /\ p.args \in Words
      /\ p.exe \in Words /\ p.proto \in Words /\ p.cidr \in Words /\ p.resolver \in Words
      /\ p.verb \in Nat /\ p.port \in Nat /\ p.id \in Nat /\ p.enabled \in BOOLEAN
      /\ p.odd \in SUBSET ArgList
  BY DEF Record
<1>2. /\ OrElse(p.mode, "direct") \in Words /\ OrElse(p.payload, "text") \in Words
      /\ OrElse(p.path, "xray.json") \in Words /\ OrElse(p.exe, "set") \in Words
      /\ OrElse(p.proto, "badvpn") \in Words /\ OrElse(p.cidr, "v6") \in Words
      /\ OrElse(p.resolver, "doh") \in Words
  BY <1>1, OrElseFacts DEF OwnWords
<1>3. /\ (IF NoArgs(p) THEN OrElse(p.path, "xray.json") ELSE p.args) \in Words
      /\ OddArgs(p) \in SUBSET ArgList
  BY <1>1, <1>2 DEF OddArgs, ArgList
<1>4. OrNumber(p.verb, DefaultVerb) \in Nat /\ OrNumber(p.port, DefaultPort) \in Nat
  BY <1>1, OrNumberFacts
<1>5. RouteOf(p) \in Words
  BY RouteIsRoute, NatRecord, WordFacts
<1>6. (p.embedded \/ (p.exe = "" /\ NoDNSTTArgs(p))) \in BOOLEAN /\ (RouteOf(p) = "tun") \in BOOLEAN
  OBVIOUS
<1>7. (IF p.id = NoID THEN n ELSE p.id) \in Nat
  BY <1>1
<1> DEFINE id == IF p.id = NoID THEN n ELSE p.id
           mode == OrElse(p.mode, "direct")
           payload == OrElse(p.payload, "text")
           path == OrElse(p.path, "xray.json")
           args == IF NoArgs(p) THEN OrElse(p.path, "xray.json") ELSE p.args
           odd == OddArgs(p)
           resolver == OrElse(p.resolver, "doh")
           embedded == p.embedded \/ (p.exe = "" /\ NoDNSTTArgs(p))
           exe == OrElse(p.exe, "set")
           verb == OrNumber(p.verb, DefaultVerb)
           port == OrNumber(p.port, DefaultPort)
           proto == OrElse(p.proto, "badvpn")
           cidr == OrElse(p.cidr, "v6")
           route == RouteOf(p)
           enabled == RouteOf(p) = "tun"
<1>8. /\ id \in Nat /\ mode \in Words /\ payload \in Words /\ path \in Words /\ args \in Words
      /\ embedded \in BOOLEAN /\ exe \in Words /\ verb \in Nat /\ port \in Nat /\ proto \in Words
      /\ cidr \in Words /\ route \in Words /\ enabled \in BOOLEAN
      /\ odd \in SUBSET ArgList /\ resolver \in Words
  BY <1>2, <1>3, <1>4, <1>5, <1>6, <1>7, Zenon
<1>9. ApplyDefaults(p, n) =
        [p EXCEPT !.id = id, !.mode = mode, !.payload = payload, !.path = path, !.args = args,
                  !.odd = odd, !.resolver = resolver, !.embedded = embedded, !.exe = exe, !.verb = verb, !.port = port,
                  !.proto = proto, !.cidr = cidr, !.route = route, !.enabled = enabled]
  BY Zenon DEF ApplyDefaults
<1> HIDE DEF id, mode, payload, path, args, odd, resolver, embedded, exe, verb, port, proto, cidr, route, enabled
<1>10. [p EXCEPT !.id = id, !.mode = mode, !.payload = payload, !.path = path, !.args = args,
                 !.odd = odd, !.resolver = resolver, !.embedded = embedded, !.exe = exe, !.verb = verb, !.port = port,
                 !.proto = proto, !.cidr = cidr, !.route = route, !.enabled = enabled]
          \in Record(Nat)
  BY <1>8 DEF Record
<1> QED BY <1>9, <1>10, Zenon

\* Applying the defaults settles a profile that has or gets an ID ...
LEMMA DefaultsSettle ==
    ASSUME NEW p \in Record(Nat), NEW n \in Nat, p.id # NoID \/ n # NoID
    PROVE  Settled(ApplyDefaults(p, n))
<1>1. /\ p.mode \in Words /\ p.payload \in Words /\ p.path \in Words /\ p.args \in Words
      /\ p.exe \in Words /\ p.proto \in Words /\ p.cidr \in Words
      /\ p.verb \in Nat /\ p.port \in Nat /\ p.enabled \in BOOLEAN
  BY DEF Record
<1>2. /\ OrElse(p.mode, "direct") # "" /\ OrElse(p.payload, "text") # ""
      /\ OrElse(p.path, "xray.json") # "" /\ OrElse(p.exe, "set") # ""
      /\ OrElse(p.cidr, "v6") # ""
  BY DEF OrElse
<1>3. ~NoArgs(ApplyDefaults(p, n))
  <2>1. CASE NoArgs(p)
    <3>1. ApplyDefaults(p, n).args = OrElse(p.path, "xray.json")
      BY <2>1, DefaultedTexts
    <3> QED BY <1>2, <3>1 DEF NoArgs
  <2>2. CASE ~NoArgs(p)
    <3>1. ApplyDefaults(p, n).args = p.args /\ ApplyDefaults(p, n).odd = OddArgs(p)
      BY <2>2, DefaultedTexts
    <3> QED BY <2>2, <3>1 DEF NoArgs, OddArgs
  <2> QED BY <2>1, <2>2
<1>4. OrElse(p.proto, "badvpn") # "" /\ OrElse(p.resolver, "doh") # ""
  BY DEF OrElse
<1>5. ApplyDefaults(p, n).verb # 0 /\ ApplyDefaults(p, n).port # 0
  <2>1. /\ ApplyDefaults(p, n).verb = OrNumber(p.verb, DefaultVerb)
        /\ ApplyDefaults(p, n).port = OrNumber(p.port, DefaultPort)
    BY DefaultedNumbers
  <2>2. p.verb \in Nat /\ p.port \in Nat
    BY <1>1
  <2>3. OrNumber(p.verb, DefaultVerb) # 0 /\ OrNumber(p.port, DefaultPort) # 0
    BY <2>2, OrNumberFacts
  <2> QED BY <2>1, <2>3
<1>6. RouteOf(p) \in Route
  BY RouteIsRoute, NatRecord
<1>7. ApplyDefaults(p, n).enabled = (RouteOf(p) = "tun")
  BY DefaultedFlags
<1>8. ApplyDefaults(p, n).id # NoID
  <2>1. ApplyDefaults(p, n).id = (IF p.id = NoID THEN n ELSE p.id)
    BY DefaultedNumbers
  <2> QED BY <2>1, Zenon
<1> DEFINE q == ApplyDefaults(p, n)
<1>9. /\ q.mode # "" /\ q.payload # "" /\ q.path # "" /\ q.exe # "" /\ q.resolver # ""
      /\ q.proto # "" /\ q.cidr # "" /\ q.route \in Route
      /\ q.enabled = (q.route = "tun")
  BY <1>2, <1>4, <1>6, <1>7, DefaultedTexts
<1> HIDE DEF q
<1> QED BY <1>3, <1>5, <1>8, <1>9, Zenon DEF Settled, q

\* ... and leaves a settled one as it is.
LEMMA SettledStays ==
    ASSUME NEW p \in Record(Nat), NEW n \in Nat, Settled(p)
    PROVE  ApplyDefaults(p, n) = p
<1>1. ApplyDefaults(p, n) \in Record(Entry) /\ p \in Record(Entry)
  BY DefaultedType, NatRecord
<1>2. RouteOf(p) = p.route
  BY <1>1, RouteIsRoute DEF Settled
<1>3. ApplyDefaults(p, n).embedded = p.embedded
  <2>1. p.embedded \in BOOLEAN /\ p.exe # ""
    BY DEF Record, Settled
  <2>2. ApplyDefaults(p, n).embedded = (p.embedded \/ (p.exe = "" /\ NoDNSTTArgs(p)))
    BY DefaultedFlags, Zenon
  <2>3. CASE p.embedded = TRUE
    BY <2>2, <2>3
  <2>4. CASE p.embedded = FALSE
    BY <2>1, <2>2, <2>4
  <2> QED BY <2>1, <2>3, <2>4
<1>4. ApplyDefaults(p, n).enabled = p.enabled
  BY <1>2, DefaultedFlags DEF Settled
<1>5. LET q == ApplyDefaults(p, n)
      IN  /\ q.mode = p.mode /\ q.payload = p.payload /\ q.path = p.path
          /\ q.args = p.args /\ q.exe = p.exe /\ q.resolver = p.resolver
          /\ q.proto = p.proto /\ q.route = p.route /\ q.cidr = p.cidr
  BY <1>2, DefaultedTexts DEF Settled, OrElse
<1>o. ApplyDefaults(p, n).odd = p.odd
  BY DefaultedTexts DEF Settled, OddArgs
<1>6. LET q == ApplyDefaults(p, n) IN q.id = p.id /\ q.verb = p.verb /\ q.port = p.port
  <2>1. p.id # NoID /\ p.verb # 0 /\ p.port # 0
    BY DEF Settled
  <2>2. /\ ApplyDefaults(p, n).id = (IF p.id = NoID THEN n ELSE p.id)
        /\ ApplyDefaults(p, n).verb = OrNumber(p.verb, DefaultVerb)
        /\ ApplyDefaults(p, n).port = OrNumber(p.port, DefaultPort)
    BY DefaultedNumbers
  <2> QED BY <2>1, <2>2, Zenon DEF OrNumber
<1> QED BY <1>1, <1>3, <1>4, <1>5, <1>6, <1>o, SameRecord, DefaultedTexts, DefaultedFlags

-----------------------------------------------------------------------------
\* The select is set last, so what the check's callback chose does not matter.
LEMMA SelectWins ==
    ASSUME NEW f \in Record(Entry), NEW on \in BOOLEAN, NEW r \in Route
    PROVE  SelectRoute(CheckTun(f, on), r) = SelectRoute(f, r)
<1>1. CASE f.enabled = on
  BY <1>1 DEF CheckTun
<1>2. CASE f.enabled # on
  <2>1. PICK x : CheckTun(f, on) = [f EXCEPT !.enabled = on, !.route = x]
    BY <1>2 DEF CheckTun
  <2> QED BY <2>1 DEF SelectRoute, Record
<1> QED BY <1>1, <1>2

\* The form shows p: it is p but for what a widget cannot hold.
Shows(f, p) ==
    /\ f.proto \in Words /\ (p.proto \in Protocols => f.proto = p.proto)
    /\ f.resolver \in Words /\ (p.resolver \in Resolvers => f.resolver = p.resolver)
    /\ f = [p EXCEPT !.odd = {}, !.proto = f.proto, !.resolver = f.resolver]

\* Filling the form from a settled profile does that, whatever the form showed.
LEMMA FilledShows ==
    ASSUME NEW p \in Record(Nat), Settled(p), NEW f \in Record(Entry)
    PROVE  Shows(Filled(f, p), p)
<1> DEFINE proto == IF p.proto \in Protocols THEN p.proto ELSE f.proto
           type == IF p.resolver \in Resolvers THEN p.resolver ELSE f.resolver
           texts == [p EXCEPT !.verb = p.verb, !.port = p.port, !.odd = {},
                              !.proto = f.proto, !.resolver = f.resolver, !.route = f.route,
                              !.enabled = f.enabled]
           named == [texts EXCEPT !.resolver = type, !.proto = proto]
<1>1. RouteOf(p) = p.route /\ p \in Record(Entry)
  BY RouteIsRoute, NatRecord DEF Settled
<1>2. itoa(p.verb) = p.verb /\ itoa(p.port) = p.port
  BY DEF itoa, Settled
<1>3. /\ p.verb \in Entry /\ p.port \in Entry /\ p.enabled \in BOOLEAN /\ p.route \in Words
      /\ p.proto \in Words /\ f.proto \in Words /\ f.route \in Words /\ f.enabled \in BOOLEAN
      /\ p.resolver \in Words /\ f.resolver \in Words
  BY <1>1 DEF Record
<1>4. proto \in Words /\ type \in Words
  BY <1>3
<1>5. Texts(f, p) = texts
  BY <1>2, Zenon DEF Texts
<1>6. texts \in Record(Entry) /\ texts.resolver = f.resolver /\ texts.proto = f.proto
  BY <1>1, <1>3 DEF Record
<1>7. SelectProtocol(SelectResolver(texts, p.resolver), p.proto) = named
  <2> HIDE DEF texts
  <2>1. SelectResolver(texts, p.resolver) = [texts EXCEPT !.resolver = type]
    BY <1>6 DEF SelectResolver
  <2>2. [texts EXCEPT !.resolver = type].proto = f.proto
    BY <1>6 DEF Record
  <2>3. SelectProtocol([texts EXCEPT !.resolver = type], p.proto)
          = [[texts EXCEPT !.resolver = type] EXCEPT !.proto = proto]
    BY <2>2 DEF SelectProtocol
  <2> QED BY <2>1, <2>3
<1>8. named \in Record(Entry)
  <2> HIDE DEF texts, proto, type
  <2> QED BY <1>4, <1>6 DEF Record
<1>9. p.enabled = (p.route = "tun") /\ p.route \in Route
  BY DEF Settled
<1>10. Filled(f, p) = SelectRoute(named, p.route)
  <2>1. Filled(f, p) = SelectRoute(CheckTun(named, p.enabled), p.route)
    BY <1>1, <1>5, <1>7, Zenon DEF Filled
  <2> HIDE DEF named
  <2> QED BY <1>3, <1>8, <1>9, <2>1, SelectWins
<1>11. SelectRoute(named, p.route) = [named EXCEPT !.route = p.route, !.enabled = p.enabled]
  <2> HIDE DEF named
  <2> QED BY <1>9 DEF SelectRoute
<1> HIDE DEF proto, type
<1>12. [named EXCEPT !.route = p.route, !.enabled = p.enabled]
         = [p EXCEPT !.odd = {}, !.proto = proto, !.resolver = type]
  BY <1>1, <1>3, <1>4 DEF Record
<1> DEFINE filled == [p EXCEPT !.odd = {}, !.proto = proto, !.resolver = type]
<1>13. Filled(f, p) = filled
  BY <1>10, <1>11, <1>12, Zenon
<1>14. filled.proto = proto /\ filled.resolver = type
  BY DEF Record
<1>15. /\ p.proto \in Protocols => proto = p.proto
       /\ p.resolver \in Resolvers => type = p.resolver
  BY DEF proto, type
<1>16. filled = [p EXCEPT !.odd = {}, !.proto = filled.proto, !.resolver = filled.resolver]
  BY <1>14, Zenon
<1> HIDE DEF filled
<1> QED BY <1>4, <1>13, <1>14, <1>15, <1>16, Zenon DEF Shows

LEMMA ShowsFacts ==
    ASSUME NEW p \in Record(Nat), NEW f, Shows(f, p)
    PROVE  /\ f \in Record(Nat) /\ f \in Record(Entry)
           /\ f.route = p.route /\ f.enabled = p.enabled
<1> DEFINE proto == f.proto
           type == f.resolver
<1>1. f = [p EXCEPT !.odd = {}, !.proto = proto, !.resolver = type]
      /\ proto \in Words /\ type \in Words
  BY Zenon DEF Shows
<1> HIDE DEF proto, type
<1>2. f \in Record(Nat) /\ f.route = p.route /\ f.enabled = p.enabled
  BY <1>1 DEF Record
<1> QED BY <1>2, NatRecord

\* What the handlers read from the form is a settled profile with its route.
LEMMA ReadFormFacts ==
    ASSUME NEW f \in Record(Entry), f.route \in Route,
           NEW p \in Record(Nat), nextID \in Nat, nextID # NoID
    PROVE  /\ ReadForm(f, p) \in Record(Nat) /\ Settled(ReadForm(f, p))
           /\ ReadForm(f, p).id = (IF p.id = NoID THEN nextID ELSE p.id)
           /\ ReadForm(f, p).route = f.route
<1> DEFINE verb == mustInt(f.verb, DefaultVerb)
           port == mustInt(f.port, DefaultPort)
           read == [f EXCEPT !.id = p.id, !.verb = verb, !.port = port]
<1>1. p.id \in Nat /\ f.verb \in Entry /\ f.port \in Entry
  BY DEF Record
<1>2. verb \in Nat /\ port \in Nat
  BY <1>1 DEF mustInt, Entry, Blank, Junk, DefaultVerb, DefaultPort
<1>3. ReadForm(f, p) = ApplyDefaults(read, nextID)
  BY Zenon DEF ReadForm
<1> HIDE DEF verb, port
<1>4. read \in Record(Nat)
  BY <1>1, <1>2 DEF Record
<1>5. read.id = p.id /\ read.proto = f.proto /\ read.route = f.route
  BY DEF Record
<1> HIDE DEF read
<1>6. ReadForm(f, p) \in Record(Nat) /\ Settled(ReadForm(f, p))
  BY <1>3, <1>4, <1>5, DefaultedType, DefaultsSettle
<1>7. RouteOf(read) = f.route
  BY <1>4, <1>5, NatRecord, RouteIsRoute
<1>8. ReadForm(f, p).id = (IF p.id = NoID THEN nextID ELSE p.id)
  BY <1>3, <1>4, <1>5, DefaultedNumbers
<1>9. ReadForm(f, p).route = f.route
  BY <1>3, <1>4, <1>7, DefaultedTexts
<1> QED BY <1>6, <1>8, <1>9

\* What is read from a form that shows a profile.
LEMMA ReadFormRestores ==
    ASSUME NEW p \in Record(Nat), Settled(p), NEW f, Shows(f, p), nextID \in Nat
    PROVE  LET q == ReadForm(f, p)
           IN  /\ Showable(p) => q = p
               /\ q = [p EXCEPT !.args = q.args, !.odd = q.odd,
                                !.proto = q.proto, !.resolver = q.resolver]
<1> DEFINE q == ReadForm(f, p)
<1>1. f \in Record(Nat) /\ p.verb \in Nat /\ p.port \in Nat
  BY ShowsFacts DEF Record
<1> DEFINE proto == f.proto
           type == f.resolver
<1>2. f = [p EXCEPT !.odd = {}, !.proto = proto, !.resolver = type]
  BY Zenon DEF Shows
<1> HIDE DEF proto, type
<1>3. /\ f.id = p.id /\ f.given = p.given /\ f.mode = p.mode /\ f.payload = p.payload
      /\ f.json = p.json /\ f.path = p.path /\ f.args = p.args /\ f.odd = {}
      /\ f.embedded = p.embedded /\ f.exe = p.exe /\ f.dargs = p.dargs /\ f.verb = p.verb
      /\ f.port = p.port /\ f.udpgw = p.udpgw /\ f.enabled = p.enabled /\ f.route = p.route
      /\ f.ipv6 = p.ipv6 /\ f.cidr = p.cidr /\ f.dns = p.dns
  BY <1>2 DEF Record
<1>4. mustInt(f.verb, DefaultVerb) = f.verb /\ mustInt(f.port, DefaultPort) = f.port
  BY <1>1, <1>3 DEF mustInt, Blank, Junk
<1>5. [f EXCEPT !.id = p.id, !.verb = f.verb, !.port = f.port] = f
  BY <1>1, <1>3 DEF Record
<1>6. q = ApplyDefaults(f, nextID)
  BY <1>4, <1>5, Zenon DEF ReadForm
<1> HIDE DEF q
<1>7. ASSUME Showable(p) PROVE q = p
  <2>1. p.odd = {} /\ f.proto = p.proto /\ f.resolver = p.resolver
    BY <1>7, Zenon DEF Showable, Shows
  <2>2. p \in Record(Nat) /\ p \in Record(Entry) /\ f \in Record(Entry)
    BY <1>1, NatRecord
  <2>3. f = p
    BY <1>1, <1>3, <2>1, <2>2, SameRecord
  <2>4. ApplyDefaults(p, nextID) = p
    BY SettledStays
  <2> QED BY <1>6, <2>3, <2>4, Zenon
<1>8. q = [p EXCEPT !.args = q.args, !.odd = q.odd, !.proto = q.proto, !.resolver = q.resolver]
  <2> DEFINE args == q.args
             odd == q.odd
             named == q.proto
             kind == q.resolver
             w == [p EXCEPT !.args = args, !.odd = odd, !.proto = named, !.resolver = kind]
  <2>1. q \in Record(Nat)
    BY <1>1, <1>6, DefaultedType
  <2>2. RouteOf(f) = p.route /\ p.enabled = (p.route = "tun")
    BY <1>1, <1>3, NatRecord, RouteIsRoute DEF Settled
  <2>3. /\ q.given = p.given /\ q.mode = p.mode /\ q.payload = p.payload /\ q.json = p.json
        /\ q.path = p.path /\ q.exe = p.exe /\ q.route = p.route /\ q.cidr = p.cidr
        /\ q.dns = p.dns
    <3>1. /\ q.given = f.given /\ q.mode = OrElse(f.mode, "direct")
          /\ q.payload = OrElse(f.payload, "text") /\ q.json = f.json
          /\ q.path = OrElse(f.path, "xray.json") /\ q.exe = OrElse(f.exe, "set")
          /\ q.route = RouteOf(f) /\ q.cidr = OrElse(f.cidr, "v6") /\ q.dns = f.dns
      BY <1>1, <1>6, DefaultedTexts, Zenon
    <3>2. p.mode # "" /\ p.payload # "" /\ p.path # "" /\ p.exe # "" /\ p.cidr # ""
      BY Zenon DEF Settled
    <3> QED BY <1>3, <2>2, <3>1, <3>2, Zenon DEF OrElse
  <2>4. q.id = p.id /\ q.verb = p.verb /\ q.port = p.port
    <3>1. p.id # NoID /\ p.verb # 0 /\ p.port # 0
      BY DEF Settled
    <3>2. /\ q.id = (IF f.id = NoID THEN nextID ELSE f.id)
          /\ q.verb = OrNumber(f.verb, DefaultVerb)
          /\ q.port = OrNumber(f.port, DefaultPort)
      BY <1>1, <1>6, DefaultedNumbers
    <3> QED BY <1>3, <3>1, <3>2, Zenon DEF OrNumber
  <2>5. /\ q.embedded = (f.embedded \/ (f.exe = "" /\ NoDNSTTArgs(f)))
        /\ q.enabled = (RouteOf(f) = "tun") /\ q.dargs = f.dargs
        /\ q.udpgw = f.udpgw /\ q.ipv6 = f.ipv6
    BY <1>1, <1>6, DefaultedFlags, Zenon
  <2>6. q.embedded = p.embedded
    <3>1. p.embedded \in BOOLEAN /\ p.exe # ""
      BY DEF Record, Settled
    <3> QED BY <1>3, <2>5, <3>1
  <2>7. q.enabled = p.enabled /\ q.dargs = p.dargs /\ q.udpgw = p.udpgw /\ q.ipv6 = p.ipv6
    BY <1>3, <2>2, <2>5
  <2>8. args \in Words /\ odd \in SUBSET ArgList /\ named \in Words /\ kind \in Words
    BY <2>1 DEF Record
  <2> HIDE DEF args, odd, named, kind
  <2>9. w \in Record(Nat)
    BY <2>8 DEF Record
  <2>10. /\ w.id = p.id /\ w.given = p.given /\ w.mode = p.mode /\ w.payload = p.payload
         /\ w.json = p.json /\ w.path = p.path /\ w.args = args /\ w.odd = odd
         /\ w.embedded = p.embedded /\ w.resolver = kind /\ w.exe = p.exe /\ w.dargs = p.dargs
         /\ w.verb = p.verb /\ w.port = p.port /\ w.udpgw = p.udpgw /\ w.proto = named
         /\ w.enabled = p.enabled /\ w.route = p.route /\ w.ipv6 = p.ipv6 /\ w.cidr = p.cidr
         /\ w.dns = p.dns
    BY DEF Record
  <2> HIDE DEF w
  <2>11. q.args = args /\ q.odd = odd /\ q.proto = named /\ q.resolver = kind
    BY DEF args, odd, named, kind
  <2>12. q = w
    BY <2>1, <2>3, <2>4, <2>6, <2>7, <2>9, <2>10, <2>11, NatRecord, SameRecord
  <2> QED BY <2>12 DEF w, args, odd, named, kind
<1> QED BY <1>7, <1>8, Zenon DEF q

-----------------------------------------------------------------------------
(***************************************************************************)
(* The inductive invariant.  A profile with an ID has its defaults, and so *)
(* has every file; an untouched form shows the profile on screen; IDs that *)
(* were not handed out are nowhere in use.                                 *)
(***************************************************************************)
EditorType ==
    /\ current \in Record(Nat) /\ form \in Record(Entry)
    /\ nextID \in Nat /\ nextID # NoID

Widgets ==
    /\ form.route \in Route
    /\ current.id # NoID \/ choice # NoChoice => form.enabled = (form.route = "tun")
    /\ choice # NoChoice => form.route = choice

Shown ==
    current.id # NoID =>
       Settled(current) /\ current.id < nextID /\ (~edited => Shows(form, current))

FilesStand ==
    \A i \in DOMAIN files :
       /\ files[i] \in Record(Nat) /\ Settled(files[i]) /\ Validate(files[i])
       /\ files[i].id = i /\ i \in Nat /\ i < nextID

EditorInv == EditorType /\ Widgets /\ Shown /\ FilesStand

LEMMA InvariantSuffices == EditorInv => EditorConsistent
<1> SUFFICES ASSUME EditorInv PROVE EditorConsistent
  OBVIOUS
<1>1. FormShowsProfile
  <2> SUFFICES ASSUME ~edited, current.id # NoID
               PROVE  LET p == ReadForm(form, current)
                      IN  /\ Showable(current) => p = current
                          /\ p = [current EXCEPT !.args = p.args, !.odd = p.odd,
                                                 !.proto = p.proto, !.resolver = p.resolver]
    BY Zenon DEF FormShowsProfile
  <2>1. Shows(form, current) /\ Settled(current) /\ current \in Record(Nat) /\ nextID \in Nat
    BY DEF EditorInv, EditorType, Shown
  <2> QED BY <2>1, ReadFormRestores, Zenon
<1>2. SavedProfilesStand
  <2>1. ASSUME NEW i \in DOMAIN files PROVE Decodes(files[i]) /\ Decoded(files[i]) = files[i]
    <3>1. ApplyDefaults(files[i], NoID) = files[i]
      BY SettledStays DEF EditorInv, FilesStand, NoID
    <3> QED BY <3>1 DEF EditorInv, FilesStand, Decodes, Decoded
  <2>2. current.id # NoID => ApplyDefaults(current, NoID) = current
    BY SettledStays DEF EditorInv, EditorType, Shown, NoID
  <2> QED BY <2>1, <2>2 DEF SavedProfilesStand
<1>3. RouteChoiceKept
  <2>1. current.id # NoID \/ choice # NoChoice => form.enabled = (form.route = "tun")
    BY DEF EditorInv, Widgets
  <2>2. ASSUME choice # NoChoice
        PROVE  ReadForm(form, current).route = choice
               /\ ReadForm(form, current).enabled = (choice = "tun")
    <3>1. ReadForm(form, current).route = choice /\ Settled(ReadForm(form, current))
      BY <2>2, ReadFormFacts DEF EditorInv, EditorType, Widgets
    <3> QED BY <3>1 DEF Settled
  <2> QED BY <2>1, <2>2 DEF RouteChoiceKept
<1> QED BY <1>1, <1>2, <1>3 DEF EditorConsistent

-----------------------------------------------------------------------------
(***************************************************************************)
(* Parts of the step: what showing a profile, changing the form and        *)
(* writing a file do to the invariant.                                     *)
(***************************************************************************)
LEMMA LessThenLeq ==
    ASSUME NEW a \in Nat, NEW b \in Nat, NEW c \in Nat, a < b, b <= c
    PROVE  a < c
  OBVIOUS

LEMMA LessDiffers ==
    ASSUME NEW a \in Nat, NEW b \in Nat, a < b
    PROVE  a # b
  OBVIOUS

LEMMA StaysPositive ==
    ASSUME NEW a \in Nat, NEW b \in Nat, a # NoID, a <= b
    PROVE  b # NoID
  BY DEF NoID

LEMMA FilesStay ==
    ASSUME EditorInv, files' = files, nextID' \in Nat, nextID <= nextID'
    PROVE  FilesStand'
  BY DEF EditorInv, EditorType, FilesStand

LEMMA SavedFacts ==
    ASSUME EditorInv, NEW p \in Record(Nat)
    PROVE  /\ Saved(p) \in Record(Nat) /\ Settled(Saved(p))
           /\ Saved(p).id = (IF p.id = NoID THEN nextID ELSE p.id)
           /\ Saved(p).id \in Nat
<1>1. nextID \in Nat /\ nextID # NoID
  BY DEF EditorInv, EditorType
<1>2. Saved(p) \in Record(Nat) /\ Settled(Saved(p))
  BY <1>1, DefaultedType, DefaultsSettle DEF Saved
<1>3. Saved(p).id = (IF p.id = NoID THEN nextID ELSE p.id)
  BY <1>1, DefaultedNumbers DEF Saved
<1>4. Saved(p).id \in Nat
  BY <1>2 DEF Record
<1> QED BY <1>2, <1>3, <1>4

LEMMA WrittenStands ==
    ASSUME EditorInv, NEW p \in Record(Nat),
           Validate(Saved(p)), files' = Written(p),
           nextID' \in Nat, nextID <= nextID', Saved(p).id < nextID'
    PROVE  FilesStand'
<1> SUFFICES ASSUME NEW i \in DOMAIN files'
             PROVE  /\ files'[i] \in Record(Nat) /\ Settled(files'[i]) /\ Validate(files'[i])
                    /\ files'[i].id = i /\ i \in Nat /\ i < nextID'
  BY Zenon DEF FilesStand
<1>1. CASE i = Saved(p).id
  <2>1. files'[i] = Saved(p)
    BY <1>1 DEF Written
  <2> QED BY <1>1, <2>1, SavedFacts
<1>2. CASE i # Saved(p).id
  <2>1. i \in DOMAIN files /\ files'[i] = files[i]
    BY <1>2 DEF Written
  <2>2. /\ files[i] \in Record(Nat) /\ Settled(files[i]) /\ Validate(files[i])
        /\ files[i].id = i /\ i \in Nat /\ i < nextID /\ nextID \in Nat
    BY <2>1 DEF EditorInv, EditorType, FilesStand
  <2>3. i < nextID'
    <3>1. i \in Nat /\ i < nextID /\ nextID \in Nat
      BY <2>2
    <3> QED BY <3>1, LessThenLeq, Zenon
  <2> QED BY <2>1, <2>2, <2>3
<1> QED BY <1>1, <1>2

LEMMA ShowsSettled ==
    ASSUME current' \in Record(Nat), Settled(current'), Shows(form', current'),
           choice' = NoChoice, current'.id < nextID', nextID' \in Nat, nextID' # NoID
    PROVE  EditorType' /\ Widgets' /\ Shown'
<1>1. form' \in Record(Entry) /\ form'.route = current'.route /\ form'.enabled = current'.enabled
  BY ShowsFacts
<1>2. EditorType'
  BY <1>1 DEF EditorType
<1>3. Widgets'
  BY <1>1 DEF Widgets, Settled
<1>4. Shown'
  BY DEF Shown, Settled
<1> QED BY <1>2, <1>3, <1>4

LEMMA SetProfileShows ==
    ASSUME EditorInv, NEW q \in Record(Nat),
           NEW f \in Record(Entry), setProfile(f, q)
    PROVE  /\ current' = Saved(q) /\ current' \in Record(Nat) /\ Settled(current')
           /\ current'.id = (IF q.id = NoID THEN nextID ELSE q.id)
           /\ Shows(form', current') /\ choice' = NoChoice
<1>1. current' = Saved(q) /\ form' = Filled(f, Saved(q)) /\ choice' = NoChoice
  BY DEF setProfile, Saved
<1>2. Shows(Filled(f, Saved(q)), Saved(q))
  BY SavedFacts, FilledShows
<1> QED BY <1>1, <1>2, SavedFacts

LEMMA FormChanges ==
    ASSUME EditorInv, NEW f \in Record(Entry), Change(f),
           f.route \in Route,
           current.id # NoID \/ choice' # NoChoice => f.enabled = (f.route = "tun"),
           choice' # NoChoice => f.route = choice'
    PROVE  EditorInv'
<1>1. form' = f /\ edited' = TRUE /\ UNCHANGED <<files, profiles, current, nextID>>
  BY DEF Change
<1>2. EditorType'
  BY <1>1 DEF EditorInv, EditorType
<1>3. Widgets'
  BY <1>1 DEF Widgets
<1>4. Shown'
  BY <1>1 DEF EditorInv, Shown
<1>5. FilesStand'
  BY <1>1 DEF EditorInv, FilesStand
<1> QED BY <1>2, <1>3, <1>4, <1>5 DEF EditorInv

LEMMA FieldChanges ==
    ASSUME EditorInv, NEW f \in Record(Entry), Change(f), UNCHANGED choice,
           f.route = form.route, f.enabled = form.enabled
    PROVE  EditorInv'
<1>1. /\ f.route \in Route
      /\ current.id # NoID \/ choice' # NoChoice => f.enabled = (f.route = "tun")
      /\ choice' # NoChoice => f.route = choice'
  BY DEF EditorInv, Widgets
<1> QED BY <1>1, FormChanges

LEMMA OwnProfiles ==
    /\ ZeroProfile \in Record(Nat) /\ ZeroProfile.id = NoID
    /\ newProfile \in Record(Nat) /\ newProfile.id = NoID
    /\ EmptyForm \in Record(Entry) /\ EmptyForm.route = "tun"
<1>1. /\ "doh" \in Words /\ "" \in Words /\ "direct" \in Words /\ "text" \in Words /\ "badvpn" \in Words /\ "tun" \in Words
  BY WordFacts DEF OwnWords
<1>2. Blank \in Entry
  BY DEF Entry
<1>3. NoID \in Nat
  BY DEF NoID
<1>4. ZeroProfile \in Record(Nat) /\ ZeroProfile.id = NoID
  BY <1>1, <1>3 DEF ZeroProfile, Record
<1>5. newProfile \in Record(Nat) /\ newProfile.id = NoID
  <2>1. "name" \in Text
    BY DEF Text
  <2> QED BY <1>1, <1>4, <2>1 DEF newProfile, Record
<1>6. EmptyForm \in Record(Entry) /\ EmptyForm.route = "tun"
  BY <1>1, <1>2, <1>4, NatRecord DEF EmptyForm, Record
<1> QED BY <1>4, <1>5, <1>6

LEMMA StoreAndShowKeeps ==
    ASSUME EditorInv, NEW p \in Record(Nat), StoreAndShow(p),
           nextID' \in Nat, nextID <= nextID', Saved(p).id < nextID'
    PROVE  EditorInv'
<1>1. FilesStand'
  BY WrittenStands DEF StoreAndShow
<1>2. Saved(p) \in Record(Nat) /\ Saved(p).id # NoID
  BY SavedFacts DEF Settled
<1>3. form \in Record(Entry) /\ nextID \in Nat /\ nextID # NoID
  BY DEF EditorInv, EditorType
<1>4. setProfile(form, Saved(p))
  BY DEF StoreAndShow
<1>5. /\ current' \in Record(Nat) /\ Settled(current') /\ Shows(form', current') /\ choice' = NoChoice
      /\ current'.id = Saved(p).id
  BY <1>2, <1>3, <1>4, SetProfileShows
<1>6. nextID' # NoID
  BY <1>3, StaysPositive, Zenon
<1> QED BY <1>1, <1>5, <1>6, ShowsSettled DEF EditorInv

\* A list from the disk, or none: see loadProfiles.
LEMMA LoadKeeps ==
    ASSUME EditorInv, NEW disk, NEW cur \in {current, ZeroProfile}, loadProfiles(disk, cur),
           \A i \in DOMAIN disk :
              disk[i] \in Record(Nat) /\ Settled(disk[i]) /\ disk[i].id = i /\ i < nextID
    PROVE  EditorType' /\ Widgets' /\ Shown' /\ nextID' \in Nat /\ nextID <= nextID'
<1>1. form \in Record(Entry) /\ nextID \in Nat /\ nextID # NoID
  BY DEF EditorInv, EditorType
<1>2. ASSUME NEW i \in Listed(disk), setProfile(form, Decoded(disk[i])), nextID' = nextID
      PROVE  EditorType' /\ Widgets' /\ Shown'
  <2>1. disk[i] \in Record(Nat) /\ Settled(disk[i]) /\ disk[i].id = i /\ i < nextID
    BY DEF Listed
  <2>2. Decoded(disk[i]) = disk[i]
    BY <2>1, SettledStays DEF Decoded, NoID
  <2>3. disk[i].id # NoID
    BY <2>1 DEF Settled
  <2>4. /\ current' \in Record(Nat) /\ Settled(current') /\ Shows(form', current')
        /\ choice' = NoChoice /\ current'.id = i
    BY <1>1, <1>2, <2>1, <2>2, <2>3, SetProfileShows
  <2> QED BY <1>1, <1>2, <2>1, <2>4, ShowsSettled
<1>3. ASSUME current' = cur, UNCHANGED <<form, edited, choice, nextID>>
      PROVE  EditorType' /\ Widgets' /\ Shown'
  <2>1. CASE cur = current
    BY <1>3, <2>1 DEF EditorInv, EditorType, Widgets, Shown
  <2>2. CASE cur = ZeroProfile
    BY <1>3, <2>2, OwnProfiles DEF EditorInv, EditorType, Widgets, Shown
  <2> QED BY <2>1, <2>2
<1>4. ASSUME setProfile(form, newProfile), nextID' = nextID + 1
      PROVE  EditorType' /\ Widgets' /\ Shown'
  <2>1. /\ current' \in Record(Nat) /\ Settled(current') /\ Shows(form', current')
        /\ choice' = NoChoice /\ current'.id = nextID
    BY <1>1, <1>4, OwnProfiles, SetProfileShows
  <2>2. nextID' \in Nat /\ nextID' # NoID /\ nextID < nextID'
    BY <1>1, <1>4 DEF NoID
  <2> QED BY <2>1, <2>2, ShowsSettled
<1>5. nextID' = nextID \/ nextID' = nextID + 1
  BY DEF loadProfiles
<1>6. nextID' \in Nat /\ nextID <= nextID'
  BY <1>1, <1>5
<1>7. EditorType' /\ Widgets' /\ Shown'
  BY <1>2, <1>3, <1>4, Zenon DEF loadProfiles
<1> QED BY <1>6, <1>7

-----------------------------------------------------------------------------
(***************************************************************************)
(* One lemma per handler.                                                  *)
(***************************************************************************)
LEMMA EditTextKeeps == EditorInv /\ EditText => EditorInv'
<1> SUFFICES ASSUME EditorInv, NEW t \in Text, UNCHANGED choice,
                    Change([form EXCEPT !.given = (@ \ {t}) \cup ({t} \ @)])
             PROVE  EditorInv'
  BY Zenon DEF EditText
<1> DEFINE g == (form.given \ {t}) \cup ({t} \ form.given)
           f == [form EXCEPT !.given = g]
<1>1. form \in Record(Entry)
  BY DEF EditorInv, EditorType
<1>2. g \in SUBSET Text
  BY <1>1 DEF Record
<1> HIDE DEF g
<1>3. f \in Record(Entry) /\ f.route = form.route /\ f.enabled = form.enabled
  BY <1>1, <1>2 DEF Record
<1>4. Change(f)
  BY Zenon DEF f, g
<1> HIDE DEF f
<1> QED BY <1>1, <1>3, <1>4, FieldChanges

LEMMA EditRouteKeeps == EditorInv /\ EditRoute => EditorInv'
<1> SUFFICES ASSUME EditorInv, EditRoute PROVE EditorInv'
  OBVIOUS
<1>1. form \in Record(Entry) /\ form.enabled \in BOOLEAN /\ form.route \in Route
  BY DEF EditorInv, EditorType, Widgets, Record
<1>2. ASSUME NEW r \in Route, Change(SelectRoute(form, r)), choice' = r PROVE EditorInv'
  <2> DEFINE on == r = "tun"
             f == [form EXCEPT !.route = r, !.enabled = on]
  <2>1. r \in Words /\ on \in BOOLEAN
    BY WordFacts
  <2>2. SelectRoute(form, r) = f
    BY DEF SelectRoute
  <2> HIDE DEF on
  <2>3. f \in Record(Entry) /\ f.route = r /\ f.enabled = on
    BY <1>1, <2>1 DEF Record
  <2> HIDE DEF f
  <2> QED BY <1>1, <1>2, <2>2, <2>3, FormChanges DEF on
<1>3. ASSUME Change(CheckTun(form, ~form.enabled)),
             choice' = IF form.enabled THEN "proxy" ELSE "tun"
      PROVE  EditorInv'
  <2> DEFINE on == ~form.enabled
             r == IF form.enabled THEN "proxy" ELSE "tun"
             f == [form EXCEPT !.enabled = on, !.route = r]
  <2>1. r \in Words /\ on \in BOOLEAN /\ r \in Route /\ on = (r = "tun") /\ r # NoChoice
    BY WordFacts DEF Route, NoChoice
  <2>2. CheckTun(form, ~form.enabled) = f
    <3>1. CASE form.enabled = TRUE
      BY <3>1 DEF CheckTun
    <3>2. CASE form.enabled = FALSE
      BY <3>2 DEF CheckTun
    <3> QED BY <1>1, <3>1, <3>2
  <2>3. Change(f) /\ choice' = r
    BY <1>3, <2>2, Zenon
  <2> HIDE DEF on, r
  <2>4. f \in Record(Entry) /\ f.route = r /\ f.enabled = on
    BY <1>1, <2>1 DEF Record
  <2> HIDE DEF f
  <2> QED BY <1>1, <2>1, <2>3, <2>4, FormChanges
<1> QED BY <1>2, <1>3, Zenon DEF EditRoute

LEMMA EditFieldKeeps == EditorInv /\ EditField => EditorInv'
<1> SUFFICES ASSUME EditorInv, EditField PROVE EditorInv'
  OBVIOUS
<1>0. /\ form \in Record(Entry) /\ form.embedded \in BOOLEAN
      /\ form.udpgw \in BOOLEAN /\ form.ipv6 \in BOOLEAN
  BY DEF EditorInv, EditorType, Widgets, Record
<1>1. /\ Mode \subseteq Words /\ {"", "blank"} \subseteq Words /\ {"", "valid", "broken"} \subseteq Words
      /\ {"", "other.json", "my file.json"} \subseteq Words /\ "bad" \in Words /\ "legacy" \in Words
  BY WordFacts DEF OwnWords, Mode
<1>2. TypedVerbs \subseteq Entry /\ TypedPorts \subseteq Entry
  BY DEF Entry, TypedVerbs, TypedPorts
<1>3. UNCHANGED choice
  BY Zenon DEF EditField
<1>4. ASSUME NEW x \in Words, Change([form EXCEPT !.mode = x]) PROVE EditorInv'
  <2> DEFINE f == [form EXCEPT !.mode = x]
  <2>1. f \in Record(Entry) /\ f.route = form.route /\ f.enabled = form.enabled
    BY <1>0, <1>4 DEF Record
  <2> HIDE DEF f
  <2> QED BY <1>0, <1>3, <1>4, <2>1, FieldChanges DEF f
<1>5. ASSUME NEW x \in Words, Change([form EXCEPT !.payload = x]) PROVE EditorInv'
  <2> DEFINE f == [form EXCEPT !.payload = x]
  <2>1. f \in Record(Entry) /\ f.route = form.route /\ f.enabled = form.enabled
    BY <1>0, <1>5 DEF Record
  <2> HIDE DEF f
  <2> QED BY <1>0, <1>3, <1>5, <2>1, FieldChanges DEF f
<1>6. ASSUME NEW x \in Words, Change([form EXCEPT !.json = x]) PROVE EditorInv'
  <2> DEFINE f == [form EXCEPT !.json = x]
  <2>1. f \in Record(Entry) /\ f.route = form.route /\ f.enabled = form.enabled
    BY <1>0, <1>6 DEF Record
  <2> HIDE DEF f
  <2> QED BY <1>0, <1>3, <1>6, <2>1, FieldChanges DEF f
<1>7. ASSUME NEW x \in Words, Change([form EXCEPT !.path = x]) PROVE EditorInv'
  <2> DEFINE f == [form EXCEPT !.path = x]
  <2>1. f \in Record(Entry) /\ f.route = form.route /\ f.enabled = form.enabled
    BY <1>0, <1>7 DEF Record
  <2> HIDE DEF f
  <2> QED BY <1>0, <1>3, <1>7, <2>1, FieldChanges DEF f
<1>8. ASSUME NEW x \in Words, Change([form EXCEPT !.args = x]) PROVE EditorInv'
  <2> DEFINE f == [form EXCEPT !.args = x]
  <2>1. f \in Record(Entry) /\ f.route = form.route /\ f.enabled = form.enabled
    BY <1>0, <1>8 DEF Record
  <2> HIDE DEF f
  <2> QED BY <1>0, <1>3, <1>8, <2>1, FieldChanges DEF f
<1>9. ASSUME NEW x \in BOOLEAN, Change([form EXCEPT !.embedded = x]) PROVE EditorInv'
  <2> DEFINE f == [form EXCEPT !.embedded = x]
  <2>1. f \in Record(Entry) /\ f.route = form.route /\ f.enabled = form.enabled
    BY <1>0, <1>9 DEF Record
  <2> HIDE DEF f
  <2> QED BY <1>0, <1>3, <1>9, <2>1, FieldChanges DEF f
<1>10. ASSUME NEW x \in Words, Change([form EXCEPT !.exe = x]) PROVE EditorInv'
  <2> DEFINE f == [form EXCEPT !.exe = x]
  <2>1. f \in Record(Entry) /\ f.route = form.route /\ f.enabled = form.enabled
    BY <1>0, <1>10 DEF Record
  <2> HIDE DEF f
  <2> QED BY <1>0, <1>3, <1>10, <2>1, FieldChanges DEF f
<1>11. ASSUME NEW x \in Entry, Change([form EXCEPT !.verb = x]) PROVE EditorInv'
  <2> DEFINE f == [form EXCEPT !.verb = x]
  <2>1. f \in Record(Entry) /\ f.route = form.route /\ f.enabled = form.enabled
    BY <1>0, <1>11 DEF Record
  <2> HIDE DEF f
  <2> QED BY <1>0, <1>3, <1>11, <2>1, FieldChanges DEF f
<1>12. ASSUME NEW x \in Entry, Change([form EXCEPT !.port = x]) PROVE EditorInv'
  <2> DEFINE f == [form EXCEPT !.port = x]
  <2>1. f \in Record(Entry) /\ f.route = form.route /\ f.enabled = form.enabled
    BY <1>0, <1>12 DEF Record
  <2> HIDE DEF f
  <2> QED BY <1>0, <1>3, <1>12, <2>1, FieldChanges DEF f
<1>13. ASSUME NEW x \in BOOLEAN, Change([form EXCEPT !.udpgw = x]) PROVE EditorInv'
  <2> DEFINE f == [form EXCEPT !.udpgw = x]
  <2>1. f \in Record(Entry) /\ f.route = form.route /\ f.enabled = form.enabled
    BY <1>0, <1>13 DEF Record
  <2> HIDE DEF f
  <2> QED BY <1>0, <1>3, <1>13, <2>1, FieldChanges DEF f
<1>14. ASSUME NEW x \in Protocols, Change([form EXCEPT !.proto = x]) PROVE EditorInv'
  <2> DEFINE f == [form EXCEPT !.proto = x]
  <2>1. f \in Record(Entry) /\ f.route = form.route /\ f.enabled = form.enabled
    BY <1>0, <1>14, WordFacts DEF Record
  <2> HIDE DEF f
  <2> QED BY <1>0, <1>3, <1>14, <2>1, FieldChanges DEF f
<1>15. ASSUME NEW x \in BOOLEAN, Change([form EXCEPT !.ipv6 = x]) PROVE EditorInv'
  <2> DEFINE f == [form EXCEPT !.ipv6 = x]
  <2>1. f \in Record(Entry) /\ f.route = form.route /\ f.enabled = form.enabled
    BY <1>0, <1>15 DEF Record
  <2> HIDE DEF f
  <2> QED BY <1>0, <1>3, <1>15, <2>1, FieldChanges DEF f
<1>16. ASSUME NEW x \in Words, Change([form EXCEPT !.cidr = x]) PROVE EditorInv'
  <2> DEFINE f == [form EXCEPT !.cidr = x]
  <2>1. f \in Record(Entry) /\ f.route = form.route /\ f.enabled = form.enabled
    BY <1>0, <1>16 DEF Record
  <2> HIDE DEF f
  <2> QED BY <1>0, <1>3, <1>16, <2>1, FieldChanges DEF f
<1>17. ASSUME NEW x \in Words, Change([form EXCEPT !.dns = x]) PROVE EditorInv'
  <2> DEFINE f == [form EXCEPT !.dns = x]
  <2>1. f \in Record(Entry) /\ f.route = form.route /\ f.enabled = form.enabled
    BY <1>0, <1>17 DEF Record
  <2> HIDE DEF f
  <2> QED BY <1>0, <1>3, <1>17, <2>1, FieldChanges DEF f
<1>20. ASSUME NEW x \in Resolvers, Change([form EXCEPT !.resolver = x]) PROVE EditorInv'
  <2> DEFINE f == [form EXCEPT !.resolver = x]
  <2>1. f \in Record(Entry) /\ f.route = form.route /\ f.enabled = form.enabled
    BY <1>0, <1>20, WordFacts DEF Record
  <2> HIDE DEF f
  <2> QED BY <1>0, <1>3, <1>20, <2>1, FieldChanges DEF f
<1>18. (~form.embedded) \in BOOLEAN /\ (~form.udpgw) \in BOOLEAN /\ (~form.ipv6) \in BOOLEAN
  OBVIOUS
<1>19. /\ SelectProtocol(form, "legacy") = [form EXCEPT !.proto = "legacy"] /\ "legacy" \in Protocols
       /\ SelectResolver(form, "udp") = [form EXCEPT !.resolver = "udp"] /\ "udp" \in Resolvers
  BY DEF SelectProtocol, Protocols, SelectResolver, Resolvers
<1> QED BY <1>1, <1>2, <1>3, <1>4, <1>5, <1>6, <1>7, <1>8, <1>9, <1>10, <1>11, <1>12, <1>13, <1>14, <1>15, <1>16, <1>17, <1>18, <1>19, <1>20, Zenon DEF EditField

LEMMA NewKeeps == EditorInv /\ New => EditorInv'
<1> SUFFICES ASSUME EditorInv, New PROVE EditorInv'
  OBVIOUS
<1>1. form \in Record(Entry) /\ nextID \in Nat /\ nextID # NoID
  BY DEF EditorInv, EditorType
<1>2. setProfile(form, newProfile) /\ nextID' = nextID + 1 /\ files' = files
  BY DEF New
<1>3. /\ current' \in Record(Nat) /\ Settled(current') /\ Shows(form', current')
      /\ choice' = NoChoice /\ current'.id = nextID
  BY <1>1, <1>2, OwnProfiles, SetProfileShows
<1>4. nextID' \in Nat /\ nextID' # NoID /\ nextID < nextID' /\ nextID <= nextID'
  BY <1>1, <1>2 DEF NoID
<1>5. EditorType' /\ Widgets' /\ Shown'
  BY <1>3, <1>4, ShowsSettled
<1> QED BY <1>2, <1>4, <1>5, FilesStay DEF EditorInv

\* What saving the form writes, and the IDs it leaves.
LEMMA SavingForm ==
    ASSUME EditorInv, IDTaken(current)
    PROVE  LET p == ReadForm(form, current)
           IN  /\ p \in Record(Nat) /\ Saved(p) = p
               /\ p.id = (IF current.id = NoID THEN nextID ELSE current.id)
               /\ nextID' \in Nat /\ nextID <= nextID' /\ Saved(p).id < nextID'
<1> DEFINE p == ReadForm(form, current)
<1>1. /\ form \in Record(Entry) /\ form.route \in Route
      /\ current \in Record(Nat) /\ nextID \in Nat /\ nextID # NoID
  BY DEF EditorInv, EditorType, Widgets
<1>2. /\ p \in Record(Nat) /\ Settled(p)
      /\ p.id = (IF current.id = NoID THEN nextID ELSE current.id)
  BY <1>1, ReadFormFacts
<1> HIDE DEF p
<1>4. Saved(p) = p
  BY <1>1, <1>2, SettledStays DEF Saved
<1>5. nextID' = IF current.id = NoID THEN nextID + 1 ELSE nextID
  BY DEF IDTaken
<1>6. current.id # NoID => current.id < nextID
  BY DEF EditorInv, Shown
<1>7. nextID' \in Nat /\ nextID <= nextID' /\ p.id < nextID'
  <2>1. CASE current.id = NoID
    <3>1. nextID' = nextID + 1 /\ p.id = nextID
      BY <1>2, <1>5, <2>1
    <3> QED BY <1>1, <3>1
  <2>2. CASE current.id # NoID
    <3>1. nextID' = nextID /\ p.id = current.id /\ current.id < nextID
      BY <1>2, <1>5, <1>6, <2>2
    <3> QED BY <1>1, <3>1
  <2> QED BY <2>1, <2>2
<1>8. nextID' \in Nat /\ nextID <= nextID' /\ Saved(p).id < nextID'
  BY <1>4, <1>7, Zenon
<1> QED BY <1>2, <1>4, <1>8, Zenon DEF p

LEMMA SameEditor ==
    ASSUME EditorInv, UNCHANGED <<files, current, form, edited, choice, nextID>>
    PROVE  EditorInv'
  BY DEF EditorInv, EditorType, Widgets, Shown, FilesStand

LEMMA SaveProfileKeeps == EditorInv /\ SaveProfile => EditorInv'
<1> SUFFICES ASSUME EditorInv, SaveProfile PROVE EditorInv'
  OBVIOUS
<1>1. CASE SaveForm(ReadForm(form, current))
  <2> DEFINE p == ReadForm(form, current)
  <2>1. StoreAndShow(p) /\ IDTaken(current)
    BY <1>1 DEF SaveForm
  <2>2. /\ p \in Record(Nat)
        /\ nextID' \in Nat /\ nextID <= nextID' /\ Saved(p).id < nextID'
    BY <2>1, SavingForm, Zenon
  <2> HIDE DEF p
  <2> QED BY <2>1, <2>2, StoreAndShowKeeps, Zenon
<1>2. CASE UNCHANGED <<files, profiles, current, form, edited, choice, nextID>>
  BY <1>2, SameEditor
<1> QED BY <1>1, <1>2, Zenon DEF SaveProfile

LEMMA ExportProfileKeeps == EditorInv /\ ExportProfile => EditorInv'
<1> SUFFICES ASSUME EditorInv, ExportProfile PROVE EditorInv'
  OBVIOUS
<1> DEFINE p == ReadForm(form, current)
<1>1. /\ Validate(p) /\ files' = Written(p) /\ IDTaken(current)
      /\ UNCHANGED <<current, form, edited, choice>>
  BY Zenon DEF ExportProfile
<1>2. /\ p \in Record(Nat) /\ Saved(p) = p
      /\ nextID' \in Nat /\ nextID <= nextID' /\ Saved(p).id < nextID'
  BY <1>1, SavingForm, Zenon
<1> HIDE DEF p
<1>3. Validate(Saved(p))
  BY <1>1, <1>2, Zenon
<1>4. FilesStand'
  BY <1>1, <1>2, <1>3, WrittenStands, Zenon
<1>5. nextID \in Nat /\ nextID # NoID /\ current \in Record(Nat)
  BY DEF EditorInv, EditorType
<1>6. nextID' # NoID
  BY <1>2, <1>5, StaysPositive, Zenon
<1>7. EditorType' /\ Widgets'
  BY <1>1, <1>2, <1>6 DEF EditorInv, EditorType, Widgets
<1>8. Shown'
  <2>1. ASSUME current.id # NoID PROVE current.id < nextID'
    <3>1. current.id \in Nat /\ current.id < nextID
      BY <1>5, <2>1 DEF EditorInv, Shown, Record
    <3> QED BY <1>2, <1>5, <3>1, LessThenLeq, Zenon
  <2> QED BY <1>1, <2>1 DEF EditorInv, Shown
<1> QED BY <1>4, <1>7, <1>8 DEF EditorInv

LEMMA SelectKeeps ==
    ASSUME EditorInv, NEW i, Select(i)
    PROVE  EditorInv'
<1>1. /\ form \in Record(Entry) /\ nextID \in Nat /\ nextID # NoID
      /\ files[i] \in Record(Nat) /\ Settled(files[i]) /\ files[i].id = i /\ i < nextID
  BY DEF EditorInv, EditorType, FilesStand, Select
<1>2. setProfile(form, files[i]) /\ files' = files /\ nextID' = nextID
  BY <1>1, SettledStays DEF Select, Decoded, NoID, bounds
<1>3. files[i].id # NoID
  BY <1>1 DEF Settled
<1>4. /\ current' \in Record(Nat) /\ Settled(current') /\ Shows(form', current')
      /\ choice' = NoChoice /\ current'.id = i
  BY <1>1, <1>2, <1>3, SetProfileShows
<1>5. EditorType' /\ Widgets' /\ Shown'
  BY <1>1, <1>2, <1>4, ShowsSettled
<1>6. FilesStand'
  BY <1>2 DEF EditorInv, FilesStand
<1> QED BY <1>5, <1>6 DEF EditorInv

LEMMA DeleteProfileKeeps == EditorInv /\ DeleteProfile => EditorInv'
<1> SUFFICES ASSUME EditorInv, DeleteProfile PROVE EditorInv'
  OBVIOUS
<1>1. files' = [i \in DOMAIN files \ {current.id} |-> files[i]] /\ loadProfiles(files', ZeroProfile)
  BY Zenon DEF DeleteProfile
<1>2. ASSUME NEW i \in DOMAIN files'
      PROVE  i \in DOMAIN files /\ files'[i] = files[i]
  BY <1>1
<1>3. \A i \in DOMAIN files' :
         /\ files'[i] \in Record(Nat) /\ Settled(files'[i]) /\ Validate(files'[i])
         /\ files'[i].id = i /\ i \in Nat /\ i < nextID
  BY <1>2 DEF EditorInv, FilesStand
<1>4. EditorType' /\ Widgets' /\ Shown' /\ nextID' \in Nat /\ nextID <= nextID'
  BY <1>1, <1>3, LoadKeeps, Zenon
<1>5. nextID \in Nat
  BY DEF EditorInv, EditorType
<1>6. FilesStand'
  <2>1. ASSUME NEW i \in DOMAIN files' PROVE i < nextID'
    BY <1>3, <1>4, <1>5, LessThenLeq, Zenon
  <2> QED BY <1>3, <2>1, Zenon DEF FilesStand
<1> QED BY <1>4, <1>6 DEF EditorInv

LEMMA ImportNoLinkKeeps == EditorInv /\ ImportNoLink => EditorInv'
<1> SUFFICES ASSUME EditorInv, ImportNoLink PROVE EditorInv'
  OBVIOUS
<1>1. files' = files /\ loadProfiles(files, current)
  BY DEF ImportNoLink
<1>2. \A i \in DOMAIN files :
         files[i] \in Record(Nat) /\ Settled(files[i]) /\ files[i].id = i /\ i < nextID
  BY DEF EditorInv, FilesStand
<1>3. EditorType' /\ Widgets' /\ Shown' /\ nextID' \in Nat /\ nextID <= nextID'
  BY <1>1, <1>2, LoadKeeps, Zenon
<1> QED BY <1>1, <1>3, FilesStay DEF EditorInv

LEMMA ImportedFacts ==
    ASSUME ImportsAreProfiles, NEW file \in Imports
    PROVE  Imported(file) \in Record(Nat) /\ Imported(file).id = NoID
<1>1. file \in Record(Nat) /\ NoID \in Nat
  BY DEF ImportsAreProfiles, NoID
<1>2. Decoded(file) \in Record(Nat)
  BY <1>1, DefaultedType DEF Decoded
<1> QED BY <1>1, <1>2 DEF Imported, Record

LEMMA ImportProfileKeeps ==
    ASSUME ImportsAreProfiles, EditorInv, NEW file \in Imports, ImportProfile(file)
    PROVE  EditorInv'
<1> DEFINE p == Imported(file)
<1>1. p \in Record(Nat) /\ p.id = NoID
  BY ImportedFacts
<1>2. StoreAndShow(p) /\ IDTaken(p)
  BY DEF ImportProfile
<1> HIDE DEF p
<1>3. nextID \in Nat /\ nextID' = nextID + 1
  BY <1>1, <1>2 DEF IDTaken, EditorInv, EditorType
<1>4. Saved(p).id = nextID
  BY <1>1, SavedFacts
<1>5. nextID' \in Nat /\ nextID <= nextID' /\ nextID < nextID'
  BY <1>3
<1>6. Saved(p).id < nextID'
  BY <1>4, <1>5, Zenon
<1> QED BY <1>1, <1>2, <1>5, <1>6, StoreAndShowKeeps, Zenon

\* The profile made of a link: the defaults have chosen the proxy route.
LEMMA LinkProfileFacts ==
    ASSUME EditorInv
    PROVE  LET p == LinkProfile(nextID)
           IN  /\ p \in Record(Nat) /\ p.id = nextID
               /\ Validate(Saved(p))
<1> DEFINE zero == [ZeroProfile EXCEPT !.given = {"name"}, !.mode = "xray", !.json = "valid"]
           full == ApplyDefaults(zero, nextID)
           p == [full EXCEPT !.enabled = TRUE]
<1>0. nextID \in Nat /\ nextID # NoID
  BY DEF EditorInv, EditorType
<1>1. "xray" \in Words /\ "valid" \in Words /\ {"name"} \in SUBSET Text
  BY WordFacts DEF OwnWords, Text
<1>2. zero \in Record(Nat)
  BY <1>1, OwnProfiles DEF Record
<1>3. /\ zero.id = NoID /\ zero.given = {"name"} /\ zero.mode = "xray" /\ zero.json = "valid"
      /\ zero.port = 0 /\ zero.udpgw = FALSE /\ zero.proto = "" /\ zero.enabled = FALSE
      /\ zero.route = "" /\ zero.dns = ""
  BY DEF ZeroProfile
<1> HIDE DEF zero
<1>4. full \in Record(Nat) /\ full.id = nextID
  BY <1>0, <1>2, <1>3, DefaultedType, DefaultedNumbers
<1>5. RouteOf(zero) = "proxy"
  BY <1>3 DEF RouteOf, Route
<1>6. /\ full.given = {"name"} /\ full.mode = "xray" /\ full.json = "valid"
      /\ full.proto = "badvpn" /\ full.route = "proxy" /\ full.dns = ""
  BY <1>0, <1>2, <1>3, <1>5, DefaultedTexts DEF OrElse
<1>7. full.port = DefaultPort
  <2>1. full.port = OrNumber(zero.port, DefaultPort)
    BY <1>0, <1>2, DefaultedNumbers
  <2> QED BY <1>3, <2>1, Zenon DEF OrNumber
<1>8. full.udpgw = FALSE
  BY <1>0, <1>2, <1>3, DefaultedFlags
<1> HIDE DEF full
<1>9. /\ p \in Record(Nat) /\ p.id = nextID /\ p.given = {"name"} /\ p.mode = "xray"
      /\ p.json = "valid" /\ p.proto = "badvpn" /\ p.route = "proxy" /\ p.dns = ""
      /\ p.port = DefaultPort /\ p.udpgw = FALSE
  BY <1>4, <1>6, <1>7, <1>8 DEF Record
<1>10. LinkProfile(nextID) = p
  BY Zenon DEF LinkProfile, full, zero
<1> HIDE DEF p
<1>11. RouteOf(p) = "proxy"
  BY <1>9 DEF RouteOf, Route
<1>12. /\ Saved(p).given = {"name"} /\ Saved(p).mode = "xray" /\ Saved(p).json = "valid"
       /\ Saved(p).dns = ""
  BY <1>0, <1>9, DefaultedTexts DEF OrElse, Saved
<1>13. Saved(p).port \in PortNumber
  <2>1. Saved(p).port = OrNumber(p.port, DefaultPort)
    BY <1>0, <1>9, DefaultedNumbers DEF Saved
  <2>2. p.port = DefaultPort
    BY <1>9
  <2>3. OrNumber(DefaultPort, DefaultPort) = DefaultPort
    BY DEF OrNumber
  <2>4. DefaultPort \in PortNumber
    BY DEF DefaultPort, PortNumber
  <2> QED BY <2>1, <2>2, <2>3, <2>4, Zenon
<1>14. Saved(p).udpgw = FALSE /\ Saved(p).enabled = FALSE
  BY <1>0, <1>9, <1>11, DefaultedFlags DEF Saved
<1>15. ModeValid(Saved(p))
  BY <1>12 DEF ModeValid, Mode
<1>16. Validate(Saved(p))
  BY <1>12, <1>13, <1>14, <1>15 DEF Validate
<1> QED BY <1>9, <1>10, <1>16, Zenon

LEMMA ImportLinkKeeps == EditorInv /\ ImportLink => EditorInv'
<1> SUFFICES ASSUME EditorInv, ImportLink PROVE EditorInv'
  OBVIOUS
<1> DEFINE p == LinkProfile(nextID)
<1>1. p \in Record(Nat) /\ p.id = nextID /\ Validate(Saved(p))
  BY LinkProfileFacts, Zenon
<1>2. \/ StoreAndShow(p)
      \/ files' = Written(p) /\ UNCHANGED <<profiles, current, form, edited, choice>>
  BY Zenon DEF ImportLink
<1>3. nextID \in Nat /\ nextID # NoID /\ nextID' = nextID + 1
  BY DEF EditorInv, EditorType, ImportLink
<1> HIDE DEF p
<1>4. Saved(p).id = nextID
  BY <1>1, <1>3, SavedFacts
<1>5. nextID' \in Nat /\ nextID <= nextID' /\ nextID < nextID' /\ nextID' # NoID
  BY <1>3 DEF NoID
<1>6. Saved(p).id < nextID'
  BY <1>4, <1>5, Zenon
<1>7. CASE StoreAndShow(p)
  BY <1>1, <1>5, <1>6, <1>7, StoreAndShowKeeps, Zenon
<1>8. CASE files' = Written(p) /\ UNCHANGED <<profiles, current, form, edited, choice>>
  <2>1. FilesStand'
    BY <1>1, <1>5, <1>6, <1>8, WrittenStands, Zenon
  <2>2. EditorType' /\ Widgets'
    BY <1>5, <1>8 DEF EditorInv, EditorType, Widgets
  <2>3. current \in Record(Nat)
    BY DEF EditorInv, EditorType
  <2>4. ASSUME current.id # NoID PROVE current.id < nextID'
    <3>1. current.id \in Nat /\ current.id < nextID
      BY <2>3, <2>4 DEF EditorInv, Shown, Record
    <3> QED BY <1>3, <1>5, <3>1, LessThenLeq, Zenon
  <2>5. Shown'
    BY <1>8, <2>4 DEF EditorInv, Shown
  <2> QED BY <2>1, <2>2, <2>5 DEF EditorInv
<1> QED BY <1>2, <1>7, <1>8

LEMMA RestartKeeps == EditorInv /\ Restart => EditorInv'
<1> SUFFICES ASSUME EditorInv, Restart PROVE EditorInv'
  OBVIOUS
<1>1. nextID \in Nat /\ nextID # NoID /\ EmptyForm \in Record(Entry)
  BY OwnProfiles DEF EditorInv, EditorType
<1>2. files' = files
  BY DEF Restart
<1>3. ASSUME NEW i \in Listed(files), setProfile(EmptyForm, Decoded(files[i])), nextID' = nextID
      PROVE  EditorInv'
  <2>1. files[i] \in Record(Nat) /\ Settled(files[i]) /\ files[i].id = i /\ i < nextID
    BY <1>3 DEF EditorInv, FilesStand, Listed
  <2>2. Decoded(files[i]) = files[i] /\ files[i].id # NoID
    BY <2>1, SettledStays DEF Decoded, NoID, Settled
  <2>3. /\ current' \in Record(Nat) /\ Settled(current') /\ Shows(form', current')
        /\ choice' = NoChoice /\ current'.id = i
    BY <1>1, <1>3, <2>1, <2>2, SetProfileShows
  <2>4. EditorType' /\ Widgets' /\ Shown'
    BY <1>1, <1>3, <2>1, <2>3, ShowsSettled
  <2>5. FilesStand'
    BY <1>2, <1>3 DEF EditorInv, FilesStand
  <2> QED BY <2>4, <2>5 DEF EditorInv
<1>4. ASSUME setProfile(EmptyForm, newProfile), nextID' = nextID + 1
      PROVE  EditorInv'
  <2>1. /\ current' \in Record(Nat) /\ Settled(current') /\ Shows(form', current')
        /\ choice' = NoChoice /\ current'.id = nextID
    BY <1>1, <1>4, OwnProfiles, SetProfileShows
  <2>2. nextID' \in Nat /\ nextID <= nextID' /\ nextID < nextID' /\ nextID' # NoID
    BY <1>1, <1>4 DEF NoID
  <2>3. EditorType' /\ Widgets' /\ Shown'
    BY <2>1, <2>2, ShowsSettled
  <2> QED BY <1>2, <2>2, <2>3, FilesStay DEF EditorInv
<1>5. ASSUME AsBuilt PROVE EditorInv'
  <2>1. /\ current' = ZeroProfile /\ form' = EmptyForm /\ choice' = NoChoice /\ nextID' = nextID
    BY <1>5 DEF AsBuilt
  <2>2. EditorType' /\ Shown'
    BY <1>1, <2>1, OwnProfiles DEF EditorType, Shown
  <2>3. Widgets'
    BY <2>1, OwnProfiles DEF Widgets, Route
  <2>4. FilesStand'
    BY <1>2, <2>1 DEF EditorInv, FilesStand
  <2> QED BY <2>2, <2>3, <2>4 DEF EditorInv
<1> QED BY <1>3, <1>4, <1>5, Zenon DEF Restart

LEMMA EditorStarts == Init => EditorInv
<1> SUFFICES ASSUME Init PROVE EditorInv
  OBVIOUS
<1> DEFINE q == ApplyDefaults(newProfile, 1)
<1>1. q \in Record(Nat) /\ Settled(q) /\ q.id = 1
  <2>1. 1 \in Nat /\ 1 # NoID
    BY DEF NoID
  <2> QED BY <2>1, OwnProfiles, DefaultedType, DefaultsSettle, DefaultedNumbers
<1>2. Shows(Filled(EmptyForm, q), q)
  BY <1>1, OwnProfiles, FilledShows
<1>3. current = q /\ Shows(form, q) /\ choice = NoChoice /\ nextID = 2 /\ files = << >>
  BY <1>2 DEF Init
<1> HIDE DEF q
<1>s. form \in Record(Entry) /\ form.route = q.route /\ form.enabled = q.enabled
  BY <1>1, <1>3, ShowsFacts
<1>4. EditorType
  BY <1>1, <1>3, <1>s DEF EditorType, NoID
<1>5. Widgets
  BY <1>1, <1>3, <1>s DEF Widgets, Settled
<1>6. Shown
  BY <1>1, <1>3 DEF Shown
<1>7. FilesStand
  BY <1>3 DEF FilesStand
<1> QED BY <1>4, <1>5, <1>6, <1>7 DEF EditorInv

LEMMA EditorStep ==
    ASSUME ImportsAreProfiles, EditorInv, [Next]_vars
    PROVE  EditorInv'
<1>1. CASE UNCHANGED vars
  BY <1>1, SameEditor DEF vars, bounds
<1>2. CASE Next
  BY <1>2, EditTextKeeps, EditFieldKeeps, EditRouteKeeps, NewKeeps, SaveProfileKeeps,
     ExportProfileKeeps, DeleteProfileKeeps, SelectKeeps, ImportProfileKeeps, ImportLinkKeeps,
     ImportNoLinkKeeps, RestartKeeps, Zenon DEF Next
<1> QED BY <1>1, <1>2

(***************************************************************************)
(* For any files a user imports, any number of profiles and edits: the     *)
(* form, the profile on screen and the files describe each other.          *)
(***************************************************************************)
THEOREM EditorAlwaysConsistent ==
    ASSUME ImportsAreProfiles
    PROVE  Spec => []EditorConsistent
<1>1. EditorInv /\ [Next]_vars => EditorInv'
  BY EditorStep
<1> QED BY <1>1, EditorStarts, InvariantSuffices, PTL DEF Spec

-----------------------------------------------------------------------------
\* Which files a step changes: none, the profile's on screen, or a new one.
Kept == \A i \in DOMAIN files :
           i \notin DOMAIN files' \/ files'[i] # files[i] => i = current.id

LEMMA WritingKeeps ==
    ASSUME EditorInv, NEW p \in Record(Nat),
           files' = Written(p), p.id \in {NoID, nextID, current.id}
    PROVE  Kept
<1> SUFFICES ASSUME NEW i \in DOMAIN files, i # current.id
             PROVE  i \in DOMAIN files' /\ files'[i] = files[i]
  BY Zenon DEF Kept
<1>1. i \in Nat /\ i < nextID /\ nextID \in Nat
  BY DEF EditorInv, EditorType, FilesStand
<1>2. i # nextID
  BY <1>1, LessDiffers, Zenon
<1>3. Saved(p).id = (IF p.id = NoID THEN nextID ELSE p.id)
  BY SavedFacts
<1>4. Saved(p).id # i
  BY <1>2, <1>3, Zenon
<1> QED BY <1>4 DEF Written

LEMMA StoringKeeps ==
    ASSUME EditorInv, NEW p \in Record(Nat),
           StoreAndShow(p), p.id \in {NoID, nextID, current.id}
    PROVE  Kept
  BY WritingKeeps, Zenon DEF StoreAndShow

LEMMA StepKeepsOthers ==
    ASSUME ImportsAreProfiles, EditorInv, Next
    PROVE  Kept
<1>1. ASSUME files' = files PROVE Kept
  BY <1>1, Zenon DEF Kept
<1>2. ASSUME EditText \/ EditField \/ EditRoute \/ New \/ ImportNoLink \/ Restart
             \/ \E i \in profiles : Select(i)
      PROVE  Kept
  <2>1. files' = files
    BY <1>2, Zenon DEF EditText, EditField, EditRoute, Change, New, ImportNoLink, Restart, Select
  <2> QED BY <1>1, <2>1
<1>3. CASE SaveProfile
  <2>1. CASE SaveForm(ReadForm(form, current))
    <3> DEFINE p == ReadForm(form, current)
    <3>1. StoreAndShow(p) /\ IDTaken(current)
      BY <2>1 DEF SaveForm
    <3>2. /\ p \in Record(Nat)
          /\ p.id = (IF current.id = NoID THEN nextID ELSE current.id)
      BY <3>1, SavingForm, Zenon
    <3>3. p.id \in {NoID, nextID, current.id}
      BY <3>2, Zenon
    <3> HIDE DEF p
    <3> QED BY <3>1, <3>2, <3>3, StoringKeeps, Zenon
  <2>2. CASE files' = files
    BY <1>1, <2>2
  <2> QED BY <1>3, <2>1, <2>2, Zenon DEF SaveProfile
<1>4. CASE ExportProfile
  <2> DEFINE p == ReadForm(form, current)
  <2>1. files' = Written(p) /\ IDTaken(current)
    BY <1>4, Zenon DEF ExportProfile
  <2>2. /\ p \in Record(Nat)
        /\ p.id = (IF current.id = NoID THEN nextID ELSE current.id)
    BY <2>1, SavingForm, Zenon
  <2>3. p.id \in {NoID, nextID, current.id}
    BY <2>2, Zenon
  <2> HIDE DEF p
  <2> QED BY <2>1, <2>2, <2>3, WritingKeeps, Zenon
<1>5. CASE DeleteProfile
  BY <1>5 DEF DeleteProfile, Kept
<1>6. ASSUME NEW file \in Imports, ImportProfile(file) PROVE Kept
  <2>1. StoreAndShow(Imported(file))
    BY <1>6 DEF ImportProfile
  <2>2. Imported(file).id \in {NoID, nextID, current.id}
    BY ImportedFacts, Zenon
  <2> QED BY <2>1, <2>2, ImportedFacts, StoringKeeps, Zenon
<1>7. CASE ImportLink
  <2> DEFINE p == LinkProfile(nextID)
  <2>1. p \in Record(Nat) /\ p.id = nextID
    BY LinkProfileFacts, Zenon
  <2>2. files' = Written(p)
    BY <1>7, Zenon DEF ImportLink, StoreAndShow
  <2>3. p.id \in {NoID, nextID, current.id}
    BY <2>1, Zenon
  <2> HIDE DEF p
  <2> QED BY <2>1, <2>2, <2>3, WritingKeeps, Zenon
<1> QED BY <1>2, <1>3, <1>4, <1>5, <1>6, <1>7, Zenon DEF Next

(***************************************************************************)
(* No handler changes or removes the file of a profile that is not on      *)
(* screen: an ID that is given out is in no file's name, and importing     *)
(* gives one.                                                              *)
(***************************************************************************)
THEOREM OtherProfilesStay ==
    ASSUME ImportsAreProfiles
    PROVE  Spec => OnlyShownProfileChanges
<1>1. EditorInv /\ [Next]_vars => EditorInv'
  BY EditorStep
<1>2. EditorInv /\ [Next]_vars => [Kept]_vars
  BY StepKeepsOthers, Zenon
<1> QED BY <1>1, <1>2, EditorStarts, PTL DEF Spec, OnlyShownProfileChanges, Kept

-----------------------------------------------------------------------------
(***************************************************************************)
(* The updater.  With two updates of a tool at a time UpdatedMeansReplaced *)
(* fails, so what follows assumes one.  The invariant says which release   *)
(* is in hand at each step, which files hold it or are passed over, and    *)
(* that a job at work shows no closing dialog.                             *)
(***************************************************************************)
Step == {"idle", "tag", "urls", "driver", "download", "unpack", "install", "copy", "write"}
ToolName == {"xray", "openvpn", "app", NoTool}
JobRecord ==
    [pc : Step, tool : ToolName, tag : Nat, rel : Nat, urls : Seq({"direct", "asset"}),
     got : Nat, next : Nat \ {0}, kept : SUBSET File]

OnSystem == OpenVPNFile \cup {"app"}

UpdateType ==
    /\ published \in Nat
    /\ onDisk \in [File -> Nat]
    /\ system \in [OnSystem -> Nat]
    /\ job \in [Job -> JobRecord]
    /\ DOMAIN shown = Job /\ shown = [j \in Job |-> shown[j]]

\* Which tools come to which step, and what is known of the release by then.
Released(r) ==
    /\ r.pc \in {"urls", "driver", "download", "unpack", "install", "copy", "write"} =>
          r.tag <= published
    /\ r.pc \in {"driver", "download"} => r.tag <= r.rel /\ r.rel <= published
    /\ r.pc \in {"unpack", "install", "copy", "write"} => r.tag <= r.got /\ r.got <= published
    /\ r.pc # "idle" => r.tool \in Tools
    /\ r.pc = "driver" => r.tool = "openvpn"
    /\ r.pc = "unpack" => r.tool = "xray"
    /\ r.pc \in {"copy", "write"} => r.tool \in {"xray", "openvpn"}
    /\ r.pc \notin {"copy", "write"} => r.next = 1

\* While the files are copied, those before the next one are done.
Copied(r) ==
    r.pc \in {"copy", "write"} =>
       /\ r.tool = "openvpn" =>
             \A f \in OpenVPNFile : f \in r.kept \/ system[f] \in {Missing, r.got}
       /\ r.next \in 1..4
       /\ r.pc = "write" =>
             r.next # 4 /\ (r.tool = "openvpn" => system[Files(r.tool)[r.next]] # Missing)
       /\ \A i \in 1..3 : i < r.next =>
             Files(r.tool)[i] \in r.kept \/ onDisk[Files(r.tool)[i]] = r.got

UpdateInv ==
    /\ UpdateType
    /\ \A j \in Job : Released(job[j]) /\ Copied(job[j])
    /\ \A j \in Job : Updated(j) => At(j, "idle")
    /\ UpdatedMeansReplaced

PendingType == pending \in [OpenVPNFile -> Nat]

LEMMA FilesFacts ==
    ASSUME NEW t \in {"xray", "openvpn"}
    PROVE  /\ Len(Files(t)) = 3 /\ DOMAIN Files(t) = 1..3
           /\ \A i \in 1..3 : Files(t)[i] \in File
           /\ \A i, k \in 1..3 : Files(t)[i] = Files(t)[k] => i = k
           /\ t = "openvpn" => \A i \in 1..3 : Files(t)[i] \in OpenVPNFile
<1>1. CASE t = "xray"
  <2>1. Files(t) = <<"xray.exe", "geoip.dat", "geosite.dat">>
    BY <1>1 DEF Files
  <2> QED BY <1>1, <2>1 DEF File
<1>2. CASE t = "openvpn"
  <2>1. Files(t) = <<"libcrypto.dll", "openvpn.exe", "tapctl.exe">>
    BY <1>2 DEF Files
  <2> QED BY <2>1 DEF File, OpenVPNFile
<1> QED BY <1>1, <1>2

\* A job that goes on to another step shows no dialog.
LEMMA JobGoesOn ==
    ASSUME UpdateInv, \A i, k \in Job : i = k, NEW j \in Job, ~At(j, "idle"),
           NEW r \in JobRecord, job' = [job EXCEPT ![j] = r],
           UNCHANGED <<published, shown>>,
           onDisk' \in [File -> Nat], system' \in [OnSystem -> Nat],
           Released(r),
           r.pc \in {"copy", "write"} =>
              /\ r.tool = "openvpn" =>
                    \A f \in OpenVPNFile : f \in r.kept \/ system'[f] \in {Missing, r.got}
              /\ r.next \in 1..4
              /\ r.pc = "write" =>
                    r.next # 4 /\ (r.tool = "openvpn" => system'[Files(r.tool)[r.next]] # Missing)
              /\ \A i \in 1..3 : i < r.next =>
                    Files(r.tool)[i] \in r.kept \/ onDisk'[Files(r.tool)[i]] = r.got
    PROVE  UpdateInv'
<1>1. job' \in [Job -> JobRecord] /\ job'[j] = r /\ \A i \in Job : i = j
  BY DEF UpdateInv, UpdateType
<1>2. UpdateType'
  BY <1>1 DEF UpdateInv, UpdateType
<1>3. ~Updated(j) /\ ~Updated(j)'
  BY DEF UpdateInv, At, Updated
<1>4. Released(job[j])' /\ Copied(job[j])'
  BY <1>1 DEF Released, Copied
<1> QED BY <1>1, <1>2, <1>3, <1>4 DEF UpdateInv, UpdatedMeansReplaced, Updated

LEMMA IdleRecord == Idle \in JobRecord /\ << >> \in Seq({"direct", "asset"})
  BY DEF Idle, JobRecord, Step, ToolName, NoTool

\* One that ends closes with a dialog; only CopiesDone and the installers say "updated".
LEMMA JobEnds ==
    ASSUME UpdateInv, \A i, k \in Job : i = k, NEW j \in Job, ~At(j, "idle"),
           NEW said, NEW found, Ends(j, said, found), UNCHANGED published,
           onDisk' \in [File -> Nat], system' \in [OnSystem -> Nat],
           said = "updated" /\ found /\ job[j].tool # "app" =>
              \E v \in job[j].tag..published :
                 \A i \in DOMAIN Files(job[j].tool) :
                    Files(job[j].tool)[i] \in job[j].kept \/ onDisk'[Files(job[j].tool)[i]] = v
    PROVE  UpdateInv'
<1>1. job' \in [Job -> JobRecord] /\ job'[j] = Idle /\ \A i \in Job : i = j
  BY IdleRecord DEF UpdateInv, UpdateType, Ends
<1>2. /\ DOMAIN shown' = Job /\ shown' = [i \in Job |-> shown'[i]]
      /\ shown'[j].text = said /\ shown'[j].found = found
      /\ shown'[j].tool = job[j].tool /\ shown'[j].tag = job[j].tag
      /\ shown'[j].kept = job[j].kept
  BY DEF Ends, UpdateInv, UpdateType
<1>3. UpdateType'
  BY <1>1, <1>2 DEF UpdateInv, UpdateType
<1>4. Idle.pc = "idle" /\ Idle.next = 1
  BY DEF Idle
<1>5. Released(job[j])' /\ Copied(job[j])' /\ At(j, "idle")'
  BY <1>1, <1>4 DEF Released, Copied, At
<1>6. UpdatedMeansReplaced'
  BY <1>1, <1>2 DEF UpdatedMeansReplaced, Updated
<1> QED BY <1>1, <1>3, <1>5, <1>6 DEF UpdateInv

\* What the invariant says of a job that is in a step of its own.
LEMMA JobFacts ==
    ASSUME UpdateInv, NEW j \in Job
    PROVE  /\ job[j] \in JobRecord /\ Released(job[j]) /\ Copied(job[j])
           /\ job[j].tag \in Nat /\ job[j].rel \in Nat /\ job[j].got \in Nat
           /\ job[j].kept \in SUBSET File
           /\ job[j].next \in Nat \ {0} /\ job[j].tool \in ToolName /\ job[j].pc \in Step
           /\ published \in Nat /\ onDisk \in [File -> Nat] /\ system \in [OnSystem -> Nat]
           /\ job \in [Job -> JobRecord]
  BY DEF UpdateInv, UpdateType, JobRecord

LEMMA FailKeeps ==
    ASSUME UpdateInv, \A i, k \in Job : i = k, NEW j \in Job, ~At(j, "idle"),
           NEW said, said # "updated", Fails(j, said), UNCHANGED published
    PROVE  UpdateInv'
  BY JobEnds, JobFacts DEF Fails

LEMMA AskKeeps ==
    ASSUME UpdateInv, \A i, k \in Job : i = k, NEW j \in Job, NEW t \in Tools, Ask(j, t)
    PROVE  UpdateInv'
<1>0. \A i \in Job : i = j
  OBVIOUS
<1>1. UNCHANGED <<published, onDisk, system>> /\ At(j, "idle")
  BY DEF Ask, world
<1>2. t \in ToolName
  BY ToolsAssumption DEF ToolName
<1>3. CASE InstalledVersion(t) = published
  <2>1. job' = job /\ shown' = [shown EXCEPT ![j] = [NoDialog EXCEPT !.text = "up to date", !.tool = t]]
    BY <1>3 DEF Ask
  <2>2. DOMAIN shown' = Job /\ shown' = [i \in Job |-> shown'[i]] /\ shown'[j].text = "up to date"
    BY <2>1 DEF UpdateInv, UpdateType, NoDialog
  <2>3. UpdateType'
    BY <1>1, <2>1, <2>2 DEF UpdateInv, UpdateType
  <2>4. ~Updated(j)'
    BY <2>2 DEF Updated
  <2>5. Released(job[j])' /\ Copied(job[j])'
    BY <1>1, <2>1, JobFacts DEF Released, Copied
  <2> QED BY <1>0, <2>3, <2>4, <2>5 DEF UpdateInv, UpdatedMeansReplaced
<1>4. CASE InstalledVersion(t) # published
  <2> DEFINE r == [Idle EXCEPT !.pc = "tag", !.tool = t]
  <2>1. job' = [job EXCEPT ![j] = r] /\ shown' = [shown EXCEPT ![j] = NoDialog]
    BY <1>4 DEF Ask
  <2>2. DOMAIN shown' = Job /\ shown' = [i \in Job |-> shown'[i]] /\ shown'[j].text = ""
    BY <2>1 DEF UpdateInv, UpdateType, NoDialog
  <2>3. r \in JobRecord /\ r.pc = "tag" /\ r.tool = t /\ r.next = 1
    <3>1. r \in JobRecord
      BY <1>2, IdleRecord DEF JobRecord, Step
    <3> QED BY <3>1 DEF Idle
  <2>4. job' \in [Job -> JobRecord] /\ job'[j] = r
    BY <2>1, <2>3, JobFacts
  <2>5. UpdateType'
    BY <1>1, <2>4, <2>2 DEF UpdateInv, UpdateType
  <2>6. ~Updated(j)'
    BY <2>2 DEF Updated
  <2>7. Released(job[j])' /\ Copied(job[j])'
    BY <2>3, <2>4 DEF Released, Copied
  <2> QED BY <1>0, <2>5, <2>6, <2>7 DEF UpdateInv, UpdatedMeansReplaced
<1> QED BY <1>3, <1>4

LEMMA FetchTagKeeps ==
    ASSUME UpdateInv, \A i, k \in Job : i = k, NEW j \in Job, FetchTag(j)
    PROVE  UpdateInv'
<1>1. UNCHANGED published /\ job[j].pc = "tag" /\ ~At(j, "idle")
  BY DEF FetchTag, Rest, world, At
<1>2. CASE job' = [job EXCEPT ![j].pc = "urls", ![j].tag = published]
           /\ UNCHANGED <<onDisk, system, pending, driver, shown>>
  <2> DEFINE r == [job[j] EXCEPT !.pc = "urls", !.tag = published]
  <2>1. job' = [job EXCEPT ![j] = r]
    BY <1>2, JobFacts
  <2>2. r \in JobRecord /\ r.pc = "urls" /\ r.tag = published /\ r.tool = job[j].tool
        /\ r.next = job[j].next
    BY JobFacts DEF JobRecord, Step
  <2>3. Released(r)
    BY <1>1, <2>2, JobFacts DEF Released
  <2> HIDE DEF r
  <2> QED BY <1>1, <1>2, <2>1, <2>2, <2>3, JobFacts, JobGoesOn
<1>3. CASE Fails(j, "no release")
  BY <1>1, <1>3, FailKeeps
<1> QED BY <1>2, <1>3 DEF FetchTag

LEMMA FindUrlsKeeps ==
    ASSUME UpdateInv, \A i, k \in Job : i = k, NEW j \in Job, FindUrls(j)
    PROVE  UpdateInv'
<1>1. UNCHANGED published /\ job[j].pc = "urls" /\ ~At(j, "idle")
  BY DEF FindUrls, Rest, world, At
<1>2. ASSUME NEW api \in BOOLEAN,
             job' = [job EXCEPT ![j].pc = IF job[j].tool = "openvpn" THEN "driver" ELSE "download",
                                ![j].rel = published, ![j].urls = Urls(job[j].tool, api)],
             UNCHANGED <<onDisk, system, pending, driver, shown>>
      PROVE  UpdateInv'
  <2> DEFINE r == [job[j] EXCEPT !.pc = IF job[j].tool = "openvpn" THEN "driver" ELSE "download",
                                 !.rel = published, !.urls = Urls(job[j].tool, api)]
  <2>1. job' = [job EXCEPT ![j] = r]
    BY <1>2, JobFacts
  <2>2. Urls(job[j].tool, api) \in Seq({"direct", "asset"})
    <3>1. /\ <<"asset">> \in Seq({"direct", "asset"}) /\ <<"direct">> \in Seq({"direct", "asset"})
          /\ <<"direct", "asset">> \in Seq({"direct", "asset"})
      OBVIOUS
    <3> QED BY <3>1, Zenon DEF Urls
  <2>3. r \in JobRecord
    BY <2>2, JobFacts DEF JobRecord, Step
  <2>4. /\ r.pc = (IF job[j].tool = "openvpn" THEN "driver" ELSE "download")
        /\ r.rel = published /\ r.tool = job[j].tool /\ r.tag = job[j].tag /\ r.next = job[j].next
    BY JobFacts DEF JobRecord
  <2>5. Released(r)
    BY <1>1, <2>4, JobFacts DEF Released
  <2> HIDE DEF r
  <2> QED BY <1>1, <1>2, <2>1, <2>3, <2>4, <2>5, JobFacts, JobGoesOn
<1>3. CASE Fails(j, "not started")
  BY <1>1, <1>3, FailKeeps
<1> QED BY <1>2, <1>3 DEF FindUrls

LEMMA InstallDriverKeeps ==
    ASSUME UpdateInv, \A i, k \in Job : i = k, NEW j \in Job, InstallDriver(j)
    PROVE  UpdateInv'
<1> DEFINE r == [job[j] EXCEPT !.pc = "download"]
<1>1. UNCHANGED <<published, onDisk, shown>> /\ job[j].pc = "driver" /\ ~At(j, "idle")
  BY DEF InstallDriver, Rest, world, At
<1>2. job' = [job EXCEPT ![j] = r]
  BY JobFacts DEF InstallDriver, Goto
<1>3. r \in JobRecord
  BY JobFacts DEF JobRecord, Step
<1>4. r.pc = "download" /\ r.rel = job[j].rel /\ r.tool = job[j].tool /\ r.tag = job[j].tag
      /\ r.next = job[j].next
  BY JobFacts DEF JobRecord
<1>5. Released(r)
  BY <1>1, <1>4, JobFacts DEF Released
<1>6. system' \in [OnSystem -> Nat]
  <2>1. system \in [OnSystem -> Nat] /\ OpenVPN26 \in Nat
    BY JobFacts DEF OpenVPN26
  <2>2. [f \in DOMAIN system |-> IF f \in OpenVPNFile THEN OpenVPN26 ELSE system[f]]
           \in [OnSystem -> Nat]
    BY <2>1
  <2>3. \/ system' = system
        \/ system' = [f \in DOMAIN system |-> IF f \in OpenVPNFile THEN OpenVPN26 ELSE system[f]]
    BY Zenon DEF InstallDriver
  <2> QED BY <2>1, <2>2, <2>3
<1> HIDE DEF r
<1> QED BY <1>1, <1>2, <1>3, <1>4, <1>5, <1>6, JobFacts, JobGoesOn

LEMMA DownloadKeeps ==
    ASSUME UpdateInv, \A i, k \in Job : i = k, NEW j \in Job, Download(j)
    PROVE  UpdateInv'
<1> DEFINE source == Head(job[j].urls)
<1>1. UNCHANGED published /\ job[j].pc = "download" /\ ~At(j, "idle")
  BY DEF Download, Rest, world, At
<1>2. CASE job' = [job EXCEPT ![j].got = IF source = "asset" THEN job[j].rel ELSE job[j].tag,
                              ![j].pc = IF job[j].tool = "xray" THEN "unpack" ELSE "install",
                              ![j].urls = << >>]
           /\ UNCHANGED <<onDisk, system, pending, driver, shown>>
  <2> DEFINE g == IF source = "asset" THEN job[j].rel ELSE job[j].tag
             r == [job[j] EXCEPT !.got = g,
                                 !.pc = IF job[j].tool = "xray" THEN "unpack" ELSE "install",
                                 !.urls = << >>]
  <2>1. job' = [job EXCEPT ![j] = r]
    BY <1>2, JobFacts
  <2>2. g \in Nat /\ job[j].tag <= g /\ g <= published
    BY <1>1, JobFacts DEF Released
  <2> HIDE DEF g
  <2>3. r \in JobRecord
    BY <2>2, JobFacts, IdleRecord DEF JobRecord, Step
  <2>4. /\ r.pc = (IF job[j].tool = "xray" THEN "unpack" ELSE "install")
        /\ r.got = g /\ r.tool = job[j].tool /\ r.tag = job[j].tag /\ r.next = job[j].next
    BY JobFacts DEF JobRecord
  <2>5. Released(r)
    BY <1>1, <2>2, <2>4, JobFacts DEF Released
  <2> HIDE DEF r
  <2> QED BY <1>1, <1>2, <2>1, <2>3, <2>4, <2>5, JobFacts, JobGoesOn
<1>3. CASE NextUrl(j) /\ Len(job[j].urls) > 1
  <2> DEFINE r == [job[j] EXCEPT !.urls = Tail(@)]
  <2>1. job' = [job EXCEPT ![j] = r] /\ UNCHANGED <<onDisk, system, pending, driver, shown>>
    BY <1>3, JobFacts DEF NextUrl
  <2>2. job[j].urls \in Seq({"direct", "asset"})
    BY JobFacts DEF JobRecord
  <2>3. Tail(job[j].urls) \in Seq({"direct", "asset"})
    BY <1>3, <2>2
  <2>4. r \in JobRecord
    BY <2>3, JobFacts DEF JobRecord
  <2>5. r.pc = "download" /\ r.rel = job[j].rel /\ r.tool = job[j].tool /\ r.tag = job[j].tag
        /\ r.next = job[j].next
    BY <1>1, JobFacts DEF JobRecord
  <2>6. Released(r)
    BY <1>1, <2>5, JobFacts DEF Released
  <2> HIDE DEF r
  <2> QED BY <1>1, <2>1, <2>4, <2>5, <2>6, JobFacts, JobGoesOn
<1>4. CASE NextUrl(j) /\ ~(Len(job[j].urls) > 1)
  <2>1. Ends(j, "download failed", Serves(job[j].tool, source)) /\ UNCHANGED <<onDisk, system, pending, driver>>
    BY <1>4, Zenon DEF NextUrl
  <2> QED BY <1>1, <2>1, JobFacts, JobEnds
<1> QED BY <1>2, <1>3, <1>4, Zenon DEF Download

LEMMA UnpackKeeps ==
    ASSUME UpdateInv, \A i, k \in Job : i = k, NEW j \in Job, Unpack(j)
    PROVE  UpdateInv'
<1>1. UNCHANGED published /\ job[j].pc = "unpack" /\ ~At(j, "idle")
  BY DEF Unpack, Rest, world, At
<1>2. CASE Goto(j, "copy") /\ UNCHANGED <<onDisk, system, pending, driver, shown>>
  <2> DEFINE r == [job[j] EXCEPT !.pc = "copy"]
  <2>1. job' = [job EXCEPT ![j] = r]
    BY <1>2, JobFacts DEF Goto
  <2>2. r \in JobRecord
    BY JobFacts DEF JobRecord, Step
  <2>3. /\ r.pc = "copy" /\ r.got = job[j].got /\ r.tool = "xray" /\ r.tag = job[j].tag
        /\ r.next = 1 /\ job[j].tool = "xray"
    BY <1>1, JobFacts DEF JobRecord, Released
  <2>4. Released(r)
    BY <1>1, <2>3, JobFacts DEF Released
  <2>5. r.next \in 1..4 /\ \A i \in 1..3 : ~(i < r.next)
    BY <2>3
  <2> HIDE DEF r
  <2> QED BY <1>1, <1>2, <2>1, <2>2, <2>3, <2>4, <2>5, JobFacts, JobGoesOn
<1>3. CASE Fails(j, "extract failed")
  BY <1>1, <1>3, FailKeeps
<1> QED BY <1>2, <1>3 DEF Unpack

LEMMA RunOpenVPNInstallerKeeps ==
    ASSUME UpdateInv, \A i, k \in Job : i = k, NEW j \in Job, RunOpenVPNInstaller(j)
    PROVE  UpdateInv'
<1>1. UNCHANGED published /\ job[j].pc = "install" /\ job[j].tool = "openvpn" /\ ~At(j, "idle")
  BY DEF RunOpenVPNInstaller, Rest, world, At
<1>2. CASE Fails(j, "installer failed")
  BY <1>1, <1>2, FailKeeps
<1>3. ASSUME NEW left \in SUBSET InUse, NEW absent \in SUBSET (OpenVPNFile \cap MayLack),
             Installed(job[j].got, left, absent), UNCHANGED onDisk,
             \/ job' = [job EXCEPT ![j].pc = "copy", ![j].kept = left] /\ UNCHANGED shown
             \/ Ends(j, "updated", FALSE)
             \/ Ends(j, "installer failed", TRUE)
      PROVE  UpdateInv'
  <2>1. left \subseteq OpenVPNFile /\ left \in SUBSET File
    BY DEF InUse, OpenVPNFile, File
  <2>2. DOMAIN system = OnSystem /\ job[j].got \in Nat
    BY JobFacts
  <2>3. /\ system' \in [OnSystem -> Nat]
        /\ \A f \in OpenVPNFile : f \in left \/ system'[f] \in {Missing, job[j].got}
    BY <1>3, <2>2, JobFacts DEF Installed, OnSystem, Missing, OpenVPNFile
  <2>4. onDisk' \in [File -> Nat]
    BY <1>3, JobFacts
  <2>5. CASE job' = [job EXCEPT ![j].pc = "copy", ![j].kept = left] /\ UNCHANGED shown
    <3> DEFINE r == [job[j] EXCEPT !.pc = "copy", !.kept = left]
    <3>1. job' = [job EXCEPT ![j] = r]
      BY <2>5, JobFacts
    <3>2. r \in JobRecord
      BY <2>1, JobFacts DEF JobRecord, Step
    <3>3. /\ r.pc = "copy" /\ r.got = job[j].got /\ r.tool = "openvpn" /\ r.tag = job[j].tag
          /\ r.next = 1 /\ r.kept = left
      BY <1>1, JobFacts DEF JobRecord, Released
    <3>4. Released(r)
      BY <1>1, <3>3, JobFacts DEF Released
    <3>5. r.next \in 1..4 /\ \A i \in 1..3 : ~(i < r.next)
      BY <3>3
    <3> HIDE DEF r
    <3> QED BY <1>1, <2>3, <2>4, <2>5, <3>1, <3>2, <3>3, <3>4, <3>5, JobGoesOn
  <2>6. ASSUME NEW said, NEW found, Ends(j, said, found), ~(said = "updated" /\ found)
        PROVE  UpdateInv'
    BY <1>1, <2>3, <2>4, <2>6, JobEnds
  <2>7. CASE Ends(j, "updated", FALSE)
    BY <2>6, <2>7
  <2>8. CASE Ends(j, "installer failed", TRUE)
    BY <2>6, <2>8
  <2> QED BY <1>3, <2>5, <2>7, <2>8
<1> QED BY <1>2, <1>3, Zenon DEF RunOpenVPNInstaller

LEMMA RunAppInstallerKeeps ==
    ASSUME UpdateInv, \A i, k \in Job : i = k, NEW j \in Job, RunAppInstaller(j)
    PROVE  UpdateInv'
<1>1. UNCHANGED published /\ job[j].pc = "install" /\ job[j].tool = "app" /\ ~At(j, "idle")
  BY DEF RunAppInstaller, Rest, world, At
<1>2. CASE Fails(j, "installer failed")
  BY <1>1, <1>2, FailKeeps
<1>3. ASSUME system' = [system EXCEPT !["app"] = job[j].got], Ends(j, "updated", TRUE),
             UNCHANGED onDisk
      PROVE  UpdateInv'
  <2>1. system' \in [OnSystem -> Nat] /\ onDisk' \in [File -> Nat]
    BY <1>3, JobFacts
  <2> QED BY <1>1, <1>3, <2>1, JobEnds
<1> QED BY <1>2, <1>3, Zenon DEF RunAppInstaller

\* What is known while the files are copied.
LEMMA CopyFacts ==
    ASSUME UpdateInv, NEW j \in Job, job[j].pc \in {"copy", "write"}
    PROVE  LET list == Files(job[j].tool)
           IN  /\ job[j].tool \in {"xray", "openvpn"} /\ job[j].next \in 1..4
               /\ Len(list) = 3 /\ DOMAIN list = 1..3
               /\ \A i \in 1..3 : list[i] \in File
               /\ \A i, k \in 1..3 : list[i] = list[k] => i = k
               /\ job[j].tool = "openvpn" => \A i \in 1..3 : list[i] \in OpenVPNFile
               /\ job[j].tool = "openvpn" =>
                     \A f \in OpenVPNFile : f \in job[j].kept \/ system[f] \in {Missing, job[j].got}
               /\ \A i \in 1..3 : i < job[j].next =>
                     list[i] \in job[j].kept \/ onDisk[list[i]] = job[j].got
<1>1. job[j].tool \in {"xray", "openvpn"}
  BY JobFacts DEF Released
<1>2. Copied(job[j])
  BY JobFacts
<1> QED BY <1>1, <1>2, FilesFacts DEF Copied

LEMMA SkipFileKeeps ==
    ASSUME UpdateInv, \A i, k \in Job : i = k, NEW j \in Job, SkipFile(j)
    PROVE  UpdateInv'
<1> DEFINE list == Files(job[j].tool)
           n == job[j].next
           more == job[j].kept \cup {FileOf(j)}
           r == [job[j] EXCEPT !.next = n + 1, !.kept = more]
<1>1. /\ UNCHANGED <<published, onDisk, system, shown>>
      /\ job[j].pc = "copy" /\ ~At(j, "idle") /\ n <= Len(list)
  BY DEF SkipFile, Rest, world, At
<1>2. n \in 1..3 /\ list[n] \in File /\ FileOf(j) = list[n]
  <2>1. n \in 1..4 /\ Len(list) = 3 /\ \A i \in 1..3 : list[i] \in File
    BY <1>1, CopyFacts, Zenon
  <2>2. n \in 1..3
    <3> DEFINE len == Len(list)
    <3>1. len = 3 /\ n <= len /\ n \in 1..4
      BY <1>1, <2>1
    <3> HIDE DEF len, n, list
    <3> QED BY <3>1
  <2>3. FileOf(j) = list[n]
    BY DEF FileOf
  <2> QED BY <2>1, <2>2, <2>3, Zenon
<1>3. more \in SUBSET File /\ job[j].kept \subseteq more /\ list[n] \in more
  BY <1>2, JobFacts
<1>4. job' = [job EXCEPT ![j] = r]
  BY JobFacts DEF SkipFile
<1> HIDE DEF more
<1>5. r \in JobRecord
  <2>1. n + 1 \in Nat \ {0}
    BY JobFacts
  <2> QED BY <1>3, <2>1, JobFacts DEF JobRecord
<1>6. /\ r.pc = "copy" /\ r.got = job[j].got /\ r.tool = job[j].tool /\ r.tag = job[j].tag
      /\ r.next = n + 1 /\ r.kept = more
  BY <1>1, JobFacts DEF JobRecord
<1>7. Released(r)
  BY <1>1, <1>6, JobFacts DEF Released
<1> HIDE DEF r, n, list
<1>8. \A i \in 1..3 : i < n + 1 => list[i] \in more \/ onDisk[list[i]] = job[j].got
  <2> SUFFICES ASSUME NEW i \in 1..3, i < n + 1
               PROVE  list[i] \in more \/ onDisk[list[i]] = job[j].got
    OBVIOUS
  <2>1. i = n \/ i < n
    BY <1>2
  <2> QED BY <1>1, <1>3, <2>1, CopyFacts DEF n, list
<1>9. r.tool = "openvpn" =>
         \A f \in OpenVPNFile : f \in r.kept \/ system'[f] \in {Missing, r.got}
  BY <1>1, <1>3, <1>6, CopyFacts
<1>10. r.next \in 1..4 /\ \A i \in 1..3 : i < r.next =>
          Files(r.tool)[i] \in r.kept \/ onDisk'[Files(r.tool)[i]] = r.got
  BY <1>1, <1>2, <1>6, <1>8 DEF list
<1> QED BY <1>1, <1>4, <1>5, <1>6, <1>7, <1>9, <1>10, JobFacts, JobGoesOn

LEMMA CopiesDoneKeeps ==
    ASSUME UpdateInv, \A i, k \in Job : i = k, NEW j \in Job, CopiesDone(j)
    PROVE  UpdateInv'
<1> DEFINE list == Files(job[j].tool)
<1>1. /\ UNCHANGED <<published, onDisk, system>> /\ Ends(j, "updated", TRUE)
      /\ job[j].pc = "copy" /\ ~At(j, "idle") /\ job[j].next > Len(list)
  BY DEF CopiesDone, Rest, world, At
<1>2. job[j].got \in job[j].tag..published
  BY <1>1, JobFacts DEF Released
<1>3. \A i \in DOMAIN list : list[i] \in job[j].kept \/ onDisk'[list[i]] = job[j].got
  <2>1. /\ job[j].next \in 1..4 /\ Len(list) = 3 /\ DOMAIN list = 1..3
        /\ \A i \in 1..3 : i < job[j].next => list[i] \in job[j].kept \/ onDisk[list[i]] = job[j].got
    BY <1>1, CopyFacts, Zenon
  <2> DEFINE next == job[j].next
             len == Len(list)
  <2>2. next > len /\ len = 3 /\ next \in 1..4
    BY <1>1, <2>1
  <2> HIDE DEF next, len
  <2>3. \A i \in 1..3 : i < next
    BY <2>2
  <2> QED BY <1>1, <2>1, <2>3, Zenon DEF next
<1> QED BY <1>1, <1>2, <1>3, JobFacts, JobEnds

LEMMA CreateFileKeeps ==
    ASSUME UpdateInv, \A i, k \in Job : i = k, NEW j \in Job, CreateFile(j)
    PROVE  UpdateInv'
<1> DEFINE list == Files(job[j].tool)
           n == job[j].next
<1>1. /\ UNCHANGED published /\ job[j].pc = "copy" /\ ~At(j, "idle") /\ n <= Len(list)
      /\ job[j].tool = "openvpn" => system[FileOf(j)] # Missing
  <2>1. UNCHANGED published /\ job[j].pc = "copy" /\ ~At(j, "idle") /\ n <= Len(list)
    BY DEF CreateFile, Rest, world, At
  <2>2. job[j].tool = "openvpn" => system[FileOf(j)] # Missing
    BY Zenon DEF CreateFile
  <2> QED BY <2>1, <2>2
<1>2. n \in 1..3 /\ FileOf(j) = list[n]
  <2>1. n \in 1..4 /\ Len(list) = 3
    BY <1>1, CopyFacts
  <2>2. FileOf(j) = list[n]
    BY DEF FileOf
  <2> HIDE DEF n, list
  <2> QED BY <1>1, <2>1, <2>2
<1>3. CASE CopyFails(j)
  BY <1>1, <1>3, FailKeeps DEF CopyFails
<1>4. ASSUME onDisk' = [onDisk EXCEPT ![FileOf(j)] = Torn],
             Goto(j, "write"), UNCHANGED <<system, shown>>
      PROVE  UpdateInv'
  <2> DEFINE r == [job[j] EXCEPT !.pc = "write"]
  <2>1. job' = [job EXCEPT ![j] = r]
    BY <1>4, JobFacts DEF Goto
  <2>2. r \in JobRecord
    BY JobFacts DEF JobRecord, Step
  <2>3. /\ r.pc = "write" /\ r.got = job[j].got /\ r.tool = job[j].tool /\ r.tag = job[j].tag
        /\ r.next = n /\ r.kept = job[j].kept
    BY <1>1, JobFacts DEF JobRecord
  <2>4. Released(r)
    BY <1>1, <2>3, JobFacts DEF Released
  <2> HIDE DEF r, n, list
  <2>5. onDisk' \in [File -> Nat]
    BY <1>1, <1>2, <1>4, CopyFacts, JobFacts DEF Torn, n, list
  <2>6. ASSUME NEW i \in 1..3, i < n
        PROVE  list[i] \in job[j].kept \/ onDisk'[list[i]] = job[j].got
    <3>1. list[i] # list[n] /\ list[i] \in File
      BY <1>1, <1>2, <2>6, CopyFacts DEF n, list
    <3>2. onDisk'[list[i]] = onDisk[list[i]]
      BY <1>2, <1>4, <3>1, JobFacts
    <3> QED BY <1>1, <2>6, <3>2, CopyFacts DEF n, list
  <2>7. r.tool = "openvpn" =>
           /\ \A f \in OpenVPNFile : f \in r.kept \/ system'[f] \in {Missing, r.got}
           /\ system'[Files(r.tool)[r.next]] # Missing
    BY <1>1, <1>2, <1>4, <2>3, CopyFacts DEF list
  <2>8. /\ r.next \in 1..4 /\ r.next # 4
        /\ \A i \in 1..3 : i < r.next =>
              Files(r.tool)[i] \in r.kept \/ onDisk'[Files(r.tool)[i]] = r.got
    BY <1>2, <2>3, <2>6 DEF list
  <2> QED BY <1>1, <1>4, <2>1, <2>2, <2>4, <2>5, <2>7, <2>8, JobFacts, JobGoesOn
<1> QED BY <1>3, <1>4, Zenon DEF CreateFile

LEMMA FillFileKeeps ==
    ASSUME UpdateInv, \A i, k \in Job : i = k, NEW j \in Job, FillFile(j)
    PROVE  UpdateInv'
<1> DEFINE list == Files(job[j].tool)
           n == job[j].next
           new == IF job[j].tool = "openvpn" THEN system[FileOf(j)] ELSE job[j].got
<1>1. UNCHANGED published /\ job[j].pc = "write" /\ ~At(j, "idle")
  BY DEF FillFile, Rest, world, At
<1>2. /\ n \in 1..3 /\ FileOf(j) = list[n] /\ list[n] \in File
      /\ job[j].tool = "openvpn" => system[list[n]] # Missing /\ list[n] \in OpenVPNFile
  BY <1>1, CopyFacts, JobFacts DEF Copied, FileOf
<1>3. CASE CopyFails(j)
  BY <1>1, <1>3, FailKeeps DEF CopyFails
<1>4. ASSUME onDisk' = [onDisk EXCEPT ![FileOf(j)] = new],
             job' = [job EXCEPT ![j].pc = "copy", ![j].next = @ + 1],
             UNCHANGED <<system, shown>>
      PROVE  UpdateInv'
  <2> DEFINE m == job[j].next + 1
             r == [job[j] EXCEPT !.pc = "copy", !.next = m]
  <2>1. job' = [job EXCEPT ![j] = r]
    BY <1>4, JobFacts
  <2>2. r \in JobRecord
    <3>1. m \in Nat \ {0}
      BY JobFacts
    <3> HIDE DEF m
    <3> QED BY <3>1, JobFacts DEF JobRecord, Step
  <2>3. /\ r.pc = "copy" /\ r.got = job[j].got /\ r.tool = job[j].tool /\ r.tag = job[j].tag
        /\ r.next = n + 1 /\ r.kept = job[j].kept
    BY <1>1, JobFacts DEF JobRecord
  <2>4. Released(r)
    BY <1>1, <2>3, JobFacts DEF Released
  <2>5. new \in Nat /\ (list[n] \in job[j].kept \/ new = job[j].got)
    BY <1>1, <1>2, CopyFacts, JobFacts DEF OnSystem
  <2> HIDE DEF r, n, list, new
  <2>6. onDisk' \in [File -> Nat] /\ onDisk'[list[n]] = new
    BY <1>2, <1>4, <2>5, JobFacts
  <2>7. ASSUME NEW i \in 1..3, i < n + 1
        PROVE  list[i] \in job[j].kept \/ onDisk'[list[i]] = job[j].got
    <3>1. CASE i = n
      BY <2>5, <2>6, <3>1
    <3>2. CASE i < n
      <4>1. list[i] # list[n] /\ list[i] \in File
        BY <1>1, <1>2, <3>2, CopyFacts DEF n, list
      <4>2. onDisk'[list[i]] = onDisk[list[i]]
        BY <1>2, <1>4, <4>1, JobFacts
      <4> QED BY <1>1, <3>2, <4>2, CopyFacts DEF n, list
    <3> QED BY <1>2, <2>7, <3>1, <3>2
  <2>8. r.tool = "openvpn" =>
           \A f \in OpenVPNFile : f \in r.kept \/ system'[f] \in {Missing, r.got}
    BY <1>1, <1>4, <2>3, CopyFacts
  <2>9. /\ r.next \in 1..4
        /\ \A i \in 1..3 : i < r.next =>
              Files(r.tool)[i] \in r.kept \/ onDisk'[Files(r.tool)[i]] = r.got
    BY <1>2, <2>3, <2>7 DEF list
  <2> QED BY <1>1, <1>4, <2>1, <2>2, <2>3, <2>4, <2>6, <2>8, <2>9, JobFacts, JobGoesOn
<1> QED BY <1>3, <1>4, Zenon DEF FillFile

\* A crash or a reboot forgets the jobs and the dialogs with them.
LEMMA CrashKeeps ==
    ASSUME UpdateInv, PendingType, CrashAll \/ Reboot
    PROVE  UpdateInv'
<1>1. Die
  BY DEF CrashAll, Reboot
<1>2. system' \in [OnSystem -> Nat]
  <2>1. CASE CrashAll
    BY <2>1 DEF CrashAll, UpdateInv, UpdateType
  <2>2. CASE Reboot
    <3>1. \A f \in OpenVPNFile : pending[f] \in Nat
      BY DEF PendingType
    <3>2. system \in [OnSystem -> Nat]
      BY DEF UpdateInv, UpdateType
    <3> QED BY <2>2, <3>1, <3>2 DEF Reboot
  <2> QED BY <2>1, <2>2
<1>3. UpdateType'
  BY <1>1, <1>2, IdleRecord DEF Die, Reboot, UpdateInv, UpdateType
<1>4. ASSUME NEW j \in Job
      PROVE  Released(job[j])' /\ Copied(job[j])' /\ ~Updated(j)'
  <2>1. job'[j] = Idle /\ Idle.pc = "idle" /\ Idle.next = 1
    BY <1>1 DEF Die, Idle
  <2>2. shown'[j].text = ""
    BY <1>1 DEF Die, NoDialog
  <2> QED BY <2>1, <2>2 DEF Released, Copied, Updated
<1> QED BY <1>3, <1>4 DEF UpdateInv, UpdatedMeansReplaced

LEMMA PublishKeeps ==
    ASSUME UpdateInv, Publish
    PROVE  UpdateInv'
<1>1. published \in Nat /\ published' = published + 1
      /\ UNCHANGED <<onDisk, system, job, shown>>
  BY DEF UpdateInv, UpdateType, Publish
<1>2. UpdateType'
  BY <1>1 DEF UpdateInv, UpdateType
<1>3. ASSUME NEW j \in Job
      PROVE  Released(job[j])' /\ Copied(job[j])' /\ (Updated(j) => At(j, "idle"))'
  BY <1>1, JobFacts DEF UpdateInv, Released, Copied, Updated, At
<1>4. \A tag, v : v \in tag..published => v \in tag..published'
  BY <1>1
<1>5. UpdatedMeansReplaced'
  BY <1>1, <1>4 DEF UpdateInv, UpdatedMeansReplaced, Updated, Copying
<1> QED BY <1>2, <1>3, <1>5 DEF UpdateInv

LEMMA StillKeeps ==
    ASSUME UpdateInv, UNCHANGED <<published, onDisk, system, job, shown>>
    PROVE  UpdateInv'
<1>1. UpdateType'
  BY DEF UpdateInv, UpdateType
<1>2. ASSUME NEW j \in Job
      PROVE  Released(job[j])' /\ Copied(job[j])' /\ (Updated(j) => At(j, "idle"))'
  BY DEF UpdateInv, Released, Copied, Updated, At
<1>3. UpdatedMeansReplaced'
  BY DEF UpdateInv, UpdatedMeansReplaced, Updated, Copying
<1> QED BY <1>1, <1>2, <1>3 DEF UpdateInv

LEMMA UpdateStarts == UpdateInit => UpdateInv
<1> SUFFICES ASSUME UpdateInit PROVE UpdateInv
  OBVIOUS
<1>1. UpdateType
  <2>1. system \in [OnSystem -> Nat]
    BY DEF UpdateInit, Missing, OnSystem
  <2> QED BY <2>1, IdleRecord DEF UpdateInit, UpdateType
<1>2. ASSUME NEW j \in Job
      PROVE  Released(job[j]) /\ Copied(job[j]) /\ ~Updated(j)
  <2>1. job[j] = Idle /\ Idle.pc = "idle" /\ Idle.next = 1
    BY DEF UpdateInit, Idle
  <2>2. shown[j].text = ""
    BY DEF UpdateInit, NoDialog
  <2> QED BY <2>1, <2>2 DEF Released, Copied, Updated
<1> QED BY <1>1, <1>2 DEF UpdateInv, UpdatedMeansReplaced

LEMMA PendingStep ==
    ASSUME UpdateInv, PendingType, [UpdateNext]_toolVars
    PROVE  PendingType'
<1>1. ASSUME NEW j \in Job, RunOpenVPNInstaller(j) PROVE PendingType'
  <2>1. job[j].got \in Nat
    BY JobFacts
  <2>2. CASE Fails(j, "installer failed")
    BY <2>2 DEF Fails, PendingType
  <2>3. ASSUME NEW left, NEW absent, Installed(job[j].got, left, absent) PROVE PendingType'
    BY <2>1, <2>3 DEF Installed, PendingType, Missing
  <2> QED BY <1>1, <2>2, <2>3 DEF RunOpenVPNInstaller
<1>2. CASE Reboot
  BY <1>2 DEF Reboot, PendingType, Missing
<1>3. ASSUME NEW j \in Job, JobStep(j), ~RunOpenVPNInstaller(j) PROVE UNCHANGED pending
  <2>1. CASE FetchTag(j) \/ FindUrls(j) \/ InstallDriver(j) \/ Unpack(j) \/ RunAppInstaller(j)
    BY <2>1, Zenon DEF FetchTag, FindUrls, InstallDriver, Unpack, RunAppInstaller, Fails
  <2>2. CASE Download(j)
    BY <2>2, Zenon DEF Download, NextUrl
  <2>3. CASE SkipFile(j) \/ CreateFile(j) \/ FillFile(j) \/ CopiesDone(j)
    BY <2>3, Zenon DEF SkipFile, CreateFile, FillFile, CopiesDone, CopyFails, Fails
  <2> QED BY <1>3, <2>1, <2>2, <2>3, Zenon DEF JobStep
<1>4. ASSUME NEW j \in Job, NEW t \in Tools, Ask(j, t) PROVE UNCHANGED pending
  BY <1>4 DEF Ask
<1>5. CASE CrashAll \/ Publish \/ Engine \/ UNCHANGED toolVars
  BY <1>5 DEF CrashAll, Publish, Engine, toolVars, PendingType
<1> QED BY <1>1, <1>2, <1>3, <1>4, <1>5 DEF UpdateNext, PendingType

LEMMA UpdateStep ==
    ASSUME \A i, k \in Job : i = k, UpdateInv, PendingType, [UpdateNext]_toolVars
    PROVE  UpdateInv'
<1>1. ASSUME NEW j \in Job, JobStep(j) PROVE UpdateInv'
  BY <1>1, FetchTagKeeps, FindUrlsKeeps, InstallDriverKeeps, DownloadKeeps, UnpackKeeps,
     RunOpenVPNInstallerKeeps, RunAppInstallerKeeps, SkipFileKeeps, CreateFileKeeps,
     FillFileKeeps, CopiesDoneKeeps DEF JobStep
<1>2. ASSUME NEW j \in Job, NEW t \in Tools, Ask(j, t) PROVE UpdateInv'
  BY <1>2, AskKeeps
<1>3. CASE Engine
  BY <1>3, StillKeeps DEF Engine
<1>4. CASE UNCHANGED toolVars
  BY <1>4, StillKeeps DEF toolVars
<1> QED BY <1>1, <1>2, <1>3, <1>4, CrashKeeps, PublishKeeps DEF UpdateNext

(***************************************************************************)
(* One update at a time, however often it fails, is cut off by a crash or  *)
(* meets a new release: "updated to v" is only said when every file of the *)
(* tool was replaced by one release, v or a later one, except files that   *)
(* release does not hold and those the installer has left to the reboot.   *)
(***************************************************************************)
THEOREM UpdatedAlwaysMeansReplaced ==
    ASSUME \A i, k \in Job : i = k
    PROVE  UpdateSpec => []UpdatedMeansReplaced
<1>1. UpdateInit => UpdateInv /\ PendingType
  BY UpdateStarts DEF UpdateInit, PendingType, Missing
<1>2. UpdateInv /\ PendingType /\ [UpdateNext]_toolVars => UpdateInv' /\ PendingType'
  BY UpdateStep, PendingStep
<1>3. UpdateInv => UpdatedMeansReplaced
  BY DEF UpdateInv
<1> QED BY <1>1, <1>2, <1>3, PTL DEF UpdateSpec
-----------------------------------------------------------------------------
(***************************************************************************)
(* The log.  Increasing: a text has no line twice or before an older one.  *)
(***************************************************************************)
Increasing(t) == \A i, j \in 1..Len(t) : i < j => t[i] < t[j]

\* The entries of t come after id, each of them is one of the first k in the ring.
After(t, id, k) ==
    /\ t \in Seq(Nat) /\ Increasing(t)
    /\ \A i \in 1..Len(t) : t[i] > id /\ \E j \in 1..k : t[i] = entries[j]

LEMMA EmptyIncreasing == << >> \in Seq(Nat) /\ Increasing(<< >>) /\ Len(<< >>) = 0
  BY DEF Increasing

LEMMA AppendAfter ==
    ASSUME NEW n \in Nat, NEW k \in 1..n, NEW id \in Nat, NEW t,
           entries \in Seq(Nat), Len(entries) = n, Increasing(entries),
           After(t, id, k - 1)
    PROVE  After(IF entries[k] > id THEN Append(t, entries[k]) ELSE t, id, k)
  <1> DEFINE e == entries[k]
             u == Append(t, e)
             m == Len(t)
  <1>0. e \in Nat /\ \A j \in 1..(k - 1) : j \in 1..n /\ entries[j] < e
    BY DEF Increasing
  <1>1. /\ t \in Seq(Nat) /\ m \in Nat /\ \A i, j \in 1..m : i < j => t[i] < t[j]
        /\ \A i \in 1..m : t[i] > id /\ \E j \in 1..(k - 1) : t[i] = entries[j]
    BY DEF After, Increasing
  <1>2. \A j \in 1..(k - 1) : j \in 1..k
    OBVIOUS
  <1>3. CASE ~(e > id)
    BY <1>1, <1>2, <1>3 DEF After, Increasing
  <1>4. CASE e > id
    <2> HIDE DEF e
    <2>1. u \in Seq(Nat) /\ Len(u) = m + 1 /\ u[m + 1] = e /\ \A i \in 1..m : u[i] = t[i]
      BY <1>0, <1>1
    <2>2. \A i \in 1..(m + 1) : i \in 1..m \/ i = m + 1
      BY <1>1
    <2> HIDE DEF u, m
    <2>3. \A i \in 1..(m + 1) : u[i] > id /\ \E j \in 1..k : u[i] = entries[j]
      <3> SUFFICES ASSUME NEW i \in 1..(m + 1)
                   PROVE  u[i] > id /\ \E j \in 1..k : u[i] = entries[j]
        OBVIOUS
      <3>1. CASE i \in 1..m
        BY <1>1, <1>2, <2>1, <3>1
      <3>2. CASE i = m + 1
        <4>1. k \in 1..k
          OBVIOUS
        <4> QED
          BY <1>4, <2>1, <3>2, <4>1 DEF e
      <3> QED
        BY <2>2, <3>1, <3>2
    <2>4. \A i \in 1..m : u[i] < e
      BY <1>0, <1>1, <2>1
    <2>5. \A i, j \in 1..(m + 1) : i < j => u[i] < u[j]
      <3> SUFFICES ASSUME NEW i \in 1..(m + 1), NEW j \in 1..(m + 1), i < j PROVE u[i] < u[j]
        OBVIOUS
      <3>1. i \in 1..m
        BY <1>1
      <3>2. CASE j \in 1..m
        BY <1>1, <2>1, <3>1, <3>2
      <3>3. CASE j = m + 1
        BY <2>1, <2>4, <3>1, <3>3
      <3> QED
        BY <2>2, <3>2, <3>3
    <2>6. After(u, id, k)
      BY <2>1, <2>3, <2>5 DEF After, Increasing
    <2> QED
      BY <1>4, <2>6 DEF u, e
  <1> QED
    BY <1>3, <1>4

LEMMA SinceFacts ==
    ASSUME entries \in Seq(Nat), Increasing(entries), NEW id \in Nat
    PROVE  After(Since(id), id, Len(entries))
  <1> DEFINE n == Len(entries)
             Pass(v, k) == IF entries[k] > id THEN Append(v, entries[k]) ELSE v
             Loop(f, m) == [k \in 0..m |-> IF k = 0 THEN << >> ELSE Pass(f[k - 1], k)]
             Out == CHOOSE f : f = Loop(f, n)
  <1>1. Since(id) = Out[n]
    BY Zenon DEF Since
  <1> DEFINE h == [k \in 1..n |-> [v \in Seq(Nat) |-> Pass(v, k)]]
  <1>2. n \in Nat /\ n = Len(entries) /\ << >> \in Seq(Nat) /\ \A k \in 1..n : entries[k] \in Nat
    OBVIOUS
  <1> HIDE DEF n
  <1>3. \A k \in 1..n : \A v \in Seq(Nat) : Pass(v, k) \in Seq(Nat)
    BY <1>2
  <1> HIDE DEF Pass
  <1>4. h \in [1..n -> [Seq(Nat) -> Seq(Nat)]]
    BY <1>3
  <1> DEFINE V == Seq(Nat)
             a == << >>
  <1>A. PICK g : IsLoop(g, n, V, a, h)
    <2>1. a \in V /\ h \in [1..n -> [V -> V]]
      BY <1>2, <1>4
    <2> HIDE DEF h, V, a
    <2> QED
      BY <1>2, <2>1, Recursion
  <1>5. g \in [0..n -> V] /\ g[0] = << >> /\ \A i \in 1..n : g[i] = h[i][g[i - 1]]
    BY <1>A DEF IsLoop
  <1>6. \A i \in 1..n : g[i] = Pass(g[i - 1], i)
    <2> SUFFICES ASSUME NEW i \in 1..n PROVE g[i] = Pass(g[i - 1], i)
      OBVIOUS
    <2>1. i - 1 \in 0..n
      BY <1>2
    <2>2. g[i - 1] \in V
      BY <1>5, <2>1
    <2> HIDE DEF V
    <2> QED
      BY <1>5, <2>2 DEF V
  <1> HIDE DEF h, V
  <1>7. g = Loop(g, n)
    <2> DEFINE r == Loop(g, n)
    <2>1. DOMAIN g = 0..n /\ DOMAIN r = 0..n /\ g = [k \in 0..n |-> g[k]] /\ r = [k \in 0..n |-> r[k]]
      BY <1>5
    <2>2. ASSUME NEW k \in 0..n PROVE g[k] = r[k]
      <3>1. k = 0 \/ (k # 0 /\ k \in 1..n)
        BY <1>2
      <3> QED
        BY <1>5, <1>6, <3>1
    <2> HIDE DEF r
    <2>3. g = r
      BY <2>1, <2>2
    <2> QED
      BY <2>3 DEF r
  <1> HIDE DEF Loop
  <1>8. Out = Loop(Out, n)
    BY <1>7, Zenon
  <1> HIDE DEF Out
  <1>9. Out[0] = << >> /\ \A k \in 1..n : Out[k] = Pass(Out[k - 1], k)
    <2>1. Out = [k \in 0..n |-> IF k = 0 THEN << >> ELSE Pass(Out[k - 1], k)]
      BY <1>8 DEF Loop
    <2>2. 0 \in 0..n /\ \A k \in 1..n : k \in 0..n /\ k # 0
      BY <1>2
    <2> QED
      BY <2>1, <2>2, Zenon
  <1> DEFINE T == {k \in Nat : k =< n => After(Out[k], id, k)}
  <1>10. 0 \in T
    <2>1. After(<< >>, id, 0)
      BY EmptyIncreasing DEF After
    <2> QED
      BY <1>9, <2>1
  <1>11. ASSUME NEW k \in Nat, k \in T PROVE k + 1 \in T
    <2> SUFFICES ASSUME k + 1 =< n PROVE After(Out[k + 1], id, k + 1)
      OBVIOUS
    <2> DEFINE j == k + 1
    <2>1. j \in 1..n /\ j - 1 = k /\ k =< n
      BY <1>2
    <2>2. After(Out[j - 1], id, j - 1)
      BY <1>11, <2>1
    <2> HIDE DEF j
    <2>3. After(Pass(Out[j - 1], j), id, j)
      BY <1>2, <2>1, <2>2, AppendAfter DEF Pass
    <2> QED
      BY <1>9, <2>1, <2>3 DEF j
  <1> HIDE DEF T
  <1>12. n \in T
    BY <1>2, <1>10, <1>11, Induction
  <1> QED
    BY <1>1, <1>2, <1>12 DEF T

\* A text whose lines are in order and not after the entry b.
Lines(t, b) == t \in Seq(Nat) /\ Increasing(t) /\ \A i \in 1..Len(t) : t[i] =< b

LEMMA LinesGrow ==
    ASSUME NEW a \in Nat, NEW b \in Nat, a =< b, NEW t, Lines(t, a)
    PROVE  Lines(t, b)
  <1>1. t \in Seq(Nat) /\ Increasing(t) /\ \A i \in 1..Len(t) : t[i] \in Nat /\ t[i] =< a
    BY DEF Lines
  <1>2. \A i \in 1..Len(t) : t[i] =< b
    BY <1>1
  <1> QED
    BY <1>1, <1>2 DEF Lines

LEMMA NoLines ==
    ASSUME NEW b PROVE Lines(<< >>, b)
  BY EmptyIncreasing DEF Lines

\* A part of a text.
LEMMA PartOfLines ==
    ASSUME NEW b \in Nat, NEW t, Lines(t, b), NEW m \in 1..(Len(t) + 1), NEW n \in 0..Len(t)
    PROVE  Lines(SubSeq(t, m, n), b)
  <1> DEFINE u == SubSeq(t, m, n)
  <1>1. t \in Seq(Nat) /\ Increasing(t) /\ \A i \in 1..Len(t) : t[i] =< b
    BY DEF Lines
  <1>2. u \in Seq(Nat)
    BY <1>1
  <1>3. CASE n < m
    <2>1. u = << >>
      BY <1>1, <1>3
    <2> QED
      BY <2>1, NoLines
  <1>4. CASE m =< n
    <2>1. Len(u) = n - m + 1 /\ \A i \in 1..Len(u) : u[i] = t[m + i - 1] /\ m + i - 1 \in 1..Len(t)
      BY <1>1, <1>4
    <2> HIDE DEF u
    <2>2. Increasing(u)
      <3> SUFFICES ASSUME NEW i \in 1..Len(u), NEW j \in 1..Len(u), i < j PROVE u[i] < u[j]
        BY DEF Increasing
      <3>1. m + i - 1 < m + j - 1
        OBVIOUS
      <3> QED
        BY <1>1, <2>1, <3>1 DEF Increasing
    <2>3. \A i \in 1..Len(u) : u[i] =< b
      BY <1>1, <2>1
    <2> QED
      BY <1>2, <2>2, <2>3 DEF Lines, u
  <1>5. m \in Int /\ n \in Int
    BY <1>1
  <1> QED
    BY <1>3, <1>4, <1>5

LEMMA NewestLines ==
    ASSUME NEW b \in Nat, NEW t, Lines(t, b), NEW n \in Nat
    PROVE  Lines(Newest(t, n), b)
  <1>1. t \in Seq(Nat)
    BY DEF Lines
  <1>2. CASE Len(t) > n
    <2> DEFINE m == Len(t) - n + 1
    <2>1. m \in 1..(Len(t) + 1) /\ Len(t) \in 0..Len(t)
      BY <1>1, <1>2
    <2>2. Lines(SubSeq(t, m, Len(t)), b)
      <3> HIDE DEF m
      <3> QED
        BY <2>1, PartOfLines
    <2> QED
      BY <1>2, <2>2 DEF Newest
  <1>3. CASE ~(Len(t) > n)
    BY <1>3 DEF Newest
  <1> QED
    BY <1>2, <1>3

\* The new entries follow the old text.
LEMMA LinesFollow ==
    ASSUME NEW a \in Nat, NEW b \in Nat, NEW s, NEW t, Lines(s, a), Lines(t, b), a =< b,
           \A i \in 1..Len(t) : t[i] > a
    PROVE  Lines(s \o t, b)
  <1> DEFINE u == s \o t
             n == Len(s)
             m == Len(t)
  <1>1. /\ s \in Seq(Nat) /\ t \in Seq(Nat) /\ n \in Nat /\ m \in Nat
        /\ \A i \in 1..n : s[i] \in Nat /\ s[i] =< a
        /\ \A i \in 1..m : t[i] \in Nat /\ t[i] =< b /\ t[i] > a
        /\ \A i, j \in 1..n : i < j => s[i] < s[j]
        /\ \A i, j \in 1..m : i < j => t[i] < t[j]
    BY DEF Lines, Increasing
  <1>2. /\ u \in Seq(Nat) /\ Len(u) = n + m
        /\ \A i \in 1..n : u[i] = s[i]
        /\ \A i \in (n + 1)..(n + m) : u[i] = t[i - n]
    BY <1>1
  <1> HIDE DEF u, n, m
  <1>3. \A i \in 1..(n + m) : i \in 1..n \/ (i \in (n + 1)..(n + m) /\ i - n \in 1..m /\ i > n)
    BY <1>1
  <1>4. \A i \in 1..(n + m) : u[i] =< b
    <2> TAKE i \in 1..(n + m)
    <2>1. CASE i \in 1..n
      <3>1. u[i] \in Nat /\ u[i] =< a
        BY <1>1, <1>2, <2>1
      <3> QED
        BY <3>1
    <2>2. CASE i \in (n + 1)..(n + m) /\ i - n \in 1..m
      BY <1>1, <1>2, <2>2
    <2> QED
      BY <1>3, <2>1, <2>2
  <1>5. \A i, j \in 1..(n + m) : i < j => u[i] < u[j]
    <2> SUFFICES ASSUME NEW i \in 1..(n + m), NEW j \in 1..(n + m), i < j PROVE u[i] < u[j]
      OBVIOUS
    <2>1. CASE i \in 1..n /\ j \in 1..n
      BY <1>1, <1>2, <2>1
    <2>2. CASE i \in 1..n /\ j \in (n + 1)..(n + m) /\ j - n \in 1..m
      <3>1. u[i] =< a /\ u[j] > a /\ u[i] \in Nat /\ u[j] \in Nat
        BY <1>1, <1>2, <2>2
      <3> QED
        BY <3>1
    <2>3. CASE i > n /\ i \in (n + 1)..(n + m) /\ i - n \in 1..m
      <3> DEFINE i2 == i - n
                 j2 == j - n
      <3>1. i2 \in 1..m /\ j2 \in 1..m /\ i2 < j2 /\ j \in (n + 1)..(n + m)
        BY <1>1, <2>3
      <3>2. u[i] = t[i2] /\ u[j] = t[j2]
        BY <1>2, <2>3, <3>1
      <3> HIDE DEF i2, j2
      <3> QED
        BY <1>1, <3>1, <3>2
    <2> QED
      BY <1>3, <2>1, <2>2, <2>3
  <1> QED
    BY <1>2, <1>4, <1>5 DEF Lines, Increasing, u

(***************************************************************************)
(* Every text the poller has made, be it in logText, on its way to the     *)
(* widget or in it, holds entries the poller has seen, in order; so does   *)
(* the ring, up to the last entry there is.  The two words of logText may  *)
(* come of two texts.                                                      *)
(***************************************************************************)
LogInv ==
    /\ lastID \in Nat /\ lastLog \in Nat /\ lastLog =< lastID
    /\ Lines(entries, lastID)
    /\ logText \in [ptr : Seq(Nat), len : Nat] /\ Lines(logText.ptr, lastLog)
    /\ Lines(text, lastLog) /\ Lines(logView, lastLog)
    /\ calls \in Seq(Seq(Nat)) /\ \A i \in 1..Len(calls) : Lines(calls[i], lastLog)

LEMMA LogStarts == LogInit => LogInv
  <1> SUFFICES ASSUME LogInit PROVE LogInv
    OBVIOUS
  <1>1. /\ lastID = 0 /\ lastLog = 0 /\ entries = << >> /\ text = << >> /\ logView = << >>
        /\ calls = << >> /\ logText = [ptr |-> << >>, len |-> 0]
    BY DEF LogInit, NoText
  <1>2. Lines(<< >>, 0)
    BY NoLines
  <1>3. logText \in [ptr : Seq(Nat), len : Nat] /\ logText.ptr = << >>
    BY <1>1
  <1>4. calls \in Seq(Seq(Nat)) /\ Len(calls) = 0
    BY <1>1
  <1> QED
    BY <1>1, <1>2, <1>3, <1>4 DEF LogInv

\* A word of logText.
LEMMA AssignLines ==
    ASSUME NEW b \in Nat, NEW s \in [ptr : Seq(Nat), len : Nat], Lines(s.ptr, b),
           NEW w, NEW t, Lines(t, b)
    PROVE  Assign(s, w, t) \in [ptr : Seq(Nat), len : Nat] /\ Lines(Assign(s, w, t).ptr, b)
  <1>1. t \in Seq(Nat) /\ Len(t) \in Nat
    BY DEF Lines
  <1>2. CASE w = "ptr"
    <2>1. Assign(s, w, t) \in [ptr : Seq(Nat), len : Nat] /\ Assign(s, w, t).ptr = t
      BY <1>1, <1>2 DEF Assign
    <2> QED
      BY <2>1
  <1>3. CASE w # "ptr"
    <2>1. Assign(s, w, t) \in [ptr : Seq(Nat), len : Nat] /\ Assign(s, w, t).ptr = s.ptr
      BY <1>1, <1>3 DEF Assign
    <2> QED
      BY <2>1
  <1> QED
    BY <1>2, <1>3

LEMMA PollLines == LogInv /\ Poll => LogInv'
  <1> SUFFICES ASSUME LogInv, Poll PROVE LogInv'
    OBVIOUS
  <1> DEFINE logs == Since(lastLog)
             old == SubSeq(logText.ptr, 1, logText.len)
             all == old \o logs
             n == Len(logs)
  <1>1. /\ logs # << >> /\ lastLog' = Last(logs)
        /\ UNCHANGED <<lastID, entries, logText, calls, logView>>
        /\ text' = text \/ (logText.len =< Len(logText.ptr) /\ text' = Newest(all, TextSize))
    <2>1. /\ logs # << >> /\ lastLog' = Last(logs)
          /\ UNCHANGED <<lastID, entries, logText, calls, logView>>
      BY DEF Poll, Seen
    <2>2. CASE logText.len > Len(logText.ptr)
      BY <2>1, <2>2 DEF Poll
    <2>3. CASE ~(logText.len > Len(logText.ptr))
      <3>1. text' = Newest(all, TextSize)
        BY <2>3 DEF Poll
      <3>2. logText.len \in Nat /\ Len(logText.ptr) \in Nat
        BY DEF LogInv
      <3> QED
        BY <2>1, <2>3, <3>1, <3>2
    <2> QED
      BY <2>2, <2>3
  <1>2. /\ lastID \in Nat /\ lastLog \in Nat /\ lastLog =< lastID
        /\ entries \in Seq(Nat) /\ Increasing(entries)
        /\ \A i \in 1..Len(entries) : entries[i] =< lastID
    BY DEF LogInv, Lines
  <1>3. After(logs, lastLog, Len(entries))
    BY <1>2, SinceFacts
  <1> HIDE DEF logs
  <1>4. /\ logs \in Seq(Nat) /\ Increasing(logs) /\ n \in Nat \ {0}
        /\ \A i \in 1..n : logs[i] \in Nat /\ logs[i] > lastLog /\ logs[i] =< lastID
    <2>1. logs \in Seq(Nat) /\ Increasing(logs)
      BY <1>3 DEF After
    <2>2. n \in Nat \ {0}
      BY <1>1, <2>1
    <2>3. \A i \in 1..n : logs[i] > lastLog /\ \E j \in 1..Len(entries) : logs[i] = entries[j]
      BY <1>3 DEF After
    <2>4. \A i \in 1..n : logs[i] =< lastID
      BY <1>2, <2>3
    <2>5. \A i \in 1..n : logs[i] \in Nat
      BY <2>1
    <2> QED
      BY <2>1, <2>2, <2>3, <2>4, <2>5
  <1>5. Last(logs) = logs[n] /\ n \in 1..n
    BY <1>4 DEF Last
  <1>6. lastLog' \in Nat /\ lastLog < lastLog' /\ lastLog' =< lastID
    BY <1>1, <1>4, <1>5
  <1>7. Lines(logs, lastLog')
    <2>1. ASSUME NEW i \in 1..n PROVE logs[i] =< logs[n]
      <3>1. i < n \/ i = n
        BY <1>4
      <3>2. logs[i] \in Nat /\ logs[n] \in Nat /\ (i < n => logs[i] < logs[n])
        BY <1>4, <1>5 DEF Increasing
      <3> QED
        BY <3>1, <3>2
    <2> QED
      BY <1>1, <1>4, <1>5, <2>1 DEF Lines
  <1>8. ASSUME NEW t, Lines(t, lastLog) PROVE Lines(t, lastLog')
    BY <1>2, <1>6, <1>8, LinesGrow
  <1>9. Lines(text', lastLog')
    <2>1. CASE text' = text
      BY <1>8, <2>1 DEF LogInv
    <2>2. CASE logText.len =< Len(logText.ptr) /\ text' = Newest(all, TextSize)
      <3> DEFINE p == logText.ptr
                 l == logText.len
      <3>1. Lines(p, lastLog) /\ p \in Seq(Nat) /\ l \in Nat /\ l =< Len(p)
        BY <2>2 DEF LogInv
      <3> HIDE DEF p, l
      <3>2. 1 \in 1..(Len(p) + 1) /\ l \in 0..Len(p)
        BY <3>1
      <3>3. Lines(SubSeq(p, 1, l), lastLog)
        BY <1>2, <3>1, <3>2, PartOfLines
      <3>4. Lines(old, lastLog)
        BY <3>3 DEF p, l
      <3> HIDE DEF old
      <3>5. Lines(all, lastLog')
        BY <1>2, <1>4, <1>6, <1>7, <3>4, LinesFollow
      <3> HIDE DEF all
      <3> QED
        BY <1>6, <2>2, <3>5, NewestLines, LogAssumption
    <2> QED
      BY <1>1, <2>1, <2>2
  <1> QED
    <2>1. /\ Lines(entries', lastID') /\ Lines(logText.ptr, lastLog') /\ Lines(logView, lastLog')
          /\ \A i \in 1..Len(calls) : Lines(calls[i], lastLog')
      BY <1>1, <1>8 DEF LogInv
    <2>2. logText \in [ptr : Seq(Nat), len : Nat] /\ calls \in Seq(Seq(Nat))
      BY DEF LogInv
    <2> QED
      BY <1>1, <1>2, <1>6, <1>9, <2>1, <2>2 DEF LogInv

LEMMA AddLines == LogInv /\ Add => LogInv'
  <1> SUFFICES ASSUME LogInv, Add PROVE LogInv'
    OBVIOUS
  <1> DEFINE u == Append(entries, lastID + 1)
             n == Len(entries)
  <1>1. /\ lastID' = lastID + 1 /\ entries' = Newest(u, RingSize)
        /\ UNCHANGED <<lastLog, logText, text, calls, logView>>
    BY DEF Add
  <1>2. /\ lastID \in Nat /\ lastLog \in Nat /\ lastLog =< lastID
        /\ entries \in Seq(Nat) /\ \A i, j \in 1..n : i < j => entries[i] < entries[j]
        /\ n \in Nat /\ \A i \in 1..n : entries[i] \in Nat /\ entries[i] =< lastID
    BY DEF LogInv, Lines, Increasing
  <1>3. u \in Seq(Nat) /\ Len(u) = n + 1 /\ u[n + 1] = lastID + 1 /\ \A i \in 1..n : u[i] = entries[i]
    BY <1>2
  <1> HIDE DEF u, n
  <1>4. \A i \in 1..(n + 1) : i \in 1..n \/ i = n + 1
    BY <1>2
  <1>5. \A i \in 1..(n + 1) : u[i] =< lastID + 1
    <2> TAKE i \in 1..(n + 1)
    <2>1. CASE i \in 1..n
      <3>1. u[i] \in Nat /\ u[i] =< lastID
        BY <1>2, <1>3, <2>1
      <3> QED
        BY <1>2, <3>1
    <2> QED
      BY <1>2, <1>3, <1>4, <2>1
  <1>6. \A i, j \in 1..(n + 1) : i < j => u[i] < u[j]
    <2> SUFFICES ASSUME NEW i \in 1..(n + 1), NEW j \in 1..(n + 1), i < j PROVE u[i] < u[j]
      OBVIOUS
    <2>1. i \in 1..n
      BY <1>2
    <2>2. CASE j \in 1..n
      BY <1>2, <1>3, <2>1, <2>2
    <2>3. CASE j = n + 1
      BY <1>2, <1>3, <2>1, <2>3
    <2> QED
      BY <1>4, <2>2, <2>3
  <1>7. Lines(u, lastID + 1)
    BY <1>3, <1>5, <1>6 DEF Lines, Increasing
  <1>8. lastID + 1 \in Nat /\ lastLog =< lastID + 1
    BY <1>2
  <1>9. Lines(entries', lastID')
    BY <1>1, <1>7, <1>8, NewestLines, LogAssumption
  <1> QED
    BY <1>1, <1>2, <1>8, <1>9 DEF LogInv

LEMMA LogStep == LogInv /\ [LogNext]_logVars => LogInv'
  <1> SUFFICES ASSUME LogInv, [LogNext]_logVars PROVE LogInv'
    OBVIOUS
  <1>1. CASE Add
    BY <1>1, AddLines
  <1>2. CASE Poll
    BY <1>2, PollLines
  <1>3. CASE Clear
    BY <1>3, NoLines DEF Clear, LogInv
  <1>4. CASE Do
    <2>1. calls' = Append(calls, text) /\ UNCHANGED <<lastID, entries, lastLog, logText, text, logView>>
      BY <1>4 DEF Do
    <2>2. calls \in Seq(Seq(Nat)) /\ text \in Seq(Nat)
      BY DEF LogInv, Lines
    <2>3. /\ calls' \in Seq(Seq(Nat))
          /\ \A i \in 1..Len(calls') :
                (i \in 1..Len(calls) /\ calls'[i] = calls[i]) \/ calls'[i] = text
      BY <2>1, <2>2
    <2>4. \A i \in 1..Len(calls') : Lines(calls'[i], lastLog)
      BY <2>3 DEF LogInv
    <2> QED
      BY <2>1, <2>3, <2>4 DEF LogInv
  <1>5. CASE SetText
    <2>1. /\ calls # << >> /\ logView' = Head(calls) /\ calls' = Tail(calls)
          /\ UNCHANGED <<lastID, entries, lastLog, logText, text>>
      BY <1>5 DEF SetText
    <2>2. calls \in Seq(Seq(Nat))
      BY DEF LogInv
    <2>3. /\ 1 \in 1..Len(calls) /\ logView' = calls[1] /\ calls' \in Seq(Seq(Nat))
          /\ \A i \in 1..Len(calls') : i + 1 \in 1..Len(calls) /\ calls'[i] = calls[i + 1]
      BY <2>1, <2>2
    <2>4. Lines(logView', lastLog) /\ \A i \in 1..Len(calls') : Lines(calls'[i], lastLog)
      BY <2>3 DEF LogInv
    <2> QED
      BY <2>1, <2>3, <2>4 DEF LogInv
  <1>6. ASSUME NEW w, WriteWord(w) PROVE LogInv'
    <2>1. logText' = Assign(logText, w, text) /\ UNCHANGED <<lastID, entries, lastLog, text, calls, logView>>
      BY <1>6 DEF WriteWord
    <2>2. logText' \in [ptr : Seq(Nat), len : Nat] /\ Lines(logText'.ptr, lastLog)
      BY <2>1, AssignLines DEF LogInv
    <2> QED
      BY <2>1, <2>2 DEF LogInv
  <1>7. ASSUME NEW w, ClearWord(w) PROVE LogInv'
    <2>1. /\ logText' = Assign(logText, w, << >>) /\ logView' \in {<< >>, logView}
          /\ UNCHANGED <<lastID, entries, lastLog, text, calls>>
      BY <1>7 DEF ClearWord
    <2>2. logText' \in [ptr : Seq(Nat), len : Nat] /\ Lines(logText'.ptr, lastLog)
      BY <2>1, NoLines, AssignLines DEF LogInv
    <2>3. Lines(logView', lastLog)
      BY <2>1, NoLines DEF LogInv
    <2> QED
      BY <2>1, <2>2, <2>3 DEF LogInv
  <1>8. CASE UNCHANGED logVars
    BY <1>8 DEF logVars, LogInv
  <1> QED
    BY <1>1, <1>2, <1>3, <1>4, <1>5, <1>6, <1>7, <1>8 DEF LogNext, Polling, Window

(***************************************************************************)
(* No line is in the log twice or before an older one, for rings and texts *)
(* of any size and any number of entries, whichever way the poller and     *)
(* clearLogs tear each other's string.                                     *)
(***************************************************************************)
THEOREM LinesOnlyOnce == LogSpec => []EachLineOnce
  <1>1. LogInv => EachLineOnce
    <2> SUFFICES ASSUME LogInv, NEW t \in {logView, text} \cup ToSet(calls),
                        NEW i \in DOMAIN t, NEW j \in DOMAIN t, i < j
                 PROVE  t[i] < t[j]
      BY DEF EachLineOnce
    <2>1. Lines(t, lastLog)
      <3>1. DOMAIN calls = 1..Len(calls)
        BY DEF LogInv
      <3> QED
        BY <3>1 DEF LogInv, ToSet
    <2>2. DOMAIN t = 1..Len(t)
      BY <2>1 DEF Lines
    <2> QED
      BY <2>1, <2>2 DEF Lines, Increasing
  <1> QED
    BY <1>1, LogStarts, LogStep, PTL DEF LogSpec
-----------------------------------------------------------------------------
(***************************************************************************)
(* The servers people share.  The name of a cipher has no separator in it, *)
(* a host no "@" or "?", a port none.  A password is any text but one:     *)
(* after an "@" in it there is no "?" right behind a port, for the base64  *)
(* of such a password, in the standard alphabet, can be cut to a text that *)
(* is another server.                                                      *)
(***************************************************************************)
Has(t, c) == \E i \in 1..Len(t) : t[i] = c

\* T: the tokens of a text.
Shareable(s, T) ==
    /\ Marks \subseteq T /\ s.scheme \in {"vless", "trojan", "ss", "vmess"}
    /\ s.method \in Seq(T) /\ s.password \in Seq(T) /\ s.host \in Seq(T)
    /\ ~Has(s.method, ":") /\ ~Has(s.method, "@") /\ ~Has(s.method, "?")
    /\ \A i, j \in 1..Len(s.password) :
          i < j /\ s.password[i] = "@" /\ s.password[j] = "?" => s.password[j - 1] \notin Ports
    /\ ~Has(s.host, "@") /\ ~Has(s.host, "?")
    /\ s.port \in T \ Marks /\ "" \notin Ports
    /\ s.query \in [type : T, security : T, sni : T, host : T, path : T, pbk : T,
                    serviceName : T, headerType : T]

ServersAreShareable(T) == \A s \in Servers : Shareable(s, T)

\* The place of a separator that is nowhere before it, and nowhere after it.
LEMMA FirstOf ==
    ASSUME NEW T, NEW t \in Seq(T), NEW c, NEW k \in 1..Len(t), t[k] = c,
           \A i \in 1..Len(t) : i < k => t[i] # c
    PROVE  IndexOf(t, c) = k
  <1> DEFINE I == {i \in 1..Len(t) : t[i] = c}
  <1>1. k \in I /\ \A y \in I : k =< y
    OBVIOUS
  <1>2. Min(I) = k
    <2>1. I \subseteq Int
      OBVIOUS
    <2> HIDE DEF I
    <2> QED
      BY <1>1, <2>1, MinIs
  <1> QED
    BY <1>1, <1>2 DEF IndexOf, SelectInSeq

LEMMA LastOf ==
    ASSUME NEW T, NEW t \in Seq(T), NEW c, NEW k \in 1..Len(t), t[k] = c,
           \A i \in 1..Len(t) : i > k => t[i] # c
    PROVE  LastIndexOf(t, c) = k
  <1> DEFINE I == {i \in 1..Len(t) : t[i] = c}
  <1>1. k \in I /\ \A y \in I : k >= y
    OBVIOUS
  <1>2. Max(I) = k
    <2>1. I \subseteq Int
      OBVIOUS
    <2> HIDE DEF I
    <2> QED
      BY <1>1, <2>1, MaxIs
  <1> QED
    BY <1>1, <1>2 DEF LastIndexOf, SelectLastInSeq

LEMMA LastIsThere ==
    ASSUME NEW T, NEW t \in Seq(T), NEW c, Has(t, c)
    PROVE  LastIndexOf(t, c) \in 1..Len(t) /\ t[LastIndexOf(t, c)] = c
  <1> DEFINE I == {i \in 1..Len(t) : t[i] = c}
  <1>1. I # {} /\ I \subseteq 0..Len(t) /\ Len(t) \in Nat
    BY DEF Has
  <1>2. Max(I) \in I
    <2> HIDE DEF I
    <2> QED
      BY <1>1, MaxIsGreatest
  <1> QED
    BY <1>1, <1>2 DEF LastIndexOf, SelectLastInSeq

LEMMA NoneOf ==
    ASSUME NEW t, NEW c, ~Has(t, c)
    PROVE  IndexOf(t, c) = 0 /\ LastIndexOf(t, c) = 0
  BY DEF IndexOf, SelectInSeq, LastIndexOf, SelectLastInSeq, Has


\* A text t that is two texts with a separator between them.
IsJoined(T, a, c, b, t) ==
    /\ t \in Seq(T) /\ Len(t) = Len(a) + 1 + Len(b)
    /\ \A i \in 1..Len(a) : t[i] = a[i]
    /\ t[Len(a) + 1] = c
    /\ \A i \in 1..Len(b) : t[Len(a) + 1 + i] = b[i]
    /\ \A i \in 1..Len(t) : i > Len(a) + 1 => t[i] = b[i - (Len(a) + 1)]
    /\ Before(t, Len(a) + 1) = a /\ From(t, Len(a) + 1) = b

LEMMA Joined ==
    ASSUME NEW T, NEW a \in Seq(T), NEW b \in Seq(T), NEW c \in T
    PROVE  IsJoined(T, a, c, b, a \o <<c>> \o b)
  <1> DEFINE t == a \o <<c>> \o b
  <1>1. /\ t \in Seq(T) /\ Len(t) = Len(a) + 1 + Len(b)
        /\ \A i \in 1..Len(a) : t[i] = a[i]
        /\ t[Len(a) + 1] = c
        /\ \A i \in 1..Len(b) : t[Len(a) + 1 + i] = b[i]
    OBVIOUS
  <1> HIDE DEF t
  <1>2. \A i \in 1..Len(t) : i > Len(a) + 1 => t[i] = b[i - (Len(a) + 1)]
    <2> SUFFICES ASSUME NEW i \in 1..Len(t), i > Len(a) + 1
                 PROVE  t[i] = b[i - (Len(a) + 1)]
      OBVIOUS
    <2> DEFINE j == i - (Len(a) + 1)
    <2>1. j \in 1..Len(b) /\ i = Len(a) + 1 + j
      BY <1>1
    <2> QED
      BY <1>1, <2>1
  <1>3. Before(t, Len(a) + 1) = a
    BY <1>1 DEF Before
  <1>4. From(t, Len(a) + 1) = b
    BY <1>1 DEF From
  <1> QED
    BY <1>1, <1>2, <1>3, <1>4 DEF IsJoined, t

LEMMA Associative ==
    ASSUME NEW T, NEW a \in Seq(T), NEW b \in Seq(T), NEW c \in Seq(T)
    PROVE  (a \o b) \o c = a \o (b \o c)
  OBVIOUS

\* "host:port", where a host with colons in it is an IPv6 address.
HostPort(s) == s.host \o <<":">> \o <<s.port>>

LEMMA CredentialsFacts ==
    ASSUME NEW T, NEW s, Shareable(s, T)
    PROVE  /\ Credentials(s) \in Seq(T)
           /\ IndexOf(Credentials(s), ":") = Len(s.method) + 1
           /\ Before(Credentials(s), Len(s.method) + 1) = s.method
           /\ From(Credentials(s), Len(s.method) + 1) = s.password
  <1>1. /\ s.method \in Seq(T) /\ s.password \in Seq(T)
        /\ \A i \in 1..Len(s.method) : s.method[i] # ":"
    BY DEF Shareable, Has
  <1> DEFINE m == s.method
             p == s.password
             t == m \o <<":">> \o p
  <1>2. Credentials(s) = t /\ t = m \o <<":">> \o p
    BY DEF Credentials
  <1>0. ":" \in T
    BY DEF Shareable, Marks
  <1> HIDE DEF m, p, t
  <1>4. m \in Seq(T) /\ p \in Seq(T) /\ \A i \in 1..Len(m) : m[i] # ":"
    BY <1>1 DEF m, p
  <1>A. IsJoined(T, m, ":", p, m \o <<":">> \o p)
    BY <1>0, <1>2, <1>4, Joined
  <1>B. IsJoined(T, m, ":", p, t)
    BY <1>0, <1>2, <1>4, <1>A
  <1>3. /\ t \in Seq(T) /\ Len(t) = Len(m) + 1 + Len(p)
        /\ \A i \in 1..Len(m) : t[i] = m[i]
        /\ t[Len(m) + 1] = ":"
        /\ Before(t, Len(m) + 1) = m /\ From(t, Len(m) + 1) = p
    BY <1>B DEF IsJoined
  <1>5. Len(m) + 1 \in 1..Len(t) /\ \A i \in 1..Len(t) : i < Len(m) + 1 => t[i] # ":"
    BY <1>3, <1>4
  <1>6. IndexOf(t, ":") = Len(m) + 1
    BY <1>3, <1>5, FirstOf
  <1> QED
    BY <1>2, <1>3, <1>6 DEF m, p

\* What Shadowsocks makes of the credentials.
LEMMA CredentialsKept ==
    ASSUME NEW T, NEW s, Shareable(s, T), NEW host, NEW port
    PROVE  \/ Shadowsocks(Credentials(s), host, port) = Refused
           \/ Shadowsocks(Credentials(s), host, port)
                = buildConfig("ss", host, port, s.method, s.password, NoStream)
  BY CredentialsFacts DEF Shadowsocks

LEMMA HostPortFacts ==
    ASSUME NEW T, NEW s, Shareable(s, T)
    PROVE  /\ HostPort(s) \in Seq(T) /\ ~Has(HostPort(s), "@") /\ ~Has(HostPort(s), "?")
           /\ splitHostPort(HostPort(s)) = [host |-> s.host, port |-> s.port]
  <1>1. /\ s.host \in Seq(T) /\ s.port \in T /\ ":" \in T
        /\ s.port # ":" /\ s.port # "@" /\ s.port # "?"
        /\ \A i \in 1..Len(s.host) : s.host[i] # "@" /\ s.host[i] # "?"
    BY DEF Shareable, Has, Marks
  <1> DEFINE h == s.host
             p == <<s.port>>
             t == h \o <<":">> \o p
  <1>2. HostPort(s) = t /\ t = h \o <<":">> \o p
    BY DEF HostPort
  <1>0. p \in Seq(T) /\ Len(p) = 1 /\ p[1] = s.port /\ ":" \in T
    BY <1>1
  <1> HIDE DEF h, p, t
  <1>4. h \in Seq(T) /\ \A i \in 1..Len(h) : h[i] # "@" /\ h[i] # "?"
    BY <1>1 DEF h
  <1>A. IsJoined(T, h, ":", p, h \o <<":">> \o p)
    BY <1>0, <1>2, <1>4, Joined
  <1>B. IsJoined(T, h, ":", p, t)
    BY <1>0, <1>2, <1>4, <1>A
  <1>3. /\ t \in Seq(T) /\ Len(t) = Len(h) + 1 + Len(p)
        /\ \A i \in 1..Len(h) : t[i] = h[i]
        /\ t[Len(h) + 1] = ":"
        /\ \A i \in 1..Len(p) : t[Len(h) + 1 + i] = p[i]
        /\ Before(t, Len(h) + 1) = h /\ From(t, Len(h) + 1) = p
    BY <1>B DEF IsJoined
  <1>5. Len(h) + 1 \in 1..Len(t) /\ Len(t) = Len(h) + 2 /\ t[Len(h) + 2] = s.port
    BY <1>0, <1>3, <1>4
  <1>6. \A i \in 1..Len(t) : i \in 1..Len(h) \/ i = Len(h) + 1 \/ i = Len(h) + 2
    BY <1>4, <1>5
  <1>7. \A i \in 1..Len(t) : t[i] # "@" /\ t[i] # "?"
    BY <1>1, <1>3, <1>4, <1>5, <1>6
  <1>8. \A i \in 1..Len(t) : i > Len(h) + 1 => t[i] # ":"
    BY <1>1, <1>4, <1>5, <1>6
  <1>9. LastIndexOf(t, ":") = Len(h) + 1
    BY <1>3, <1>5, <1>8, LastOf
  <1>10. splitHostPort(t) = [host |-> h, port |-> s.port]
    <2>1. Len(h) + 1 # 0 /\ (Len(h) + 1) + 1 = Len(h) + 2
      BY <1>4
    <2> QED
      BY <1>3, <1>5, <1>9, <2>1, Zenon DEF splitHostPort
  <1> QED
    BY <1>2, <1>3, <1>7, <1>10 DEF Has, h

LEMMA WholeFacts ==
    ASSUME NEW T, NEW s, Shareable(s, T)
    PROVE  /\ Whole(s) = Credentials(s) \o <<"@">> \o HostPort(s)
           /\ Whole(s) \in Seq(T)
           /\ AtSign(Whole(s)) = Len(Credentials(s)) + 1
           /\ Before(Whole(s), Len(Credentials(s)) + 1) = Credentials(s)
           /\ From(Whole(s), Len(Credentials(s)) + 1) = HostPort(s)
  <1>1. /\ Credentials(s) \in Seq(T) /\ HostPort(s) \in Seq(T)
        /\ \A i \in 1..Len(HostPort(s)) : HostPort(s)[i] # "@"
        /\ s.host \in Seq(T) /\ s.port \in T /\ ":" \in T /\ "@" \in T
    BY CredentialsFacts, HostPortFacts DEF Has, Shareable, Marks
  <1>2. Whole(s) = Credentials(s) \o <<"@">> \o HostPort(s)
    <2> DEFINE ca == Credentials(s) \o <<"@">>
               h == s.host
               c == <<":">>
               p == <<s.port>>
    <2>1. ca \in Seq(T) /\ h \in Seq(T) /\ c \in Seq(T) /\ p \in Seq(T)
      <3>1. Credentials(s) \in Seq(T) /\ <<"@">> \in Seq(T)
        BY <1>1
      <3> QED
        BY <1>1, <3>1
    <2>2. <<":", s.port>> = c \o p
      BY <1>1
    <2>3. Whole(s) = (ca \o h) \o (c \o p) /\ HostPort(s) = (h \o c) \o p
      BY <2>2 DEF Whole, HostPort
    <2> HIDE DEF ca, h, c, p
    <2>4. (ca \o h) \o (c \o p) = ca \o (h \o (c \o p)) /\ (h \o c) \o p = h \o (c \o p)
      <3> DEFINE q == c \o p
      <3>1. q \in Seq(T)
        BY <2>1
      <3>2. (ca \o h) \o q = ca \o (h \o q)
        <4> HIDE DEF q
        <4>1. ca \in Seq(T) /\ h \in Seq(T) /\ q \in Seq(T)
          BY <2>1, <3>1
        <4> QED
          BY <4>1
      <3>3. (h \o c) \o p = h \o (c \o p)
        BY <2>1, Associative
      <3> QED
        BY <3>2, <3>3
    <2> QED
      BY <2>3, <2>4 DEF ca
  <1> DEFINE c == Credentials(s)
             h == HostPort(s)
             t == c \o <<"@">> \o h
  <1>3. /\ c \in Seq(T) /\ h \in Seq(T) /\ \A i \in 1..Len(h) : h[i] # "@"
        /\ t = c \o <<"@">> \o h /\ "@" \in T
    BY <1>1
  <1> HIDE DEF c, h, t
  <1>A. IsJoined(T, c, "@", h, c \o <<"@">> \o h)
    BY <1>3, Joined
  <1>B. IsJoined(T, c, "@", h, t)
    BY <1>3, <1>A
  <1>4. /\ t \in Seq(T) /\ Len(t) = Len(c) + 1 + Len(h)
        /\ t[Len(c) + 1] = "@"
        /\ \A i \in 1..Len(t) : i > Len(c) + 1 => t[i] = h[i - (Len(c) + 1)]
        /\ Before(t, Len(c) + 1) = c /\ From(t, Len(c) + 1) = h
    BY <1>B DEF IsJoined
  <1>5. Len(c) + 1 \in 1..Len(t) /\ \A i \in 1..Len(t) : i > Len(c) + 1 => t[i] # "@"
    BY <1>3, <1>4
  <1>6. AtSign(t) = Len(c) + 1
    BY <1>4, <1>5, LastOf DEF AtSign
  <1> QED
    BY <1>2, <1>4, <1>6 DEF c, h, t

\* A text cut at a "?" has no "@" left, or no port behind it.
LEMMA CutFacts ==
    ASSUME NEW T, NEW s, Shareable(s, T), NEW c,
           c \in Cuts(Credentials(s)) \cup Cuts(Whole(s))
    PROVE  AtSign(c) = 0 \/ splitHostPort(From(c, AtSign(c))).port \notin Ports
  <1> DEFINE m == s.method
             p == s.password
             k == Credentials(s)
             h == HostPort(s)
             w == Whole(s)
  <1>1. /\ m \in Seq(T) /\ p \in Seq(T) /\ ":" \in T /\ "@" \in T /\ k \in Seq(T)
        /\ \A i \in 1..Len(m) : m[i] # "@" /\ m[i] # "?"
        /\ \A i, j \in 1..Len(p) : i < j /\ p[i] = "@" /\ p[j] = "?" => p[j - 1] \notin Ports
    BY CredentialsFacts DEF Shareable, Has, Marks
  <1>2. h \in Seq(T) /\ \A i \in 1..Len(h) : h[i] # "?"
    BY HostPortFacts DEF Has
  <1>3. k = m \o <<":">> \o p /\ w = k \o <<"@">> \o h /\ w \in Seq(T)
    BY WholeFacts DEF Credentials
  <1>c. c \in Cuts(k) \cup Cuts(w)
    OBVIOUS
  <1> HIDE DEF m, p, k, h, w
  <1>4. IsJoined(T, m, ":", p, k) /\ IsJoined(T, k, "@", h, w)
    <2>1. IsJoined(T, m, ":", p, m \o <<":">> \o p)
      BY <1>1, Joined
    <2>2. IsJoined(T, k, "@", h, k \o <<"@">> \o h)
      BY <1>1, <1>2, Joined
    <2> QED
      BY <1>3, <2>1, <2>2
  <1>5. /\ Len(m) \in Nat /\ Len(p) \in Nat /\ Len(k) \in Nat /\ Len(h) \in Nat
        /\ Len(k) = Len(m) + 1 + Len(p) /\ Len(w) = Len(k) + 1 + Len(h)
        /\ \A i \in 1..Len(m) : k[i] = m[i]
        /\ k[Len(m) + 1] = ":"
        /\ \A i \in 1..Len(k) : i > Len(m) + 1 => k[i] = p[i - (Len(m) + 1)]
        /\ \A i \in 1..Len(k) : w[i] = k[i]
        /\ w[Len(k) + 1] = "@"
        /\ \A i \in 1..Len(w) : i > Len(k) + 1 => w[i] = h[i - (Len(k) + 1)]
    BY <1>1, <1>2, <1>4 DEF IsJoined
  <1>6. \A i, j \in 1..Len(k) : i < j /\ k[i] = "@" /\ k[j] = "?" => k[j - 1] \notin Ports
    <2> SUFFICES ASSUME NEW i \in 1..Len(k), NEW j \in 1..Len(k), i < j, k[i] = "@", k[j] = "?"
                 PROVE  k[j - 1] \notin Ports
      OBVIOUS
    <2>0. i \in 1..Len(m) \/ i = Len(m) + 1 \/ i > Len(m) + 1
      BY <1>5
    <2>1. i > Len(m) + 1
      BY <1>1, <1>5, <2>0
    <2> DEFINE i2 == i - (Len(m) + 1)
               j2 == j - (Len(m) + 1)
               j3 == j - 1
    <2>2. /\ i2 \in 1..Len(p) /\ j2 \in 1..Len(p) /\ i2 < j2
          /\ j3 \in 1..Len(k) /\ j3 > Len(m) + 1 /\ j3 - (Len(m) + 1) = j2 - 1
      BY <1>5, <2>1
    <2>3. p[i2] = "@" /\ p[j2] = "?"
      BY <1>5, <2>1
    <2> HIDE DEF i2, j2, j3
    <2>4. p[j2 - 1] \notin Ports
      BY <1>1, <2>2, <2>3
    <2>5. k[j3] = p[j2 - 1]
      BY <1>5, <2>2
    <2> QED
      BY <2>4, <2>5 DEF j3
  <1>7. \A i, j \in 1..Len(w) : i < j /\ w[i] = "@" /\ w[j] = "?" => w[j - 1] \notin Ports
    <2> SUFFICES ASSUME NEW i \in 1..Len(w), NEW j \in 1..Len(w), i < j, w[i] = "@", w[j] = "?"
                 PROVE  w[j - 1] \notin Ports
      OBVIOUS
    <2>1. j \in 1..Len(k)
      <3>1. CASE j > Len(k) + 1
        <4> DEFINE j2 == j - (Len(k) + 1)
        <4>1. j2 \in 1..Len(h)
          BY <1>5, <3>1
        <4>2. h[j2] = "?"
          BY <1>5, <3>1
        <4> HIDE DEF j2
        <4> QED
          BY <1>2, <4>1, <4>2
      <3>2. j # Len(k) + 1
        BY <1>5
      <3>3. CASE ~(j > Len(k) + 1)
        <4> DEFINE n == Len(k)
        <4>1. n \in Nat /\ j \in Nat /\ 1 =< j /\ j # n + 1 /\ ~(j > n + 1)
          BY <1>5, <3>2, <3>3
        <4> HIDE DEF n
        <4>2. j \in 1..n
          BY <4>1
        <4> QED
          BY <4>2 DEF n
      <3> QED
        BY <3>1, <3>3
    <2>2. i \in 1..Len(k) /\ j - 1 \in 1..Len(k)
      BY <1>5, <2>1
    <2> QED
      BY <1>5, <1>6, <2>1, <2>2
  <1>8. ASSUME NEW t \in Seq(T), c \in Cuts(t),
               \A i, j \in 1..Len(t) : i < j /\ t[i] = "@" /\ t[j] = "?" => t[j - 1] \notin Ports
        PROVE  AtSign(c) = 0 \/ splitHostPort(From(c, AtSign(c))).port \notin Ports
    <2>1. PICK j \in 1..Len(t) : t[j] = "?" /\ c = SubSeq(t, 1, j - 1)
      BY <1>8 DEF Cuts
    <2>2. c \in Seq(T) /\ Len(c) = j - 1 /\ \A i \in 1..(j - 1) : c[i] = t[i]
      BY <2>1
    <2>3. CASE ~Has(c, "@")
      BY <2>3, NoneOf DEF AtSign
    <2>4. CASE Has(c, "@")
      <3> DEFINE at == AtSign(c)
                 hp == From(c, at)
      <3>1. at \in 1..Len(c) /\ c[at] = "@"
        BY <2>2, <2>4, LastIsThere DEF AtSign
      <3>2. t[j - 1] \notin Ports
        BY <1>8, <2>1, <2>2, <3>1
      <3>3. hp \in Seq(T) /\ Len(hp) = Len(c) - at /\ \A i \in 1..Len(hp) : hp[i] = c[at + i]
        BY <2>2, <3>1 DEF From
      <3> HIDE DEF at, hp
      <3> DEFINE n == LastIndexOf(hp, ":")
      <3>4. CASE n = 0 \/ Len(hp) # n + 1
        <4>1. splitHostPort(hp).port = ""
          BY <3>4 DEF splitHostPort
        <4> QED
          BY <4>1 DEF Shareable, hp, at
      <3>5. CASE n # 0 /\ Len(hp) = n + 1
        <4>1. splitHostPort(hp).port = hp[n + 1]
          BY <3>5 DEF splitHostPort
        <4>2. Len(hp) \in 1..Len(hp)
          <5>1. Has(hp, ":")
            BY <3>5, NoneOf
          <5> QED
            BY <3>3, <5>1 DEF Has
        <4>3. hp[n + 1] = c[Len(c)] /\ Len(c) \in 1..(j - 1)
          <5>1. at + Len(hp) = Len(c) /\ Len(c) \in 1..(j - 1)
            BY <2>2, <3>1, <3>3
          <5> QED
            BY <3>3, <3>5, <4>2, <5>1
        <4>4. c[Len(c)] = t[j - 1]
          BY <2>2, <4>3
        <4> QED
          BY <3>2, <4>1, <4>3, <4>4 DEF hp, at
      <3> QED
        BY <3>4, <3>5
    <2> QED
      BY <2>3, <2>4
  <1> QED
    BY <1>1, <1>3, <1>6, <1>7, <1>8, <1>c

LinkInv ==
    /\ server \in Servers /\ shape \in Shapes(server)
    /\ url = NotShared \/ url \in Links(server, shape)
    /\ LinkServerKept

\* The links parseSS is given.
LEMMA SSLinks ==
    ASSUME NEW T, NEW s, Shareable(s, T), s.scheme = "ss",
           NEW kind \in Shapes(s), NEW u \in Links(s, kind)
    PROVE  \/ u = Parts(Raw(s.method), s)
           \/ u = Parts(Raw(Credentials(s)), s)
           \/ u = Parts(Base64(Credentials(s)), s)
           \/ u = OneWord(Base64(Whole(s)))
           \/ \E c \in Cuts(Credentials(s)) \cup Cuts(Whole(s)) : u = OneWord(Base64(c))
  <1>1. kind \in {"plain", "escaped", "user64", "all64"}
    BY DEF Shapes
  <1>2. CASE kind = "plain"
    <2>1. Username(Credentials(s)) = s.method
      <3>1. Len(s.method) + 1 # 0
        <4>1. s.method \in Seq(T)
          BY Zenon DEF Shareable
        <4>2. Len(s.method) \in Nat
          BY <4>1
        <4> QED
          BY <4>2
      <3> QED
        BY <3>1, CredentialsFacts DEF Username
    <2> QED
      BY <1>2, <2>1 DEF Links, UserInfo
  <1>3. CASE kind = "escaped"
    BY <1>3 DEF Links, UserInfo
  <1>4. CASE kind = "user64"
    BY <1>4 DEF Links
  <1>5. CASE kind = "all64"
    BY <1>5 DEF Links
  <1> QED
    BY <1>1, <1>2, <1>3, <1>4, <1>5

LEMMA ConfigFields ==
    ASSUME NEW c, NEW protocol, NEW address, NEW port, NEW method, NEW password, NEW stream,
           c = buildConfig(protocol, address, port, method, password, stream)
    PROVE  /\ c.protocol = protocol /\ c.address = address /\ c.port = port
           /\ c.method = method /\ c.password = password /\ c.stream = stream
  BY DEF buildConfig

LEMMA RefusedFields == Refused.ok = FALSE
  BY DEF Refused

\* What parseSS makes of each of them.
LEMMA ParseSSKeeps ==
    ASSUME NEW T, LinkInv, Shareable(server, T), server.scheme = "ss",
           url # NotShared, parseSS, UNCHANGED server
    PROVE  LinkServerKept'
  <1> DEFINE s == server
             SameServer ==
               \/ config' = Refused
               \/ config' = buildConfig("ss", s.host, s.port, s.method, s.password, NoStream)
  <1>1. SameServer => LinkServerKept'
    <2>1. CASE config' = Refused
      BY <2>1, RefusedFields, Zenon DEF LinkServerKept
    <2>2. CASE config' = buildConfig("ss", s.host, s.port, s.method, s.password, NoStream)
      <3>1. /\ config'.protocol = "ss" /\ config'.address = server.host
            /\ config'.port = server.port /\ config'.password = server.password
            /\ config'.method = server.method
        BY <2>2, ConfigFields
      <3> QED
        BY <2>2, <3>1, Zenon DEF LinkServerKept
    <2> QED
      BY <2>1, <2>2
  <1> HIDE DEF SameServer
  <1>2. CASE url = Parts(Raw(s.method), s)
    <2>0. CASE s.method = Empty
      <3>1. url.user = Absent /\ decodeBase64(url.host).text = <<"noise">>
        BY <1>2, <2>0 DEF Absent, Raw, Parts, decodeBase64
      <3>2. ~Has(<<"noise">>, "@")
        BY DEF Has
      <3>3. AtSign(<<"noise">>) = 0
        BY <3>2, NoneOf DEF AtSign
      <3> QED
        BY <1>1, <3>1, <3>3 DEF parseSS, SameServer
    <2> SUFFICES ASSUME s.method # Empty PROVE LinkServerKept'
      BY <2>0
    <2>1. s.method # Empty /\ url.user = Raw(s.method) /\ url.user # Absent
      BY <1>2 DEF Absent, Raw, Parts
    <2> DEFINE d == decodeBase64(url.user)
               mp == IF d.ok THEN d.text ELSE url.user.text
    <2>2. config' = Shadowsocks(mp, url.host.text, url.port)
      BY <2>1 DEF parseSS
    <2>3. mp = <<"noise">> \/ mp = s.method
      BY <2>1 DEF decodeBase64, Raw
    <2>4. ~Has(<<"noise">>, ":") /\ ~Has(s.method, ":")
      <3>1. ~Has(<<"noise">>, ":")
        BY DEF Has
      <3> QED
        BY <3>1, Zenon DEF Shareable
    <2> HIDE DEF mp
    <2>5. IndexOf(mp, ":") = 0
      BY <2>3, <2>4, NoneOf
    <2> QED
      BY <1>1, <2>2, <2>5 DEF Shadowsocks, SameServer
  <1>3. CASE url = Parts(Raw(Credentials(s)), s) \/ url = Parts(Base64(Credentials(s)), s)
    <2>1. /\ url.user = Raw(Credentials(s)) \/ url.user = Base64(Credentials(s))
          /\ url.host.text = s.host /\ url.port = s.port
      <3>1. CASE url = Parts(Raw(Credentials(s)), s)
        BY <3>1 DEF Parts, Raw
      <3>2. CASE url = Parts(Base64(Credentials(s)), s)
        BY <3>2 DEF Parts, Raw
      <3> QED
        BY <1>3, <3>1, <3>2
    <2>2. Len(s.method) + 1 \in 1..Len(Credentials(s)) /\ Credentials(s)[Len(s.method) + 1] = ":"
      <3> DEFINE m == s.method
                 p == s.password
                 t == Credentials(s)
      <3>1. IsJoined(T, m, ":", p, t) /\ m \in Seq(T) /\ p \in Seq(T)
        BY Joined DEF Credentials, Shareable, Marks
      <3> HIDE DEF m, p, t
      <3>2. Len(t) = Len(m) + 1 + Len(p) /\ t[Len(m) + 1] = ":"
        BY <3>1 DEF IsJoined
      <3>3. Len(m) + 1 \in 1..Len(t)
        BY <3>1, <3>2
      <3> QED
        BY <3>2, <3>3 DEF m, t
    <2>3. /\ url.user # Absent
          /\ (IF decodeBase64(url.user).ok THEN decodeBase64(url.user).text ELSE url.user.text)
               = Credentials(s)
      <3>1. Credentials(s) # Empty
        BY <2>2 DEF Empty
      <3>2. CASE url.user = Raw(Credentials(s))
        <4>1. ~decodeBase64(url.user).ok /\ url.user.text = Credentials(s)
          <5>1. url.user.b64 = FALSE /\ url.user.text = Credentials(s)
            BY <3>2 DEF Raw
          <5>2. \E i \in 1..Len(url.user.text) : url.user.text[i] \in Marks
            BY <2>2, <5>1 DEF Marks
          <5> QED
            BY <5>1, <5>2, Zenon DEF decodeBase64
        <4> QED
          BY <3>1, <3>2, <4>1 DEF Raw, Absent
      <3>3. CASE url.user = Base64(Credentials(s))
        BY <3>3 DEF decodeBase64, Base64, Absent, Raw
      <3> QED
        BY <2>1, <3>2, <3>3
    <2>4. config' = Shadowsocks(Credentials(s), s.host, s.port)
      BY <2>1, <2>3 DEF parseSS
    <2> QED
      BY <1>1, <2>4, CredentialsKept DEF SameServer
  <1>4. ASSUME NEW c, url = OneWord(Base64(c))
        PROVE  config' = IF AtSign(c) = 0 THEN Refused
                         ELSE LET hp == splitHostPort(From(c, AtSign(c)))
                              IN  Shadowsocks(Before(c, AtSign(c)), hp.host, hp.port)
    <2>1. url.user = Absent /\ decodeBase64(url.host).ok /\ decodeBase64(url.host).text = c
      BY <1>4 DEF OneWord, Base64, decodeBase64
    <2> QED
      BY <2>1 DEF parseSS
  <1>5. CASE url = OneWord(Base64(Whole(s)))
    <2> DEFINE n == Len(Credentials(s)) + 1
    <2>1. AtSign(Whole(s)) = n /\ n # 0
      BY CredentialsFacts, WholeFacts
    <2>2. From(Whole(s), n) = HostPort(s) /\ Before(Whole(s), n) = Credentials(s)
      BY WholeFacts
    <2>3. splitHostPort(HostPort(s)).host = s.host /\ splitHostPort(HostPort(s)).port = s.port
      BY HostPortFacts
    <2>4. config' = Shadowsocks(Credentials(s), s.host, s.port)
      BY <1>4, <1>5, <2>1, <2>2, <2>3
    <2> QED
      BY <1>1, <2>4, CredentialsKept DEF SameServer
  <1>6. ASSUME NEW c \in Cuts(Credentials(s)) \cup Cuts(Whole(s)), url = OneWord(Base64(c))
        PROVE  LinkServerKept'
    <2>1. config' = Refused
      BY <1>4, <1>6, CutFacts DEF Shadowsocks, atoiOrZero
    <2> QED
      BY <1>1, <2>1 DEF SameServer
  <1>7. url \in Links(s, shape) /\ shape \in Shapes(s)
    BY DEF LinkInv
  <1> QED
    BY <1>2, <1>3, <1>5, <1>6, <1>7, SSLinks

LEMMA ParseURLKeeps ==
    ASSUME NEW T, LinkInv, Shareable(server, T), server.scheme \in {"vless", "trojan"},
           url # NotShared, parseVLESSOrTrojan, UNCHANGED <<server, shape>>
    PROVE  LinkServerKept'
  <1> DEFINE id == IF shape = "plain" THEN Username(server.password) ELSE server.password
  <1>1. url = Parts(Raw(id), server)
    BY DEF LinkInv, Shapes, Links, UserInfo
  <1>2. url.user.text = id /\ url.host.text = server.host /\ url.port = server.port
    BY <1>1 DEF Parts, Raw
  <1>3. \/ config' = Refused
        \/ /\ server.host # Empty
           /\ config' = buildConfig(server.scheme, server.host, server.port, Empty,
                                    id, buildStream(server.query, server.host))
    BY <1>2 DEF parseVLESSOrTrojan
  <1>4. CutShort' \/ id = server.password
    BY DEF CutShort
  <1> DEFINE stream == buildStream(server.query, server.host)
  <1>5. server.host # Empty /\ stream.security \in {"tls", "reality"} => stream.serverName # Empty
    <2> DEFINE q == server.query
    <2>1. server.host # Empty => ServerName(q, server.host) # Empty
      BY DEF ServerName, Empty
    <2>2. stream.security \in {"tls", "reality"} => q.security \in {"tls", "reality"}
      BY DEF buildStream
    <2>3. q.security \in {"tls", "reality"} => stream.serverName = ServerName(q, server.host)
      BY DEF buildStream
    <2> QED
      BY <2>1, <2>2, <2>3
  <1> HIDE DEF stream, id
  <1> QED
    <2>1. CASE config' = Refused
      BY <2>1, RefusedFields, Zenon DEF LinkServerKept
    <2>2. CASE /\ server.host # Empty
               /\ config' = buildConfig(server.scheme, server.host, server.port, Empty, id, stream)
      <3>1. /\ config'.protocol = server.scheme /\ config'.address = server.host
            /\ config'.port = server.port /\ config'.password = id
            /\ config'.stream = stream
        BY <2>2, ConfigFields
      <3>2. server.scheme # "ss"
        OBVIOUS
      <3> QED
        BY <1>4, <1>5, <2>2, <3>1, <3>2, Zenon DEF LinkServerKept
    <2> QED
      BY <1>3, <2>1, <2>2 DEF stream

LEMMA ParseVMessKeeps ==
    ASSUME NEW T, Shareable(server, T), parseVMess, server.scheme = "vmess", UNCHANGED server
    PROVE  LinkServerKept'
  <1> DEFINE stream == buildStream(VMessQuery(server.query), server.host)
  <1>1. server.host # Empty /\ stream.security \in {"tls", "reality"} => stream.serverName # Empty
    <2> DEFINE q == VMessQuery(server.query)
    <2>1. q.security \in {"", "tls"}
      BY DEF VMessQuery, Shareable
    <2> HIDE DEF q
    <2>2. server.host # Empty => ServerName(q, server.host) # Empty
      BY DEF ServerName, Empty
    <2>3. stream.security = q.security /\ (q.security = "tls" => stream.serverName = ServerName(q, server.host))
      BY <2>1 DEF buildStream, q
    <2> QED
      BY <2>1, <2>2, <2>3
  <1>2. \/ config' = Refused
        \/ /\ server.host # Empty
           /\ config' = buildConfig("vmess", server.host, server.port, Empty, server.password, stream)
    BY DEF parseVMess
  <1> HIDE DEF stream
  <1> QED
    <2>1. CASE config' = Refused
      BY <2>1, RefusedFields, Zenon DEF LinkServerKept
    <2>2. CASE /\ server.host # Empty
               /\ config' = buildConfig("vmess", server.host, server.port, Empty,
                                        server.password, stream)
      <3>1. /\ config'.protocol = "vmess" /\ config'.address = server.host
            /\ config'.port = server.port /\ config'.password = server.password
            /\ config'.stream = stream
        BY <2>2, ConfigFields
      <3> QED
        BY <1>1, <2>2, <3>1, Zenon DEF LinkServerKept
    <2> QED
      BY <1>2, <2>1, <2>2

(***************************************************************************)
(* A link that is imported is that of the server that was shared, with its *)
(* address, port, cipher and password, whatever separators the password    *)
(* has and whichever shape the link is in, but for the password of a plain *)
(* vless or trojan link, which is cut at its first colon.                  *)
(***************************************************************************)
THEOREM SharedServerIsKept ==
    ASSUME NEW T, ServersAreShareable(T)
    PROVE  LinkSpec => []LinkServerKept
  <1>1. LinkInit => LinkInv
    BY DEF LinkInit, LinkInv, LinkServerKept, Unparsed
  <1>2. LinkInv /\ [LinkNext]_linkVars => LinkInv'
    <2> SUFFICES ASSUME LinkInv, [LinkNext]_linkVars PROVE LinkInv'
      OBVIOUS
    <2>1. CASE Share
      BY <2>1 DEF Share, LinkInv, LinkServerKept, CutShort, NotShared
    <2>2. CASE Parse
      <3>1. Shareable(server, T) /\ url # NotShared /\ UNCHANGED <<server, shape, url>>
        BY <2>2 DEF Parse, LinkInv, ServersAreShareable
      <3>2. LinkServerKept'
        BY <2>2, <3>1, ParseSSKeeps, ParseURLKeeps, ParseVMessKeeps DEF Parse
      <3> QED
        BY <3>1, <3>2 DEF LinkInv, NotShared
    <2>3. CASE UNCHANGED linkVars
      BY <2>3 DEF linkVars, LinkInv, LinkServerKept, CutShort, NotShared
    <2> QED
      BY <2>1, <2>2, <2>3 DEF LinkNext
  <1>3. LinkInv => LinkServerKept
    BY DEF LinkInv
  <1> QED
    BY <1>1, <1>2, <1>3, PTL DEF LinkSpec
=============================================================================
