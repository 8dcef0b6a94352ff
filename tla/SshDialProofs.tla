--------------------------- MODULE SshDialProofs ----------------------------
(***************************************************************************)
(* For every host list, port and mode, connectSSH closes what its failed   *)
(* attempts opened, reports the host it is connected to, and gives up only *)
(* after the last of its attempts, which together name every host that the *)
(* list names.                                                             *)
(*                                                                         *)
(* For every exchange of responses and SSH bytes, the payload negotiation  *)
(* (consumePayloadHTTPNegotiation) hands the connection over without       *)
(* losing a byte of the SSH server, and within the limits of the client it *)
(* reads exactly the responses that were sent.                             *)
(***************************************************************************)
EXTENDS SshDial, Payload, Induction, SequenceTheorems, TLAPS

\* No connection to the text of a whole list is ever established.
Resolvable == pc \in {"tls", "payload", "handshake"} => DialledHost # ListText

DialInv == NoStrayConnection /\ ControlHostsAreDialled /\ Resolvable

\* An attempt reports the host it dials, unless that host cannot be dialled.
LEMMA ReportsDialled == DialledHost # ListText => controlHostsForAttempt = {DialledHost}
  BY DEF DialledHost, controlHostsForAttempt

\* While an attempt goes on, the host it dials does not change.
LEMMA SameAttempt ==
    ASSUME UNCHANGED <<profile, i>>
    PROVE  DialledHost' = DialledHost
  BY DEF DialledHost, attempt, NoText, profile

LEMMA DialInvInit == Init => DialInv
  BY DEF Init, DialInv, NoStrayConnection, ControlHostsAreDialled, Resolvable

\* A failed attempt leaves nothing open, if it had at most its own connection.
LEMMA ContinueCloses ==
    ASSUME Continue, open \subseteq {DialledHost}
    PROVE  DialInv'
  <1>1. open' = {} /\ pc' = "check"
    BY DEF Continue
  <1> QED
    BY <1>1 DEF DialInv, NoStrayConnection, ControlHostsAreDialled, Resolvable

LEMMA DialInvStep == DialInv /\ [Next]_vars => DialInv'
  <1> SUFFICES ASSUME DialInv, [Next]_vars PROVE DialInv'
    OBVIOUS
  <1> USE DEF DialInv, NoStrayConnection, ControlHostsAreDialled, Resolvable
  <1>1. CASE Check
    <2>1. DialledHost' = DialledHost
      BY <1>1, SameAttempt DEF Check
    <2> QED
      BY <1>1, <2>1 DEF Check
  <1>2. CASE Dial
    <2>1. CASE Continue
      BY <1>2, <2>1, ContinueCloses DEF Dial
    <2>2. CASE ~Continue
      <3>1. /\ DialledHost # ListText
            /\ open' = open \cup {DialledHost}
            /\ pc' = IF mode \in TLSModes THEN "tls" ELSE AfterTransport
            /\ UNCHANGED <<profile, i>>
        BY <1>2, <2>2 DEF Dial
      <3>2. DialledHost' = DialledHost
        BY <3>1, SameAttempt
      <3>3. open' = {DialledHost}
        BY <1>2, <3>1 DEF Dial
      <3>4. pc' \in {"tls", "payload", "handshake"}
        BY <3>1 DEF AfterTransport
      <3> QED
        BY <3>1, <3>2, <3>3, <3>4
    <2> QED
      BY <2>1, <2>2
  <1>3. ASSUME TLSHandshake \/ WritePayload PROVE DialInv'
    <2>1. open = {DialledHost}
      BY <1>3 DEF TLSHandshake, WritePayload
    <2>2. CASE Continue
      BY <2>1, <2>2, ContinueCloses
    <2>3. CASE ~Continue
      <3>1. /\ DialledHost # ListText
            /\ UNCHANGED <<profile, i, open>>
            /\ pc' \in {"payload", "handshake"}
        BY <1>3, <2>3 DEF TLSHandshake, WritePayload, Advance, AfterTransport
      <3>2. DialledHost' = DialledHost
        BY <3>1, SameAttempt
      <3> QED
        BY <2>1, <3>1, <3>2
    <2> QED
      BY <2>2, <2>3
  <1>4. CASE finishSSHHandshake
    <2>1. open = {DialledHost}
      BY <1>4 DEF finishSSHHandshake
    <2>2. CASE Continue
      BY <2>1, <2>2, ContinueCloses
    <2>3. CASE ~Continue
      <3>1. /\ DialledHost # ListText
            /\ UNCHANGED <<profile, i, open>>
            /\ pc' = "connected" /\ bundle' = controlHostsForAttempt
        BY <1>4, <2>3 DEF finishSSHHandshake
      <3>2. DialledHost' = DialledHost
        BY <3>1, SameAttempt
      <3> QED
        BY <2>1, <3>1, <3>2, ReportsDialled
    <2> QED
      BY <2>2, <2>3
  <1>5. ASSUME Cancel \/ UNCHANGED vars PROVE DialInv'
    <2>1. UNCHANGED <<profile, i, pc, open, bundle>>
      BY <1>5 DEF Cancel, vars
    <2>2. DialledHost' = DialledHost
      BY <2>1, SameAttempt
    <2> QED
      BY <2>1, <2>2
  <1> QED
    BY <1>1, <1>2, <1>3, <1>4, <1>5 DEF Next

(***************************************************************************)
(* connectSSH leaves no connection open but the one it returns.            *)
(***************************************************************************)
THEOREM NoConnectionIsStray == Spec => []NoStrayConnection
  <1>1. DialInv => NoStrayConnection
    BY DEF DialInv
  <1> QED
    BY <1>1, DialInvInit, DialInvStep, PTL DEF Spec

(***************************************************************************)
(* The hosts connectSSH reports are those its connection goes to, so the   *)
(* routes Start installs keep that connection out of the tunnel.           *)
(***************************************************************************)
THEOREM BypassCoversConnection == Spec => []ControlHostsAreDialled
  <1>1. DialInv => ControlHostsAreDialled
    BY DEF DialInv
  <1> QED
    BY <1>1, DialInvInit, DialInvStep, PTL DEF Spec

-----------------------------------------------------------------------------
\* hosts with the ports they are dialled at.
Attempt == [host : Host \cup {NoHost}, port : Nat]

\* v has every entry of the first m of l that is not empty.
HasAll(v, l, m) ==
    /\ v \in Seq(Entry)
    /\ \A k \in 1..m : l[k] # Empty => \E j \in 1..Len(v) : v[j] = l[k]

LEMMA HasAllStep ==
    ASSUME NEW n \in Nat, NEW m \in 1..n, NEW l, l \in Seq(Entry), Len(l) = n,
           NEW v, HasAll(v, l, m - 1)
    PROVE  HasAll(IF l[m] = Empty \/ l[m] \in Range(v) THEN v ELSE Append(v, l[m]), l, m)
  <1>1. v \in Seq(Entry) /\ l[m] \in Entry
    BY DEF HasAll
  <1>2. \A k \in 1..m : k \in 1..(m - 1) \/ k = m
    OBVIOUS
  <1>3. CASE l[m] = Empty
    BY <1>1, <1>2, <1>3 DEF HasAll
  <1>4. CASE l[m] \in Range(v)
    <2>1. \E j \in 1..Len(v) : v[j] = l[m]
      BY <1>1, <1>4 DEF Range
    <2> QED
      BY <1>1, <1>2, <1>4, <2>1 DEF HasAll
  <1>5. CASE ~(l[m] = Empty \/ l[m] \in Range(v))
    <2> DEFINE u == Append(v, l[m])
    <2>1. /\ u \in Seq(Entry) /\ Len(u) \in 1..Len(u) /\ u[Len(u)] = l[m]
          /\ \A j \in 1..Len(v) : j \in 1..Len(u) /\ u[j] = v[j]
      BY <1>1
    <2> HIDE DEF u
    <2>2. HasAll(u, l, m)
      <3> SUFFICES ASSUME NEW k \in 1..m, l[k] # Empty PROVE \E j \in 1..Len(u) : u[j] = l[k]
        BY <2>1 DEF HasAll
      <3>1. CASE k = m
        BY <2>1, <3>1
      <3>2. CASE k \in 1..(m - 1)
        <4>1. PICK j \in 1..Len(v) : v[j] = l[k]
          BY <3>2 DEF HasAll
        <4> QED
          BY <2>1, <4>1
      <3> QED
        BY <1>2, <3>1, <3>2
    <2> QED
      BY <1>5, <2>2 DEF u
  <1> QED
    BY <1>3, <1>4, <1>5

LEMMA SplitHasAll ==
    ASSUME NEW l \in Seq(Entry)
    PROVE  HasAll(splitHostList(l), l, Len(l))
  <1> DEFINE n == Len(l)
             Pass(v, k) == IF l[k] = Empty \/ l[k] \in Range(v) THEN v ELSE Append(v, l[k])
             Loop(f, m) == [k \in 0..m |-> IF k = 0 THEN << >> ELSE Pass(f[k - 1], k)]
             Out == CHOOSE f : f = Loop(f, n)
             V == Seq(Entry)
             h == [k \in 1..n |-> [v \in V |-> Pass(v, k)]]
  <1>1. splitHostList(l) = Out[n]
    BY Zenon DEF splitHostList
  <1>2. n \in Nat /\ n = Len(l) /\ << >> \in V /\ \A k \in 1..n : l[k] \in Entry
    OBVIOUS
  <1> HIDE DEF n
  <1>3. \A k \in 1..n : \A v \in V : Pass(v, k) \in V
    BY <1>2
  <1> HIDE DEF Pass, V
  <1>4. PICK g : IsLoop(g, n, V, << >>, h)
    <2>1. h \in [1..n -> [V -> V]]
      BY <1>3
    <2> HIDE DEF h
    <2> QED
      BY <1>2, <2>1, Recursion
  <1>5. g = Loop(g, n)
    <2>1. g \in [0..n -> V] /\ g[0] = << >> /\ \A k \in 1..n : g[k] = h[k][g[k - 1]]
      BY <1>4 DEF IsLoop
    <2>2. ASSUME NEW k \in 1..n PROVE g[k] = Pass(g[k - 1], k)
      <3>1. k - 1 \in 0..n
        BY <1>2
      <3> QED
        BY <2>1, <3>1
    <2> DEFINE r == Loop(g, n)
    <2>3. DOMAIN g = 0..n /\ DOMAIN r = 0..n /\ g = [k \in 0..n |-> g[k]] /\ r = [k \in 0..n |-> r[k]]
      BY <2>1
    <2>4. ASSUME NEW k \in 0..n PROVE g[k] = r[k]
      <3>1. k = 0 \/ (k # 0 /\ k \in 1..n)
        BY <1>2
      <3> QED
        BY <2>1, <2>2, <3>1
    <2> HIDE DEF r
    <2>5. g = r
      BY <2>3, <2>4
    <2> QED
      BY <2>5 DEF r
  <1> HIDE DEF Loop, h
  <1>6. Out = Loop(Out, n)
    BY <1>5, Zenon
  <1> HIDE DEF Out
  <1>7. Out[0] = << >> /\ \A k \in 1..n : Out[k] = Pass(Out[k - 1], k)
    <2>1. Out = [k \in 0..n |-> IF k = 0 THEN << >> ELSE Pass(Out[k - 1], k)]
      BY <1>6 DEF Loop
    <2>2. 0 \in 0..n /\ \A k \in 1..n : k \in 0..n /\ k # 0
      BY <1>2
    <2> QED
      BY <2>1, <2>2, Zenon
  <1> DEFINE T == {k \in Nat : k =< n => HasAll(Out[k], l, k)}
  <1>8. 0 \in T
    <2>1. HasAll(<< >>, l, 0)
      BY <1>2 DEF HasAll, V
    <2> QED
      BY <1>7, <2>1
  <1>9. ASSUME NEW k \in Nat, k \in T PROVE k + 1 \in T
    <2> SUFFICES ASSUME k + 1 =< n PROVE HasAll(Out[k + 1], l, k + 1)
      OBVIOUS
    <2> DEFINE j == k + 1
    <2>1. j \in 1..n /\ j - 1 = k /\ k =< n
      BY <1>2
    <2>2. HasAll(Out[j - 1], l, j - 1)
      BY <1>9, <2>1
    <2> HIDE DEF j
    <2>3. HasAll(Pass(Out[j - 1], j), l, j)
      BY <1>2, <2>1, <2>2, HasAllStep DEF Pass
    <2> QED
      BY <1>7, <2>1, <2>3 DEF j
  <1> HIDE DEF T
  <1>10. n \in T
    BY <1>2, <1>8, <1>9, Induction
  <1> QED
    BY <1>1, <1>2, <1>10 DEF T

\* v has every host that the first m of l name.
HasHosts(v, l, m) ==
    /\ v \in Seq(Attempt)
    /\ \A k \in 1..m : l[k].host # NoHost => \E j \in 1..Len(v) : v[j].host = l[k].host

LEMMA PortFacts ==
    ASSUME NEW e \in Entry, NEW default \in Nat
    PROVE  /\ hostPortWithDefault(e, default) \in Attempt
           /\ hostPortWithDefault(e, default).host = e.host
  <1>1. e.port \in Nat
    BY HostAssumption DEF Entry
  <1> QED
    BY <1>1 DEF hostPortWithDefault, Entry, Attempt

LEMMA HasHostsStep ==
    ASSUME NEW n \in Nat, NEW m \in 1..n, NEW l, l \in Seq(Entry), Len(l) = n,
           NEW default \in Nat, NEW v, HasHosts(v, l, m - 1)
    PROVE  HasHosts(IF l[m].host = NoHost THEN v
                    ELSE Append(v, hostPortWithDefault(l[m], default)), l, m)
  <1> DEFINE a == hostPortWithDefault(l[m], default)
  <1>1. v \in Seq(Attempt) /\ l[m] \in Entry
    BY DEF HasHosts
  <1>2. a \in Attempt /\ a.host = l[m].host
    BY <1>1, PortFacts
  <1>3. \A k \in 1..m : k \in 1..(m - 1) \/ k = m
    OBVIOUS
  <1>4. CASE l[m].host = NoHost
    BY <1>1, <1>3, <1>4 DEF HasHosts
  <1>5. CASE l[m].host # NoHost
    <2> DEFINE u == Append(v, a)
    <2> HIDE DEF a
    <2>1. /\ u \in Seq(Attempt) /\ Len(u) \in 1..Len(u) /\ u[Len(u)] = a
          /\ \A j \in 1..Len(v) : j \in 1..Len(u) /\ u[j] = v[j]
      BY <1>1, <1>2
    <2> HIDE DEF u
    <2>2. HasHosts(u, l, m)
      <3> SUFFICES ASSUME NEW k \in 1..m, l[k].host # NoHost
                   PROVE  \E j \in 1..Len(u) : u[j].host = l[k].host
        BY <2>1 DEF HasHosts
      <3>1. CASE k = m
        BY <1>2, <2>1, <3>1
      <3>2. CASE k \in 1..(m - 1)
        <4>1. PICK j \in 1..Len(v) : v[j].host = l[k].host
          BY <3>2 DEF HasHosts
        <4> QED
          BY <2>1, <4>1
      <3> QED
        BY <1>3, <3>1, <3>2
    <2> QED
      BY <1>5, <2>2 DEF u, a
  <1> QED
    BY <1>4, <1>5

LEMMA NamedHasHosts ==
    ASSUME NEW default \in Nat, splitHostList(list) \in Seq(Entry)
    PROVE  HasHosts(Named(default), splitHostList(list), Len(splitHostList(list)))
  <1> DEFINE l == splitHostList(list)
             n == Len(l)
             Pass(v, k) == IF l[k].host = NoHost THEN v
                           ELSE Append(v, hostPortWithDefault(l[k], default))
             Loop(f, m) == [k \in 0..m |-> IF k = 0 THEN << >> ELSE Pass(f[k - 1], k)]
             Out == CHOOSE f : f = Loop(f, n)
             V == Seq(Attempt)
             h == [k \in 1..n |-> [v \in V |-> Pass(v, k)]]
  <1>1. Named(default) = Out[n]
    BY Zenon DEF Named
  <1>2. n \in Nat /\ n = Len(l) /\ << >> \in V /\ \A k \in 1..n : l[k] \in Entry
    OBVIOUS
  <1>A. l \in Seq(Entry)
    OBVIOUS
  <1> HIDE DEF l, n
  <1>3. \A k \in 1..n : \A v \in V : Pass(v, k) \in V
    <2> TAKE k \in 1..n
    <2> TAKE v \in V
    <2>1. hostPortWithDefault(l[k], default) \in Attempt
      BY <1>2, PortFacts
    <2> HIDE DEF l
    <2> QED
      BY <2>1
  <1> HIDE DEF Pass, V
  <1>4. PICK g : IsLoop(g, n, V, << >>, h)
    <2>1. h \in [1..n -> [V -> V]]
      BY <1>3
    <2> HIDE DEF h
    <2> QED
      BY <1>2, <2>1, Recursion
  <1>5. g = Loop(g, n)
    <2>1. g \in [0..n -> V] /\ g[0] = << >> /\ \A k \in 1..n : g[k] = h[k][g[k - 1]]
      BY <1>4 DEF IsLoop
    <2>2. ASSUME NEW k \in 1..n PROVE g[k] = Pass(g[k - 1], k)
      <3>1. k - 1 \in 0..n
        BY <1>2
      <3> QED
        BY <2>1, <3>1
    <2> DEFINE r == Loop(g, n)
    <2>3. DOMAIN g = 0..n /\ DOMAIN r = 0..n /\ g = [k \in 0..n |-> g[k]] /\ r = [k \in 0..n |-> r[k]]
      BY <2>1
    <2>4. ASSUME NEW k \in 0..n PROVE g[k] = r[k]
      <3>1. k = 0 \/ (k # 0 /\ k \in 1..n)
        BY <1>2
      <3> QED
        BY <2>1, <2>2, <3>1
    <2> HIDE DEF r
    <2>5. g = r
      BY <2>3, <2>4
    <2> QED
      BY <2>5 DEF r
  <1> HIDE DEF Loop, h
  <1>6. Out = Loop(Out, n)
    BY <1>5, Zenon
  <1> HIDE DEF Out
  <1>7. Out[0] = << >> /\ \A k \in 1..n : Out[k] = Pass(Out[k - 1], k)
    <2>1. Out = [k \in 0..n |-> IF k = 0 THEN << >> ELSE Pass(Out[k - 1], k)]
      BY <1>6 DEF Loop
    <2>2. 0 \in 0..n /\ \A k \in 1..n : k \in 0..n /\ k # 0
      BY <1>2
    <2> QED
      BY <2>1, <2>2, Zenon
  <1> DEFINE T == {k \in Nat : k =< n => HasHosts(Out[k], l, k)}
  <1>8. 0 \in T
    <2>1. HasHosts(<< >>, l, 0)
      BY <1>2 DEF HasHosts, V
    <2> QED
      BY <1>7, <2>1
  <1>9. ASSUME NEW k \in Nat, k \in T PROVE k + 1 \in T
    <2> SUFFICES ASSUME k + 1 =< n PROVE HasHosts(Out[k + 1], l, k + 1)
      OBVIOUS
    <2> DEFINE j == k + 1
    <2>1. j \in 1..n /\ j - 1 = k /\ k =< n
      BY <1>2
    <2>2. HasHosts(Out[j - 1], l, j - 1)
      BY <1>9, <2>1
    <2> HIDE DEF j
    <2>3. HasHosts(Pass(Out[j - 1], j), l, j)
      BY <1>2, <1>A, <2>1, <2>2, HasHostsStep DEF Pass
    <2> QED
      BY <1>7, <2>1, <2>3 DEF j
  <1> HIDE DEF T
  <1>10. n \in T
    BY <1>2, <1>8, <1>9, Induction
  <1> QED
    BY <1>1, <1>2, <1>10 DEF T, l

(***************************************************************************)
(* What buildTransportAttempts delivers: attempts in which every host of   *)
(* the profile occurs.  (A payload profile without a port is the exception *)
(* that the run SshDialOwnPorts shows: its only attempt is empty.)         *)
(***************************************************************************)
AttemptsCoverList ==
    /\ Len(attempts) \in Nat /\ DOMAIN attempts = 1..Len(attempts)
    /\ mode \in Listed =>
          \A k \in DOMAIN list : list[k].host # NoHost =>
             \E j \in DOMAIN attempts : attempts[j].host = list[k].host

LEMMA NamedCoverList ==
    ASSUME NEW n \in Nat, list \in [1..n -> Entry], NEW default \in Nat
    PROVE  /\ Named(default) \in Seq(Attempt)
           /\ \A k \in DOMAIN list : list[k].host # NoHost =>
                 \E j \in 1..Len(Named(default)) : Named(default)[j].host = list[k].host
  <1> DEFINE l == splitHostList(list)
             v == Named(default)
  <1>1. list \in Seq(Entry) /\ DOMAIN list = 1..Len(list)
    OBVIOUS
  <1>2. HasAll(l, list, Len(list))
    BY <1>1, SplitHasAll
  <1>3. l \in Seq(Entry)
    BY <1>2 DEF HasAll
  <1>4. HasHosts(v, l, Len(l))
    BY <1>3, NamedHasHosts
  <1> HIDE DEF l, v
  <1>5. ASSUME NEW k \in DOMAIN list, list[k].host # NoHost
        PROVE  \E j \in 1..Len(v) : v[j].host = list[k].host
    <2>1. list[k] # Empty
      BY <1>5 DEF Empty
    <2>2. PICK m \in 1..Len(l) : l[m] = list[k]
      BY <1>1, <1>2, <2>1 DEF HasAll
    <2> QED
      BY <1>4, <1>5, <2>2 DEF HasHosts
  <1>6. v \in Seq(Attempt)
    BY <1>4 DEF HasHosts
  <1> QED
    BY <1>5, <1>6 DEF v

LEMMA AttemptsCover ==
    ASSUME Init, mode = "payload" => port # 0
    PROVE  AttemptsCoverList
  <1>1. PICK n \in Nat : list \in [1..n -> Entry]
    BY HostAssumption DEF Init
  <1>2. port \in Nat /\ TLSDefault \in Nat /\ attempts = buildTransportAttempts
    BY HostAssumption DEF Init, TLSDefault
  <1> DEFINE Covers(v) == /\ Len(v) \in Nat /\ DOMAIN v = 1..Len(v)
                          /\ \A k \in DOMAIN list : list[k].host # NoHost =>
                                \E j \in DOMAIN v : v[j].host = list[k].host
  <1>3. ASSUME NEW default \in Nat PROVE Covers(Named(default))
    <2>1. Named(default) \in Seq(Attempt)
      BY <1>1, NamedCoverList
    <2>2. Len(Named(default)) \in Nat /\ DOMAIN Named(default) = 1..Len(Named(default))
      BY <2>1
    <2> QED
      BY <1>1, <2>2, NamedCoverList
  <1>4. ASSUME NEW default \in Nat, Named(default) = << >>, NEW a PROVE Covers(<<a>>)
    <2>1. \A k \in DOMAIN list : list[k].host = NoHost
      BY <1>3, <1>4
    <2> QED
      BY <2>1
  <1> HIDE DEF Covers
  <1>5. CASE mode = "payload"
    <2>1. port # 0 /\ mode \notin TLSModes
      BY <1>5 DEF TLSModes
    <2>2. attempts = payloadProxyAttempts
      BY <1>2, <1>5, <2>1 DEF buildTransportAttempts
    <2>3. CASE Named(port) = << >>
      <3>1. attempts = <<Empty>>
        BY <2>2, <2>3 DEF payloadProxyAttempts
      <3>2. Covers(attempts)
        BY <1>2, <1>4, <2>3, <3>1, Zenon
      <3> QED
        BY <3>2 DEF AttemptsCoverList, Covers
    <2>4. CASE Named(port) # << >>
      <3>1. attempts = Named(port)
        BY <2>1, <2>2, <2>4, Zenon DEF payloadProxyAttempts
      <3>2. Covers(attempts)
        BY <1>2, <1>3, <3>1, Zenon
      <3> QED
        BY <3>2 DEF AttemptsCoverList, Covers
    <2> QED
      BY <2>3, <2>4
  <1>6. CASE mode \in TLSModes
    <2>1. mode # "payload"
      BY <1>6 DEF TLSModes
    <2>2. attempts = tlsHostAttempts
      BY <1>2, <1>6, <2>1 DEF buildTransportAttempts
    <2>3. CASE Named(TLSDefault) = << >>
      <3>1. attempts = <<[host |-> Target, port |-> TLSDefault]>>
        BY <2>2, <2>3, Zenon DEF tlsHostAttempts
      <3>2. Covers(attempts)
        BY <1>2, <1>4, <2>3, <3>1, Zenon
      <3> QED
        BY <3>2 DEF AttemptsCoverList, Covers
    <2>4. CASE Named(TLSDefault) # << >>
      <3>1. attempts = Named(TLSDefault)
        BY <2>2, <2>4, Zenon DEF tlsHostAttempts
      <3>2. Covers(attempts)
        BY <1>2, <1>3, <3>1, Zenon
      <3> QED
        BY <3>2 DEF AttemptsCoverList, Covers
    <2> QED
      BY <2>3, <2>4
  <1>7. CASE mode \notin Listed
    <2>1. attempts = <<Empty>>
      BY <1>2, <1>7 DEF buildTransportAttempts, Listed
    <2> QED
      BY <1>7, <2>1 DEF AttemptsCoverList
  <1> QED
    BY <1>5, <1>6, <1>7 DEF Listed

\* The attempts before the current one were made, and the current one past its dial.
InOrder ==
    /\ i \in Nat \ {0}
    /\ \A k \in DOMAIN attempts : k < i => attempts[k] \in tried
    /\ pc \in {"tls", "payload", "handshake", "connected"} => attempt \in tried
    /\ pc = "failed" /\ ~ctxDone => i > Len(attempts)

TriedInv == AttemptsCoverList /\ InOrder

LEMMA CoverStays ==
    ASSUME AttemptsCoverList, UNCHANGED profile
    PROVE  AttemptsCoverList'
  BY DEF AttemptsCoverList, profile

\* The next attempt, after one that was made.
LEMMA ContinueTried ==
    ASSUME TriedInv, Continue, UNCHANGED profile, attempt \in tried', tried \subseteq tried'
    PROVE  TriedInv'
  <1>1. i' = i + 1 /\ pc' = "check" /\ attempts' = attempts /\ i \in Nat \ {0}
    BY DEF Continue, profile, TriedInv, InOrder
  <1>2. ASSUME NEW k \in DOMAIN attempts, k < i + 1 PROVE attempts[k] \in tried'
    <2>1. k \in Nat
      BY DEF TriedInv, AttemptsCoverList
    <2>2. k < i \/ k = i
      BY <1>1, <1>2, <2>1
    <2> QED
      BY <2>2 DEF TriedInv, InOrder, attempt
  <1>3. InOrder'
    BY <1>1, <1>2 DEF InOrder
  <1> QED
    BY <1>3, CoverStays DEF TriedInv

LEMMA TriedStep == TriedInv /\ [Next]_vars => TriedInv'
  <1> SUFFICES ASSUME TriedInv, [Next]_vars PROVE TriedInv'
    OBVIOUS
  <1>1. CASE Check
    <2>1. UNCHANGED <<profile, i, ctxDone, tried>> /\ attempts' = attempts
      BY <1>1 DEF Check, profile
    <2>2. pc' \in {"dial", "failed"} /\ (pc' = "failed" /\ ~ctxDone => i > Len(attempts))
      BY <1>1 DEF Check
    <2>3. InOrder'
      BY <2>1, <2>2 DEF TriedInv, InOrder
    <2> QED
      BY <2>1, <2>3, CoverStays DEF TriedInv
  <1>2. CASE Dial
    <2>1. tried' = tried \cup {attempt} /\ UNCHANGED <<profile, ctxDone>> /\ attempts' = attempts
      BY <1>2 DEF Dial, profile
    <2>2. CASE Continue
      BY <2>1, <2>2, ContinueTried
    <2>3. CASE ~Continue
      <3>1. i' = i /\ pc' \in {"tls", "payload", "handshake"}
        BY <1>2, <2>3 DEF Dial, AfterTransport
      <3>2. InOrder'
        BY <2>1, <3>1 DEF TriedInv, InOrder, attempt
      <3> QED
        BY <2>1, <3>2, CoverStays DEF TriedInv
    <2> QED
      BY <2>2, <2>3
  <1>3. ASSUME TLSHandshake \/ WritePayload \/ finishSSHHandshake PROVE TriedInv'
    <2>1. UNCHANGED <<profile, ctxDone, tried>> /\ attempts' = attempts /\ attempt \in tried
      BY <1>3 DEF TLSHandshake, WritePayload, finishSSHHandshake, profile, TriedInv, InOrder
    <2>2. CASE Continue
      BY <2>1, <2>2, ContinueTried
    <2>3. CASE ~Continue
      <3>1. i' = i /\ pc' \in {"payload", "handshake", "connected"}
        BY <1>3, <2>3
        DEF TLSHandshake, WritePayload, finishSSHHandshake, Advance, AfterTransport
      <3>2. InOrder'
        BY <2>1, <3>1 DEF TriedInv, InOrder, attempt
      <3> QED
        BY <2>1, <3>2, CoverStays DEF TriedInv
    <2> QED
      BY <2>2, <2>3
  <1>4. ASSUME Cancel \/ UNCHANGED vars PROVE TriedInv'
    <2>1. UNCHANGED <<profile, i, pc, tried>> /\ attempts' = attempts /\ (ctxDone => ctxDone')
      BY <1>4 DEF Cancel, vars, profile
    <2>2. InOrder'
      BY <2>1 DEF TriedInv, InOrder, attempt
    <2> QED
      BY <2>1, <2>2, CoverStays DEF TriedInv
  <1> QED
    BY <1>1, <1>2, <1>3, <1>4 DEF Next

(***************************************************************************)
(* A connectSSH that gives up without being cancelled has tried every host *)
(* of the list, wherever each attempt failed.  A payload profile has to    *)
(* name a proxy port: without one payloadProxyAttempts ignores the list,   *)
(* whose entries may have ports of their own.                              *)
(***************************************************************************)
THEOREM GivesUpOnlyAtTheEnd ==
    Spec /\ (mode = "payload" => port # 0) => []EveryHostTried
  <1>1. Init /\ (mode = "payload" => port # 0) => TriedInv
    <2> SUFFICES ASSUME Init, mode = "payload" => port # 0 PROVE TriedInv
      OBVIOUS
    <2>1. AttemptsCoverList
      BY AttemptsCover
    <2>2. i = 1 /\ pc = "check" /\ DOMAIN attempts = 1..Len(attempts) /\ Len(attempts) \in Nat
      BY <2>1 DEF Init, AttemptsCoverList
    <2> QED
      BY <2>1, <2>2 DEF TriedInv, InOrder
  <1>2. TriedInv => EveryHostTried
    <2> SUFFICES ASSUME TriedInv, pc = "failed", ~ctxDone, mode \in Listed,
                        NEW k \in DOMAIN list, list[k].host # NoHost
                 PROVE  \E a \in tried : a.host = list[k].host
      BY DEF EveryHostTried
    <2>1. PICK j \in DOMAIN attempts : attempts[j].host = list[k].host
      BY DEF TriedInv, AttemptsCoverList
    <2>2. j < i
      BY DEF TriedInv, AttemptsCoverList, InOrder
    <2> QED
      BY <2>1, <2>2 DEF TriedInv, InOrder
  <1> QED
    BY <1>1, <1>2, TriedStep, PTL DEF Spec

-----------------------------------------------------------------------------
(***************************************************************************)
(* The payload exchange.                                                   *)
(***************************************************************************)
\* v has the pieces of x behind the b-th, up to the m-th.
IsPart(v, x, b, m) ==
    /\ v \in Seq(Piece)
    /\ Len(v) = IF m > b THEN m - b ELSE 0
    /\ \A j \in 1..Len(v) : v[j] = x[b + j]

LEMMA PartStep ==
    ASSUME NEW x \in Seq(Piece), NEW b \in Nat, NEW m \in Nat, m + 1 =< Len(x), NEW v,
           IsPart(v, x, b, m), x[m + 1].kind = "ssh" <=> m + 1 > b
    PROVE  IsPart(IF x[m + 1].kind = "ssh" THEN Append(v, x[m + 1]) ELSE v, x, b, m + 1)
  <1>1. v \in Seq(Piece) /\ x[m + 1] \in Piece
    BY DEF IsPart
  <1>2. CASE m + 1 > b
    <2> DEFINE p == x[m + 1]
               u == Append(v, p)
    <2>1. Len(v) = m - b
      BY <1>2 DEF IsPart
    <2>2. u \in Seq(Piece) /\ Len(u) = m + 1 - b /\ u[m + 1 - b] = p
      BY <1>1, <1>2, <2>1
    <2>3. \A j \in 1..(m - b) : u[j] = x[b + j]
      BY <1>1, <2>1 DEF IsPart
    <2>4. ASSUME NEW j \in 1..(m + 1 - b) PROVE u[j] = x[b + j]
      <3>1. j \in 1..(m - b) \/ (j = m + 1 - b /\ b + j = m + 1)
        BY <1>2
      <3> HIDE DEF u
      <3> QED
        BY <2>2, <2>3, <3>1
    <2> HIDE DEF u
    <2>5. IsPart(u, x, b, m + 1)
      BY <1>2, <2>2, <2>4 DEF IsPart
    <2> QED
      BY <1>2, <2>5 DEF u
  <1>3. CASE m + 1 =< b
    BY <1>3 DEF IsPart
  <1> QED
    BY <1>2, <1>3

LEMMA SSHPartIs ==
    ASSUME NEW x \in Seq(Piece), NEW b \in Nat,
           \A k \in 1..Len(x) : x[k].kind = "ssh" <=> k > b
    PROVE  IsPart(SSHPart(x), x, b, Len(x))
  <1> DEFINE n == Len(x)
             Pass(v, k) == IF x[k].kind = "ssh" THEN Append(v, x[k]) ELSE v
             Loop(f, m) == [k \in 0..m |-> IF k = 0 THEN << >> ELSE Pass(f[k - 1], k)]
             Out == CHOOSE f : f = Loop(f, n)
             V == Seq(Piece)
             h == [k \in 1..n |-> [v \in V |-> Pass(v, k)]]
  <1>1. SSHPart(x) = Out[n]
    BY Zenon DEF SSHPart
  <1>2. n \in Nat /\ n = Len(x) /\ << >> \in V /\ \A k \in 1..n : x[k] \in Piece
    OBVIOUS
  <1> HIDE DEF n
  <1>3. \A k \in 1..n : \A v \in V : Pass(v, k) \in V
    BY <1>2
  <1> HIDE DEF Pass, V
  <1>4. PICK g : IsLoop(g, n, V, << >>, h)
    <2>1. h \in [1..n -> [V -> V]]
      BY <1>3
    <2> HIDE DEF h
    <2>2. n \in Nat /\ << >> \in V
      BY <1>2
    <2> QED
      BY <2>1, <2>2, Recursion, Zenon
  <1>5. g = Loop(g, n)
    <2>1. g \in [0..n -> V] /\ g[0] = << >> /\ \A k \in 1..n : g[k] = h[k][g[k - 1]]
      BY <1>4 DEF IsLoop
    <2>2. ASSUME NEW k \in 1..n PROVE g[k] = Pass(g[k - 1], k)
      <3>1. k - 1 \in 0..n
        BY <1>2
      <3> QED
        BY <2>1, <3>1
    <2> DEFINE r == Loop(g, n)
    <2>3. DOMAIN g = 0..n /\ DOMAIN r = 0..n /\ g = [k \in 0..n |-> g[k]] /\ r = [k \in 0..n |-> r[k]]
      BY <2>1
    <2>4. ASSUME NEW k \in 0..n PROVE g[k] = r[k]
      <3>1. k = 0 \/ (k # 0 /\ k \in 1..n)
        BY <1>2
      <3> QED
        BY <2>1, <2>2, <3>1
    <2> HIDE DEF r
    <2>5. g = r
      BY <2>3, <2>4
    <2> QED
      BY <2>5 DEF r
  <1> HIDE DEF Loop, h
  <1>6. Out = Loop(Out, n)
    BY <1>5, Zenon
  <1> HIDE DEF Out
  <1>7. Out[0] = << >> /\ \A k \in 1..n : Out[k] = Pass(Out[k - 1], k)
    <2>1. Out = [k \in 0..n |-> IF k = 0 THEN << >> ELSE Pass(Out[k - 1], k)]
      BY <1>6 DEF Loop
    <2>2. 0 \in 0..n /\ \A k \in 1..n : k \in 0..n /\ k # 0
      BY <1>2
    <2> QED
      BY <2>1, <2>2, Zenon
  <1> DEFINE T == {k \in Nat : k =< n => IsPart(Out[k], x, b, k)}
  <1>8. 0 \in T
    <2>1. IsPart(<< >>, x, b, 0)
      BY DEF IsPart
    <2> QED
      BY <1>7, <2>1
  <1>9. ASSUME NEW k \in Nat, k \in T PROVE k + 1 \in T
    <2> SUFFICES ASSUME k + 1 =< n PROVE IsPart(Out[k + 1], x, b, k + 1)
      OBVIOUS
    <2>1. k + 1 \in 1..n /\ k + 1 - 1 = k /\ k =< n
      BY <1>2
    <2>2. IsPart(Out[k], x, b, k)
      BY <1>9, <2>1
    <2>3. IsPart(Pass(Out[k], k + 1), x, b, k + 1)
      BY <1>2, <2>1, <2>2, PartStep DEF Pass
    <2> QED
      BY <1>7, <2>1, <2>3
  <1> HIDE DEF T
  <1>10. n \in T
    BY <1>2, <1>8, <1>9, Induction
  <1> QED
    BY <1>1, <1>2, <1>10 DEF T

(***************************************************************************)
(* The client has read the first c pieces, the line in progress begins     *)
(* behind the a-th.                                                        *)
(***************************************************************************)
ReadTo(a, c) ==
    /\ unread \in Seq(Piece) /\ Len(unread) = Len(sent) - c
    /\ \A k \in 1..Len(unread) : unread[k] = sent[c + k]
    /\ line \in Seq(Piece) /\ Len(line) = c - a
    /\ \A k \in 1..Len(line) : line[k] = sent[a + k]
    /\ \A k \in (a + 1)..c : sent[k].at # "tail"

\* The k-th piece is part of a response and has a line feed.
Feed(s, k) == k \in 1..s /\ sent[k].at = "tail"

\* The line in progress is in a block of lines whose blank one ends at m.
InBlock(s, a, c, m) ==
    /\ c < m /\ LineEnds(sent, s, m, "blank")
    /\ \A j \in (a + 1)..m : sent[j].at # "raw"

(***************************************************************************)
(* Where the client can be, also when it has lost its way because a limit  *)
(* has cut a header, a line or a body: what it is going to skip comes      *)
(* before the SSH server's bytes, and so does the line feed it looks for.  *)
(***************************************************************************)
AtHeader(s, a, c) ==
    \E m \in 1..s :
      /\ InBlock(s, a, c, m)
      /\ chunked => LineEnds(sent, s, m + 2, "size")
      /\ m + length =< s
      /\ \A j \in (a + 1)..m :
           /\ sent[j].kind = "chunked" => LineEnds(sent, s, m + 2, "size")
           /\ sent[j].kind = "length" => m + sent[j].n =< s

AtFixed(s, c) == body \in Nat \ {0} /\ c + body =< s
AtSize(s, c) == \E g \in 1..s : c < g /\ Feed(s, g)
AtChunk(s, c) ==
    body \in Nat \ {0} /\ \E e \in 1..s : c + body =< e /\ Feed(s, e + 2) /\ Feed(s, e + 4)
AtCrlf(s, c) == \E f, g \in 1..s : c < f /\ f < g /\ Feed(s, f) /\ Feed(s, g)
AtTrailer(s, a, c) == \E m \in 1..s : InBlock(s, a, c, m)

Place(s, a, c) ==
    /\ place \in {"write", "status", "header", "fixed", "size", "chunk", "crlf", "trailer"}
    /\ place = "write" => a = 0 /\ c = 0
    /\ place = "header" => AtHeader(s, a, c)
    /\ place = "fixed" => a = c /\ AtFixed(s, c)
    /\ place = "size" => AtSize(s, c)
    /\ place = "chunk" => a = c /\ AtChunk(s, c)
    /\ place = "crlf" => AtCrlf(s, c)
    /\ place = "trailer" => AtTrailer(s, a, c)

Halted(s) ==
    place = "done" /\ (result = "conn" => \E a \in 0..s : IsPart(Handed, sent, a, Len(sent)))

Going(s) ==
    /\ result = "none"
    /\ \E a \in 0..s, c \in 0..(s + 1) : a =< c /\ ReadTo(a, c) /\ Place(s, a, c)

\* sent is well-formed up to the SSH server's bytes, and has its first line.
KeptInv(s) ==
    /\ WellFormed(sent, s)
    /\ length \in Int /\ lines \in Nat
    /\ Halted(s) \/ Going(s)

LEMMA UnreadFacts ==
    ASSUME NEW a \in Nat, NEW c \in Nat, a =< c, sent \in Seq(Piece), c < Len(sent), ReadTo(a, c)
    PROVE  /\ unread # << >> /\ Head(unread) = sent[c + 1]
           /\ Longer \in Seq(Piece) /\ Len(Longer) = c + 1 - a
           /\ \A k \in 1..(c + 1 - a) : Longer[k] = sent[a + k]
  <1>1. Len(unread) \in Nat \ {0} /\ unread \in Seq(Piece)
    BY DEF ReadTo
  <1>2. unread # << >> /\ Head(unread) = unread[1] /\ 1 \in 1..Len(unread)
    BY <1>1
  <1>3. Head(unread) = sent[c + 1]
    BY <1>2 DEF ReadTo
  <1>4. sent[c + 1] \in Piece /\ line \in Seq(Piece) /\ Len(line) = c - a
    BY DEF ReadTo
  <1> DEFINE p == sent[c + 1]
             u == Append(line, p)
  <1>5. Longer = u
    BY <1>3 DEF Longer
  <1>6. u \in Seq(Piece) /\ Len(u) = c + 1 - a /\ u[c + 1 - a] = p
    BY <1>4
  <1>7. \A k \in 1..(c - a) : u[k] = sent[a + k]
    BY <1>4 DEF ReadTo
  <1> HIDE DEF u
  <1>8. ASSUME NEW k \in 1..(c + 1 - a) PROVE u[k] = sent[a + k]
    <2>1. k \in 1..(c - a) \/ (k = c + 1 - a /\ a + k = c + 1)
      OBVIOUS
    <2> QED
      BY <1>6, <1>7, <2>1
  <1> QED
    BY <1>2, <1>3, <1>5, <1>6, <1>8

\* A piece is read, and begins a new line or belongs to the one in progress.
LEMMA Forward ==
    ASSUME NEW a \in Nat, NEW c \in Nat, a =< c, sent \in Seq(Piece), c < Len(sent), ReadTo(a, c),
           sent' = sent, unread' = Tail(unread)
    PROVE  /\ line' = << >> => ReadTo(c + 1, c + 1)'
           /\ line' = Longer /\ sent[c + 1].at # "tail" => ReadTo(a, c + 1)'
  <1>1. unread \in Seq(Piece) /\ unread # << >> /\ Len(unread) = Len(sent) - c
    BY UnreadFacts DEF ReadTo
  <1>2. /\ unread' \in Seq(Piece) /\ Len(unread') = Len(unread) - 1
        /\ \A k \in 1..Len(unread') : unread'[k] = unread[k + 1] /\ k + 1 \in 1..Len(unread)
    BY <1>1
  <1>3. \A k \in 1..Len(unread') : unread'[k] = sent[c + 1 + k]
    <2> TAKE k \in 1..Len(unread')
    <2>1. unread'[k] = unread[k + 1] /\ k + 1 \in 1..Len(unread)
      BY <1>2
    <2>2. unread[k + 1] = sent[c + (k + 1)]
      BY <2>1 DEF ReadTo
    <2>3. c + (k + 1) = c + 1 + k
      BY <1>2
    <2> QED
      BY <2>1, <2>2, <2>3
  <1>4. Len(unread') = Len(sent) - (c + 1)
    BY <1>1, <1>2
  <1>5. ASSUME line' = << >> PROVE ReadTo(c + 1, c + 1)'
    BY <1>2, <1>3, <1>4, <1>5 DEF ReadTo
  <1>6. ASSUME line' = Longer, sent[c + 1].at # "tail" PROVE ReadTo(a, c + 1)'
    <2>1. ASSUME NEW k \in (a + 1)..(c + 1) PROVE sent[k].at # "tail"
      <3>1. k \in (a + 1)..c \/ k = c + 1
        OBVIOUS
      <3>2. \A j \in (a + 1)..c : sent[j].at # "tail"
        BY DEF ReadTo
      <3> QED
        BY <1>6, <3>1, <3>2, Zenon
    <2>2. /\ Longer \in Seq(Piece) /\ Len(Longer) = c + 1 - a
          /\ \A k \in 1..(c + 1 - a) : Longer[k] = sent[a + k]
      BY UnreadFacts
    <2>3. /\ line' \in Seq(Piece) /\ Len(line') = c + 1 - a
          /\ \A k \in 1..Len(line') : line'[k] = sent'[a + k]
      BY <1>6, <2>2, Zenon
    <2>4. /\ Len(unread') = Len(sent') - (c + 1)
          /\ \A k \in 1..Len(unread') : unread'[k] = sent'[c + 1 + k]
          /\ \A k \in (a + 1)..(c + 1) : sent'[k].at # "tail"
      BY <1>3, <1>4, <2>1, Zenon
    <2> QED
      BY <1>2, <2>3, <2>4 DEF ReadTo
  <1> QED
    BY <1>5, <1>6

\* Nothing is read, and a line that was in progress is given up.
LEMMA Standing ==
    ASSUME NEW a \in Nat, NEW c \in Nat, a =< c, ReadTo(a, c), sent' = sent, unread' = unread
    PROVE  /\ line' = << >> => ReadTo(c, c)'
           /\ line' = line => ReadTo(a, c)'
  <1>1. /\ unread' \in Seq(Piece) /\ Len(unread') = Len(sent') - c
        /\ \A k \in 1..Len(unread') : unread'[k] = sent'[c + k]
    BY DEF ReadTo
  <1>2. ASSUME line' = << >> PROVE ReadTo(c, c)'
    <2>1. line' \in Seq(Piece) /\ Len(line') = c - c
      BY <1>2
    <2>2. 1..Len(line') = {} /\ (c + 1)..c = {}
      BY <2>1
    <2> QED
      BY <1>1, <2>1, <2>2 DEF ReadTo
  <1>3. ASSUME line' = line PROVE ReadTo(a, c)'
    BY <1>1, <1>3 DEF ReadTo
  <1> QED
    BY <1>2, <1>3

\* The line that is complete, if all of it comes from the peer.
LEMMA LineFacts ==
    ASSUME NEW a \in Nat, NEW c \in Nat, a =< c, sent \in Seq(Piece), c < Len(sent), ReadTo(a, c)
    PROVE  /\ LineRead <=> More /\ Ends
           /\ ~ReadFails
           /\ LineRead => /\ TheLine = Longer /\ Rest = Tail(unread)
                          /\ Kind(TheLine) = sent[a + 1].kind /\ Number(TheLine) = sent[a + 1].n
  <1>1. unread # << >>
    BY UnreadFacts
  <1>2. 1 \in 1..(c + 1 - a)
    OBVIOUS
  <1>3. Longer[1] = sent[a + 1]
    BY <1>2, UnreadFacts
  <1>4. (LineRead <=> More /\ Ends) /\ ~ReadFails
    BY <1>1 DEF LineRead, AtEOF, ReadFails, Broken
  <1>5. ASSUME LineRead PROVE TheLine = Longer /\ Rest = Tail(unread)
    BY <1>4, <1>5 DEF TheLine, Rest
  <1> QED
    BY <1>3, <1>4, <1>5 DEF Kind, Number

(***************************************************************************)
(* A line that begins in front of a line feed ends there at the latest;    *)
(* one that is not of a body ends with the line feed of the piece it       *)
(* begins with.                                                            *)
(***************************************************************************)
LEMMA LineEnd ==
    ASSUME NEW s, WellFormed(sent, s), NEW a \in Nat, NEW c \in Nat, a =< c, c < Len(sent),
           ReadTo(a, c), a < s, sent[a + 1].at # "raw", LineRead
    PROVE  /\ LineEnds(sent, s, c + 1, sent[a + 1].kind)
           /\ sent[c + 1].n = sent[a + 1].n
  <1>1. s \in Nat /\ a + 1 \in 1..s /\ sent \in Seq(Piece)
    BY DEF WellFormed
  <1>2. sent[a + 1] \in Piece
    BY <1>1 DEF WellFormed
  <1>3. CASE sent[a + 1].at = "tail"
    <2>1. a + 1 \notin (a + 1)..c
      BY <1>3 DEF ReadTo
    <2>2. c = a
      BY <2>1
    <2> QED
      BY <1>1, <1>3, <2>2 DEF LineEnds
  <1>4. CASE sent[a + 1].at = "head"
    <2>1. a + 1 < s /\ sent[a + 1 + 1] = [sent[a + 1] EXCEPT !.at = "tail"]
      BY <1>1, <1>4 DEF WellFormed
    <2> DEFINE q == sent[a + 2]
    <2>2. a + 2 \in 1..s /\ q = [sent[a + 1] EXCEPT !.at = "tail"]
      <3>1. a + 1 + 1 = a + 2
        OBVIOUS
      <3> QED
        BY <1>1, <2>1, <3>1
    <2>3. q.at = "tail" /\ q.kind = sent[a + 1].kind /\ q.n = sent[a + 1].n
      BY <1>2, <2>2 DEF Piece
    <2>4. c =< a + 1
      <3>1. a + 2 \notin (a + 1)..c
        BY <2>3 DEF ReadTo
      <3> QED
        BY <3>1
    <2>5. c # a
      <3> SUFFICES ASSUME c = a PROVE FALSE
        OBVIOUS
      <3>1. Ends
        BY <1>1, LineFacts
      <3>0. Head(unread) = sent[c + 1] /\ Len(Longer) = c + 1 - a
        BY <1>1, UnreadFacts
      <3>2. Head(unread) = sent[a + 1] /\ Len(Longer) = 1
        BY <3>0
      <3> QED
        BY <1>4, <3>1, <3>2, PayloadAssumption DEF Ends
    <2>6. c + 1 = a + 2
      BY <2>4, <2>5
    <2> HIDE DEF q
    <2>7. LineEnds(sent, s, a + 2, sent[a + 1].kind) /\ sent[a + 2].n = sent[a + 1].n
      BY <2>2, <2>3 DEF LineEnds, q
    <2> QED
      BY <2>6, <2>7
  <1> QED
    BY <1>2, <1>3, <1>4 DEF Piece

\* What is put in front of the connection, and what is unread behind it.
LEMMA HandsOver ==
    ASSUME NEW a \in Nat, NEW c \in Nat, a =< c, sent \in Seq(Piece), c =< Len(sent), sent' = sent,
           replay' \in Seq(Piece), Len(replay') = c - a,
           \A k \in 1..(c - a) : replay'[k] = sent[a + k], ReadTo(c, c)'
    PROVE  IsPart(Handed', sent', a, Len(sent'))
  <1> DEFINE u == unread'
             r == replay'
             n == Len(sent)
             v == r \o u
  <1>1. u \in Seq(Piece) /\ Len(u) = n - c /\ \A k \in 1..(n - c) : u[k] = sent[c + k]
    BY DEF ReadTo
  <1>2. Handed' = v
    BY DEF Handed
  <1>3. r \in Seq(Piece) /\ Len(r) = c - a /\ n \in Nat
    OBVIOUS
  <1> HIDE DEF u, r
  <1> HIDE DEF n
  <1>4. /\ v \in Seq(Piece) /\ Len(v) = Len(r) + Len(u)
        /\ \A k \in 1..(Len(r) + Len(u)) : v[k] = IF k =< Len(r) THEN r[k] ELSE u[k - Len(r)]
    <2>1. r \in Seq(Piece) /\ u \in Seq(Piece)
      BY <1>1, <1>3
    <2> QED
      BY <2>1, ConcatProperties, Zenon
  <1> HIDE DEF v
  <1>5. ASSUME NEW k \in 1..(n - a) PROVE v[k] = sent[a + k]
    <2>1. v[k] = IF k =< c - a THEN r[k] ELSE u[k - (c - a)]
      BY <1>1, <1>3, <1>4
    <2>2. CASE k =< c - a
      BY <2>1, <2>2 DEF r
    <2>3. CASE ~(k =< c - a)
      <3>1. k - (c - a) \in 1..(n - c) /\ c + (k - (c - a)) = a + k
        BY <1>3, <2>3
      <3> QED
        BY <1>1, <2>1, <2>3, <3>1
    <2> QED
      BY <2>2, <2>3
  <1>6. Len(v) = n - a
    BY <1>1, <1>3, <1>4
  <1> QED
    BY <1>2, <1>3, <1>4, <1>5, <1>6 DEF IsPart, n

\* The same, where nothing is put in front.
LEMMA HandsOverRest ==
    ASSUME NEW c \in Nat, sent \in Seq(Piece), c =< Len(sent), sent' = sent,
           replay' = << >>, ReadTo(c, c)'
    PROVE  IsPart(Handed', sent', c, Len(sent'))
  <1>1. replay' \in Seq(Piece) /\ Len(replay') = c - c /\ c =< c /\ 1..(c - c) = {}
    OBVIOUS
  <1> QED
    BY <1>1, HandsOver

\* What every step of the client leaves as it is.
Steady(s) ==
    WellFormed(sent, s) /\ result = "none" /\ sent' = sent /\ length' \in Int /\ lines' \in Nat

\* A client that returns in front of the SSH server's bytes has kept them.
LEMMA ReturnKept ==
    ASSUME NEW s, Steady(s), NEW b \in 0..s, ReadTo(b, b)', NEW r, Return(r, << >>)
    PROVE  KeptInv(s)'
  <1>1. WellFormed(sent', s) /\ s \in Nat /\ sent \in Seq(Piece) /\ b =< Len(sent) /\ b \in Nat
    BY DEF Steady, WellFormed
  <1>2. place' = "done" /\ replay' = << >> /\ sent' = sent
    BY DEF Return, Steady
  <1>3. IsPart(Handed', sent', b, Len(sent'))
    BY <1>1, <1>2, HandsOverRest
  <1>4. Halted(s)'
    BY <1>2, <1>3 DEF Halted
  <1> QED
    BY <1>1, <1>4 DEF KeptInv, Steady

LEMMA GotoKept ==
    ASSUME NEW s, Steady(s), NEW a \in 0..s, NEW c \in 0..(s + 1), a =< c, ReadTo(a, c)',
           Place(s, a, c)', result' = result
    PROVE  KeptInv(s)'
  <1>1. Going(s)'
    BY DEF Going, Steady
  <1> QED
    BY <1>1 DEF KeptInv, Steady

\* Looking for another response in front of the SSH server's bytes.
LEMMA StatusKept ==
    ASSUME NEW s, Steady(s), NEW b \in 0..s, ReadTo(b, b)', place' = "status", result' = result
    PROVE  KeptInv(s)'
  <1>1. Place(s, b, b)'
    BY DEF Place
  <1>2. b \in 0..(s + 1) /\ b =< b
    BY DEF Steady, WellFormed
  <1> QED
    BY <1>1, <1>2, GotoKept

LEMMA NextKept ==
    ASSUME NEW s, Steady(s), NEW b \in 0..s, ReadTo(b, b)', NextResponse
    PROVE  KeptInv(s)'
  <1>1. CASE skipped + 1 < MaxResponses
    BY <1>1, StatusKept DEF NextResponse
  <1>2. CASE ~(skipped + 1 < MaxResponses)
    <2>1. \E r : Return(r, << >>)
      BY <1>2 DEF NextResponse, Verdict
    <2> QED
      BY <2>1, ReturnKept
  <1> QED
    BY <1>1, <1>2

\* The places of a client that is not done.
LEMMA WhereItIs ==
    ASSUME NEW s, KeptInv(s), place # "done"
    PROVE  /\ WellFormed(sent, s) /\ s \in Nat /\ sent \in Seq(Piece) /\ s + 2 =< Len(sent)
           /\ length \in Int /\ lines \in Nat /\ result = "none"
           /\ \E a \in Nat, c \in Nat :
                /\ a =< s /\ c =< s + 1 /\ a =< c /\ c < Len(sent)
                /\ ReadTo(a, c) /\ Place(s, a, c)
  <1>1. WellFormed(sent, s) /\ s \in Nat /\ sent \in Seq(Piece) /\ s + 2 =< Len(sent)
    BY DEF KeptInv, WellFormed
  <1>2. length \in Int /\ lines \in Nat /\ Going(s)
    BY DEF KeptInv, Halted
  <1>3. PICK a \in 0..s, c \in 0..(s + 1) : a =< c /\ ReadTo(a, c) /\ Place(s, a, c)
    BY <1>2 DEF Going
  <1>4. a \in Nat /\ c \in Nat /\ a =< s /\ c =< s + 1 /\ c < Len(sent)
    BY <1>1
  <1> QED
    BY <1>1, <1>2, <1>3, <1>4 DEF Going

\* While a piece is no line feed, the client has not come to the next one.
LEMMA BeforeFeed ==
    ASSUME NEW s \in Nat, NEW a \in Nat, NEW c \in Nat, sent[c + 1].at # "tail", Reading,
           Place(s, a, c), place # "write"
    PROVE  Place(s, a, c + 1)
  <1>1. \A m \in Nat : c < m /\ sent[m].at = "tail" => c + 1 < m
    OBVIOUS
  <1>2. ASSUME NEW m \in 1..s, InBlock(s, a, c, m) PROVE InBlock(s, a, c + 1, m)
    <2>1. m \in Nat /\ c < m /\ sent[m].at = "tail"
      BY <1>2 DEF InBlock, LineEnds
    <2> QED
      BY <1>1, <1>2, <2>1 DEF InBlock
  <1>3. CASE place = "header"
    <2>1. AtHeader(s, a, c + 1)
      BY <1>2, <1>3 DEF Place, AtHeader
    <2> QED
      BY <1>3, <2>1 DEF Place
  <1>4. CASE place = "size"
    <2>1. AtSize(s, c + 1)
      BY <1>1, <1>4 DEF Place, AtSize, Feed
    <2> QED
      BY <1>4, <2>1 DEF Place
  <1>5. CASE place = "crlf"
    <2>1. AtCrlf(s, c + 1)
      BY <1>1, <1>5 DEF Place, AtCrlf, Feed
    <2> QED
      BY <1>5, <2>1 DEF Place
  <1>6. CASE place = "trailer"
    <2>1. AtTrailer(s, a, c + 1)
      BY <1>2, <1>6 DEF Place, AtTrailer
    <2> QED
      BY <1>6, <2>1 DEF Place
  <1>7. CASE place = "status"
    BY <1>7 DEF Place
  <1> QED
    BY <1>3, <1>4, <1>5, <1>6, <1>7 DEF Reading

LEMMA SamePlace ==
    ASSUME NEW s, NEW a, NEW c, Place(s, a, c), UNCHANGED <<sent, place, chunked, length, body>>
    PROVE  Place(s, a, c)'
  BY DEF Place, AtHeader, AtFixed, AtSize, AtChunk, AtCrlf, AtTrailer, InBlock, Feed

LEMMA PieceKept ==
    ASSUME NEW s, KeptInv(s), ReadPiece
    PROVE  KeptInv(s)'
  <1>1. place \notin {"done", "write"} /\ Reading
    BY DEF ReadPiece, Reading
  <1>2. /\ WellFormed(sent, s) /\ s \in Nat /\ sent \in Seq(Piece) /\ s + 2 =< Len(sent)
        /\ length \in Int /\ lines \in Nat /\ result = "none"
    BY <1>1, WhereItIs
  <1>3. PICK a \in Nat, c \in Nat : /\ a =< s /\ c =< s + 1 /\ a =< c /\ c < Len(sent)
                                    /\ ReadTo(a, c) /\ Place(s, a, c)
    BY <1>1, WhereItIs
  <1>4. /\ UNCHANGED <<sent, place, chunked, length, body, lines, result>>
        /\ line' = Longer /\ unread' = Tail(unread) /\ ~Ends
    BY DEF ReadPiece, world, response
  <1>5. sent[c + 1].at # "tail"
    BY <1>2, <1>3, <1>4, UnreadFacts DEF Ends
  <1>6. ReadTo(a, c + 1)'
    BY <1>2, <1>3, <1>4, <1>5, Forward
  <1>7. a \in 0..s /\ c + 1 \in 0..(s + 1) /\ a =< c + 1
    <2>1. sent[s + 2].at = "tail"
      BY <1>2 DEF WellFormed
    <2>2. c + 1 # s + 2
      BY <1>5, <2>1
    <2> QED
      BY <1>2, <1>3, <2>2
  <1>8. Place(s, a, c + 1)'
    <2>1. Place(s, a, c + 1)
      BY <1>1, <1>2, <1>3, <1>5, BeforeFeed
    <2> QED
      BY <1>4, <2>1, SamePlace
  <1>9. Steady(s)
    BY <1>2, <1>4 DEF Steady
  <1> QED
    BY <1>4, <1>6, <1>7, <1>8, <1>9, GotoKept

LEMMA DeadlineKept ==
    ASSUME NEW s, KeptInv(s),
           UNCHANGED <<sent, unread, line, place, chunked, length, body, lines, result, replay>>
    PROVE  KeptInv(s)'
  <1>1. CASE Halted(s)
    BY <1>1 DEF KeptInv, Halted, Handed
  <1>2. CASE Going(s)
    <2>1. PICK a \in 0..s, c \in 0..(s + 1) : a =< c /\ ReadTo(a, c) /\ Place(s, a, c)
      BY <1>2 DEF Going
    <2>2. ReadTo(a, c)'
      BY <2>1 DEF ReadTo
    <2>3. Place(s, a, c)'
      BY <2>1, SamePlace
    <2>4. Steady(s)
      BY <1>2 DEF Steady, KeptInv, Going
    <2> QED
      BY <2>1, <2>2, <2>3, <2>4, GotoKept
  <1> QED
    BY <1>1, <1>2 DEF KeptInv

LEMMA WriteKept ==
    ASSUME NEW s, KeptInv(s), Write
    PROVE  KeptInv(s)'
  <1>1. place = "write" /\ UNCHANGED <<sent, unread, chunked, length, body, lines>>
    BY DEF Write, world, response
  <1>2. /\ WellFormed(sent, s) /\ s \in Nat /\ length \in Int /\ lines \in Nat /\ result = "none"
        /\ sent \in Seq(Piece)
    BY <1>1, WhereItIs
  <1>3. ReadTo(0, 0)
    <2>1. PICK a \in Nat, c \in Nat : ReadTo(a, c) /\ Place(s, a, c)
      BY <1>1, WhereItIs
    <2> QED
      BY <1>1, <2>1 DEF Place
  <1>4. Steady(s) /\ 0 \in 0..s /\ 0 \in Nat /\ 0 =< 0
    BY <1>1, <1>2 DEF Steady
  <1>5. CASE \E r : Return(r, << >>)
    <2>1. line' = << >>
      BY <1>5 DEF Return
    <2>2. ReadTo(0, 0)'
      BY <1>1, <1>3, <1>4, <2>1, Standing
    <2> QED
      BY <1>4, <1>5, <2>2, ReturnKept
  <1>6. CASE Goto("status")
    <2>1. line' = << >> /\ place' = "status" /\ result' = result
      BY <1>6 DEF Goto
    <2>2. ReadTo(0, 0)'
      BY <1>1, <1>3, <1>4, <2>1, Standing
    <2> QED
      BY <1>4, <2>1, <2>2, StatusKept
  <1> QED
    BY <1>5, <1>6 DEF Write

LEMMA StatusLineKept ==
    ASSUME NEW s, KeptInv(s), StatusLine
    PROVE  KeptInv(s)'
  <1>1. place = "status" /\ LineRead /\ unread' = Rest /\ sent' = sent
    BY DEF StatusLine, world
  <1>2. /\ WellFormed(sent, s) /\ s \in Nat /\ sent \in Seq(Piece) /\ s + 2 =< Len(sent)
        /\ length \in Int /\ lines \in Nat /\ result = "none"
    BY <1>1, WhereItIs
  <1>3. PICK a \in Nat, c \in Nat : /\ a =< s /\ c =< s + 1 /\ a =< c /\ c < Len(sent)
                                    /\ ReadTo(a, c) /\ Place(s, a, c)
    BY <1>1, WhereItIs
  <1>4. /\ TheLine = Longer /\ unread' = Tail(unread)
        /\ Kind(TheLine) = sent[a + 1].kind /\ Number(TheLine) = sent[a + 1].n
    BY <1>1, <1>2, <1>3, LineFacts
  <1>5. line' = << >> => ReadTo(c + 1, c + 1)'
    BY <1>1, <1>2, <1>3, <1>4, Forward
  <1>6. CASE Kind(TheLine) = "status"
    <2>1. chunked' = FALSE /\ length' = -1 /\ lines' = 0 /\ Goto("header")
      BY <1>6 DEF StatusLine
    <2>2. ReadTo(c + 1, c + 1)' /\ result' = result /\ place' = "header"
      BY <1>5, <2>1 DEF Goto
    <2>3. a + 1 \in 1..s /\ a < s /\ sent[a + 1].at # "raw" /\ sent[a + 1].kind = "status"
      <3>1. sent[a + 1].kind = "status" /\ a + 1 \in 1..Len(sent)
        BY <1>2, <1>3, <1>4, <1>6
      <3>2. a + 1 \in 1..s
        BY <1>2, <3>1 DEF WellFormed
      <3>3. sent[a + 1].at = "raw" => sent[a + 1].kind = "body"
        BY <1>2, <3>2 DEF WellFormed
      <3> QED
        BY <1>2, <1>3, <3>1, <3>2, <3>3
    <2>4. LineEnds(sent, s, c + 1, "status") /\ c + 1 \in 1..s
      <3>1. LineEnds(sent, s, c + 1, sent[a + 1].kind)
        BY <1>1, <1>2, <1>3, <2>3, LineEnd
      <3> QED
        BY <2>3, <3>1 DEF LineEnds
    <2>5. PICK m \in 1..s : Block(sent, s, c + 1, m, HeaderKinds) /\ Announced(sent, s, c + 1, m)
      BY <1>2, <2>4 DEF WellFormed
    <2>6. c + 1 < m /\ InBlock(s, c + 1, c + 1, m)
      BY <2>4, <2>5 DEF Block, InBlock
    <2>7. \A j \in (c + 1 + 1)..m :
             /\ sent[j].kind = "chunked" => LineEnds(sent, s, m + 2, "size")
             /\ sent[j].kind = "length" => m + sent[j].n =< s
      BY <2>5, Zenon DEF Announced
    <2>8. AtHeader(s, c + 1, c + 1)'
      <3>1. m + (-1) =< s
        BY <1>2
      <3> QED
        BY <1>1, <2>1, <2>6, <2>7, <3>1 DEF AtHeader, InBlock
    <2>9. Place(s, c + 1, c + 1)'
      BY <2>2, <2>8 DEF Place
    <2>10. Steady(s) /\ c + 1 \in 0..s /\ c + 1 \in 0..(s + 1) /\ c + 1 =< c + 1
      BY <1>1, <1>2, <2>1, <2>4 DEF Steady
    <2> QED
      BY <2>2, <2>9, <2>10, GotoKept
  <1>7. CASE Kind(TheLine) # "status"
    <2>1. Return("conn", Preloaded(TheLine)) /\ UNCHANGED <<length, lines>>
      BY <1>7 DEF StatusLine
    <2>2. place' = "done" /\ replay' = Longer /\ line' = << >>
      BY <1>4, <2>1 DEF Return, Preloaded
    <2>3. ReadTo(c + 1, c + 1)'
      BY <1>5, <2>2
    <2>4. /\ Longer \in Seq(Piece) /\ Len(Longer) = c + 1 - a
          /\ \A k \in 1..(c + 1 - a) : Longer[k] = sent[a + k]
      BY <1>2, <1>3, UnreadFacts
    <2>5. IsPart(Handed', sent', a, Len(sent'))
      <3>1. c + 1 \in Nat /\ a =< c + 1 /\ c + 1 =< Len(sent)
        BY <1>2, <1>3
      <3>2. /\ replay' \in Seq(Piece) /\ Len(replay') = c + 1 - a
            /\ \A k \in 1..(c + 1 - a) : replay'[k] = sent[a + k]
        BY <2>2, <2>4, Zenon
      <3>3. sent \in Seq(Piece) /\ sent' = sent
        BY <1>1, <1>2
      <3> DEFINE d == c + 1
      <3>4. d \in Nat /\ a =< d /\ d =< Len(sent)
        BY <3>1
      <3>5. Len(replay') = d - a /\ \A k \in 1..(d - a) : replay'[k] = sent[a + k]
        BY <1>2, <3>2
      <3>6. ReadTo(d, d)'
        BY <2>3
      <3> HIDE DEF d
      <3> QED
        BY <1>2, <3>2, <3>3, <3>4, <3>5, <3>6, HandsOver
    <2>6. Halted(s)' /\ a \in 0..s
      BY <1>2, <1>3, <2>2, <2>5 DEF Halted
    <2> QED
      BY <1>1, <1>2, <2>1, <2>6 DEF KeptInv
  <1> QED
    BY <1>6, <1>7

LEMMA StatusGivesUpKept ==
    ASSUME NEW s, KeptInv(s), StatusTimeout \/ StatusError
    PROVE  KeptInv(s)'
  <1>1. place = "status" /\ UNCHANGED <<sent, unread, length, lines>>
    BY DEF StatusTimeout, StatusError, world, response
  <1>2. /\ WellFormed(sent, s) /\ s \in Nat /\ sent \in Seq(Piece) /\ s + 2 =< Len(sent)
        /\ length \in Int /\ lines \in Nat /\ result = "none"
    BY <1>1, WhereItIs
  <1>3. PICK a \in Nat, c \in Nat : /\ a =< s /\ c =< s + 1 /\ a =< c /\ c < Len(sent)
                                    /\ ReadTo(a, c) /\ Place(s, a, c)
    BY <1>1, WhereItIs
  <1>4. StatusTimeout
    BY <1>2, <1>3, LineFacts DEF StatusError
  <1>5. place' = "done" /\ line' = << >>
    BY <1>4 DEF StatusTimeout, Return
  <1>6. ReadTo(c, c)'
    BY <1>1, <1>3, <1>5, Standing
  <1>7. result' = "conn" => replay' = line
    BY <1>4 DEF StatusTimeout, Return, Preloaded
  <1>8. ASSUME result' = "conn" PROVE IsPart(Handed', sent', a, Len(sent'))
    <2>1. /\ replay' \in Seq(Piece) /\ Len(replay') = c - a
          /\ \A k \in 1..(c - a) : replay'[k] = sent[a + k]
      BY <1>3, <1>7, <1>8 DEF ReadTo
    <2> QED
      BY <1>1, <1>2, <1>3, <1>6, <2>1, HandsOver
  <1>9. Halted(s)' /\ a \in 0..s
    BY <1>2, <1>3, <1>5, <1>8 DEF Halted
  <1> QED
    BY <1>1, <1>2, <1>9 DEF KeptInv

LEMMA ConsumeFailsKept ==
    ASSUME NEW s, KeptInv(s), ConsumeFails
    PROVE  KeptInv(s)'
  <1>1. /\ place \in {"header", "fixed", "size", "chunk", "trailer"}
        /\ UNCHANGED <<sent, unread, length, lines>>
    BY DEF ConsumeFails, world, response
  <1>2. /\ WellFormed(sent, s) /\ s \in Nat /\ sent \in Seq(Piece) /\ s + 2 =< Len(sent)
        /\ length \in Int /\ lines \in Nat /\ result = "none"
    BY <1>1, WhereItIs
  <1>3. PICK a \in Nat, c \in Nat : /\ a =< s /\ c =< s + 1 /\ a =< c /\ c < Len(sent)
                                    /\ ReadTo(a, c) /\ Place(s, a, c)
    BY <1>1, WhereItIs
  <1>4. Return("conn", << >>)
    BY <1>2, <1>3, LineFacts DEF ConsumeFails
  <1>5. ReadTo(c, c)'
    BY <1>1, <1>3, <1>4, Standing DEF Return
  <1>6. c \in 0..s
    <2>1. CASE place \in {"header", "trailer"}
      BY <1>2, <1>3, <2>1 DEF Place, AtHeader, AtTrailer, InBlock
    <2>2. CASE place = "fixed"
      BY <1>2, <1>3, <2>2 DEF Place, AtFixed
    <2>3. CASE place = "size"
      BY <1>2, <1>3, <2>3 DEF Place, AtSize
    <2>4. CASE place = "chunk"
      BY <1>2, <1>3, <2>4 DEF Place, AtChunk
    <2> QED
      BY <1>1, <2>1, <2>2, <2>3, <2>4
  <1>7. Steady(s)
    BY <1>1, <1>2 DEF Steady
  <1> QED
    BY <1>4, <1>5, <1>6, <1>7, ReturnKept

\* A line of a block: the one that ends at m is blank, and no other one is beyond.
LEMMA BlockLine ==
    ASSUME NEW s \in Nat, WellFormed(sent, s), NEW a \in Nat, NEW c \in Nat, a =< c, c < Len(sent),
           ReadTo(a, c), NEW m \in 1..s, InBlock(s, a, c, m), LineRead
    PROVE  /\ LineEnds(sent, s, c + 1, sent[a + 1].kind) /\ sent[c + 1].n = sent[a + 1].n
           /\ c + 1 =< m
           /\ sent[a + 1].kind # "blank" => InBlock(s, c + 1, c + 1, m)
  <1>1. a < s /\ a + 1 \in (a + 1)..m /\ sent[a + 1].at # "raw"
    BY DEF InBlock
  <1>2. LineEnds(sent, s, c + 1, sent[a + 1].kind) /\ sent[c + 1].n = sent[a + 1].n
    BY <1>1, LineEnd
  <1>3. c + 1 =< m /\ m \in Nat
    BY DEF InBlock
  <1>4. ASSUME sent[a + 1].kind # "blank" PROVE InBlock(s, c + 1, c + 1, m)
    <2>1. sent[c + 1].kind # "blank" /\ sent[m].kind = "blank"
      BY <1>2, <1>4 DEF LineEnds, InBlock
    <2>2. c + 1 < m
      BY <1>3, <2>1
    <2>3. \A j \in (c + 1 + 1)..m : j \in (a + 1)..m
      OBVIOUS
    <2> QED
      BY <2>2, <2>3 DEF InBlock
  <1> QED
    BY <1>2, <1>3, <1>4

LEMMA HeaderKept ==
    ASSUME NEW s, KeptInv(s), HeaderLine
    PROVE  KeptInv(s)'
  <1>1. place = "header" /\ LineRead /\ unread' = Rest /\ sent' = sent
    BY DEF HeaderLine, world
  <1>2. /\ WellFormed(sent, s) /\ s \in Nat /\ sent \in Seq(Piece) /\ s + 2 =< Len(sent)
        /\ length \in Int /\ lines \in Nat /\ result = "none"
    BY <1>1, WhereItIs
  <1>3. PICK a \in Nat, c \in Nat : /\ a =< s /\ c =< s + 1 /\ a =< c /\ c < Len(sent)
                                    /\ ReadTo(a, c) /\ Place(s, a, c)
    BY <1>1, WhereItIs
  <1>4. /\ unread' = Tail(unread)
        /\ Kind(TheLine) = sent[a + 1].kind /\ Number(TheLine) = sent[a + 1].n
    BY <1>1, <1>2, <1>3, LineFacts
  <1>5. line' = << >> => ReadTo(c + 1, c + 1)'
    BY <1>1, <1>2, <1>3, <1>4, Forward
  <1>6. PICK m \in 1..s :
          /\ InBlock(s, a, c, m)
          /\ chunked => LineEnds(sent, s, m + 2, "size")
          /\ m + length =< s
          /\ \A j \in (a + 1)..m :
               /\ sent[j].kind = "chunked" => LineEnds(sent, s, m + 2, "size")
               /\ sent[j].kind = "length" => m + sent[j].n =< s
    BY <1>1, <1>3 DEF Place, AtHeader
  <1>7. /\ LineEnds(sent, s, c + 1, sent[a + 1].kind) /\ c + 1 =< m
        /\ sent[a + 1].kind # "blank" => InBlock(s, c + 1, c + 1, m)
    BY <1>1, <1>2, <1>3, <1>6, BlockLine
  <1>8. a + 1 \in (a + 1)..m /\ a + 1 \in 1..Len(sent) /\ sent[a + 1].n \in Nat
    <2>1. a + 1 \in (a + 1)..m /\ a + 1 \in 1..Len(sent)
      BY <1>2, <1>3, <1>6 DEF InBlock
    <2>2. sent[a + 1] \in Piece
      BY <1>2, <2>1
    <2> QED
      BY <2>1, <2>2 DEF Piece
  <1>9. /\ chunked' => LineEnds(sent, s, m + 2, "size")
        /\ length' \in Int /\ m + length' =< s
    <2>1. chunked' = (chunked \/ sent[a + 1].kind = "chunked")
      BY <1>4 DEF HeaderLine
    <2>2. length' = IF sent[a + 1].kind = "length" THEN sent[a + 1].n ELSE length
      BY <1>4 DEF HeaderLine
    <2>3. chunked' => LineEnds(sent, s, m + 2, "size")
      BY <1>6, <1>8, <2>1
    <2> QED
      BY <1>2, <1>6, <1>8, <2>2, <2>3
  <1>10. lines' \in Nat /\ c + 1 \in 0..s /\ c + 1 \in 0..(s + 1) /\ c + 1 =< c + 1
    BY <1>2, <1>3, <1>7 DEF HeaderLine
  <1>11. Steady(s)
    BY <1>1, <1>2, <1>9, <1>10 DEF Steady
  <1>12. CASE Goto("header") /\ sent[a + 1].kind # "blank"
    <2>1. ReadTo(c + 1, c + 1)' /\ result' = result /\ place' = "header"
      BY <1>5, <1>12 DEF Goto
    <2>2. \A j \in (c + 1 + 1)..m : j \in (a + 1)..m
      BY <1>3
    <2>3. InBlock(s, c + 1, c + 1, m)'
      BY <1>1, <1>7, <1>12 DEF InBlock
    <2>4. AtHeader(s, c + 1, c + 1)'
      BY <1>1, <1>6, <1>9, <2>2, <2>3 DEF AtHeader
    <2>5. Place(s, c + 1, c + 1)'
      BY <2>1, <2>4 DEF Place
    <2> QED
      BY <1>10, <1>11, <2>1, <2>5, GotoKept
  <1>13. CASE chunked' /\ Goto("size")
    <2>1. ReadTo(c + 1, c + 1)' /\ result' = result /\ place' = "size"
      BY <1>5, <1>13 DEF Goto
    <2>2. Feed(s, m) /\ Feed(s, m + 2)
      BY <1>6, <1>9, <1>13 DEF InBlock, LineEnds, Feed
    <2>3. m \in 1..s /\ m + 2 \in 1..s /\ (c + 1 < m \/ c + 1 < m + 2)
      BY <1>7, <2>2 DEF Feed
    <2>4. AtSize(s, c + 1)
      BY <2>2, <2>3 DEF AtSize
    <2>5. AtSize(s, c + 1)'
      BY <1>1, <2>4 DEF AtSize, Feed
    <2>6. Place(s, c + 1, c + 1)'
      BY <2>1, <2>5 DEF Place
    <2> QED
      BY <1>10, <1>11, <2>1, <2>6, GotoKept
  <1>14. CASE length' > 0 /\ Goto("fixed") /\ body' = Capped(length')
    <2>1. ReadTo(c + 1, c + 1)' /\ result' = result /\ place' = "fixed"
      BY <1>5, <1>14 DEF Goto
    <2>2. body' \in Nat \ {0} /\ body' =< length'
      BY <1>9, <1>14, PayloadAssumption DEF Capped
    <2>3. AtFixed(s, c + 1)'
      <3> DEFINE d == body'
                 e == length'
      <3>1. d \in Nat \ {0} /\ d =< e
        BY <2>2
      <3>2. e \in Int /\ m + e =< s /\ c + 1 =< m /\ m \in Nat
        BY <1>7, <1>9
      <3> HIDE DEF d, e
      <3>3. c + 1 + d =< s
        BY <1>2, <3>1, <3>2
      <3> QED
        BY <3>1, <3>3 DEF AtFixed, d
    <2>4. Place(s, c + 1, c + 1)'
      BY <2>1, <2>3 DEF Place
    <2> QED
      BY <1>10, <1>11, <2>1, <2>4, GotoKept
  <1>15. CASE NextResponse
    <2>1. line' = << >>
      BY <1>15 DEF NextResponse, Verdict, Return
    <2> QED
      BY <1>5, <1>10, <1>11, <1>15, <2>1, NextKept
  <1>16. \/ Goto("header") /\ sent[a + 1].kind # "blank"
         \/ chunked' /\ Goto("size")
         \/ length' > 0 /\ Goto("fixed") /\ body' = Capped(length')
         \/ NextResponse
    BY <1>4 DEF HeaderLine
  <1> QED
    BY <1>12, <1>13, <1>14, <1>15, <1>16

LEMMA DiscardKept ==
    ASSUME NEW s, KeptInv(s), DiscardPiece
    PROVE  KeptInv(s)'
  <1>1. /\ place \in {"fixed", "chunk"} /\ unread' = Tail(unread) /\ body' = body - 1
        /\ UNCHANGED <<sent, length, lines>>
    BY DEF DiscardPiece, world
  <1>2. /\ WellFormed(sent, s) /\ s \in Nat /\ sent \in Seq(Piece) /\ s + 2 =< Len(sent)
        /\ length \in Int /\ lines \in Nat /\ result = "none"
    BY <1>1, WhereItIs
  <1>3. PICK a \in Nat, c \in Nat : /\ a =< s /\ c =< s + 1 /\ a =< c /\ c < Len(sent)
                                    /\ ReadTo(a, c) /\ Place(s, a, c)
    BY <1>1, WhereItIs
  <1>4. line' = << >> => ReadTo(c + 1, c + 1)'
    BY <1>1, <1>2, <1>3, Forward
  <1>5. body \in Nat \ {0} /\ c + body =< s
    BY <1>1, <1>2, <1>3 DEF Place, AtFixed, AtChunk
  <1>6. Steady(s) /\ c + 1 \in 0..s /\ c + 1 \in 0..(s + 1) /\ c + 1 =< c + 1
    BY <1>1, <1>2, <1>5 DEF Steady
  <1>7. CASE body > 1 /\ Goto(place)
    <2>1. ReadTo(c + 1, c + 1)' /\ result' = result /\ place' = place
      BY <1>4, <1>7 DEF Goto
    <2>2. body' \in Nat \ {0} /\ c + 1 + body' = c + body
      BY <1>1, <1>5, <1>7
    <2>3. CASE place = "fixed"
      <3>1. AtFixed(s, c + 1)'
        BY <1>5, <2>2 DEF AtFixed
      <3>2. Place(s, c + 1, c + 1)'
        BY <2>1, <2>3, <3>1 DEF Place
      <3> QED
        BY <1>6, <2>1, <3>2, GotoKept
    <2>4. CASE place = "chunk"
      <3>1. AtChunk(s, c)
        BY <1>3, <2>4 DEF Place
      <3>2. AtChunk(s, c + 1)'
        BY <1>1, <2>2, <3>1 DEF AtChunk, Feed
      <3>3. Place(s, c + 1, c + 1)'
        BY <2>1, <2>4, <3>2 DEF Place
      <3> QED
        BY <1>6, <2>1, <3>3, GotoKept
    <2> QED
      BY <1>1, <2>3, <2>4
  <1>8. CASE body = 1 /\ place = "chunk" /\ Goto("crlf")
    <2>1. ReadTo(c + 1, c + 1)' /\ result' = result /\ place' = "crlf"
      BY <1>4, <1>8 DEF Goto
    <2>2. PICK e \in 1..s : c + body =< e /\ Feed(s, e + 2) /\ Feed(s, e + 4)
      BY <1>3, <1>8 DEF Place, AtChunk
    <2>3. e + 2 \in 1..s /\ e + 4 \in 1..s /\ c + 1 < e + 2 /\ e + 2 < e + 4
      BY <1>8, <2>2 DEF Feed
    <2>4. AtCrlf(s, c + 1)
      BY <2>2, <2>3 DEF AtCrlf
    <2>5. AtCrlf(s, c + 1)'
      BY <1>1, <2>4 DEF AtCrlf, Feed
    <2>6. Place(s, c + 1, c + 1)'
      BY <2>1, <2>5 DEF Place
    <2> QED
      BY <1>6, <2>1, <2>6, GotoKept
  <1>9. CASE NextResponse
    <2>1. line' = << >>
      BY <1>9 DEF NextResponse, Verdict, Return
    <2> QED
      BY <1>4, <1>6, <1>9, <2>1, NextKept
  <1> QED
    BY <1>7, <1>8, <1>9 DEF DiscardPiece

LEMMA SizeKept ==
    ASSUME NEW s, KeptInv(s), ChunkSize
    PROVE  KeptInv(s)'
  <1>1. place = "size" /\ LineRead /\ unread' = Rest /\ UNCHANGED <<sent, length>>
    BY DEF ChunkSize, world
  <1>2. /\ WellFormed(sent, s) /\ s \in Nat /\ sent \in Seq(Piece) /\ s + 2 =< Len(sent)
        /\ length \in Int /\ lines \in Nat /\ result = "none"
    BY <1>1, WhereItIs
  <1>3. PICK a \in Nat, c \in Nat : /\ a =< s /\ c =< s + 1 /\ a =< c /\ c < Len(sent)
                                    /\ ReadTo(a, c) /\ Place(s, a, c)
    BY <1>1, WhereItIs
  <1>4. /\ unread' = Tail(unread)
        /\ Kind(TheLine) = sent[a + 1].kind /\ Number(TheLine) = sent[a + 1].n
    BY <1>1, <1>2, <1>3, LineFacts
  <1>5. line' = << >> => ReadTo(c + 1, c + 1)'
    BY <1>1, <1>2, <1>3, <1>4, Forward
  <1>6. c + 1 \in 0..s /\ c + 1 \in 0..(s + 1) /\ c + 1 =< c + 1
    BY <1>1, <1>2, <1>3 DEF Place, AtSize
  <1>7. Steady(s)
    BY <1>1, <1>2 DEF Steady, ChunkSize
  <1>8. CASE NextResponse
    <2>1. line' = << >>
      BY <1>8 DEF NextResponse, Verdict, Return
    <2> QED
      BY <1>5, <1>6, <1>7, <1>8, <2>1, NextKept
  <1>9. CASE Kind(TheLine) = "size"
    <2>1. a < s /\ sent[a + 1].kind = "size" /\ sent[a + 1].at # "raw"
      <3>1. sent[a + 1].kind = "size" /\ a + 1 \in 1..s
        BY <1>2, <1>3, <1>4, <1>6, <1>9
      <3>2. sent[a + 1].at = "raw" => sent[a + 1].kind = "body"
        BY <1>2, <3>1 DEF WellFormed
      <3> QED
        BY <1>2, <1>3, <3>1, <3>2
    <2>2. /\ LineEnds(sent, s, c + 1, "size") /\ sent[c + 1].n = Number(TheLine)
          /\ c + 1 \in 1..s
      <3>1. /\ LineEnds(sent, s, c + 1, sent[a + 1].kind)
            /\ sent[c + 1].n = sent[a + 1].n
        BY <1>1, <1>2, <1>3, <2>1, LineEnd
      <3> QED
        BY <1>4, <2>1, <3>1 DEF LineEnds
    <2>3. CASE Number(TheLine) = 0 /\ Goto("trailer")
      <3>1. ReadTo(c + 1, c + 1)' /\ result' = result /\ place' = "trailer"
        BY <1>5, <2>3 DEF Goto
      <3>2. PICK m \in 1..s : Block(sent, s, c + 1, m, {"field"})
        BY <1>2, <2>2, <2>3 DEF WellFormed
      <3>3. InBlock(s, c + 1, c + 1, m)'
        BY <1>1, <2>2, <3>2 DEF InBlock, Block
      <3>4. Place(s, c + 1, c + 1)'
        BY <3>1, <3>3 DEF Place, AtTrailer
      <3> QED
        BY <1>6, <1>7, <3>1, <3>4, GotoKept
    <2>4. CASE Number(TheLine) > 0 /\ body' = Capped(Number(TheLine)) /\ Goto("chunk")
      <3> DEFINE n == sent[c + 1].n
                 e == c + 1 + n
      <3>1. ReadTo(c + 1, c + 1)' /\ result' = result /\ place' = "chunk"
        BY <1>5, <2>4 DEF Goto
      <3>2. n \in Nat
        <4>1. sent[c + 1] \in Piece
          BY <1>2, <1>3
        <4> QED
          BY <4>1 DEF Piece
      <3>3. body' \in Nat \ {0} /\ body' =< n
        BY <2>2, <2>4, <3>2, PayloadAssumption DEF Capped
      <3>4. n # 0
        BY <2>2, <2>4, <3>2
      <3>5. LineEnds(sent, s, c + 1 + n + 2, "blank") /\ LineEnds(sent, s, c + 1 + n + 4, "size")
        BY <1>2, <2>2, <3>4 DEF WellFormed
      <3> DEFINE d == body'
      <3>6. d \in Nat \ {0} /\ d =< n
        BY <3>3
      <3> HIDE DEF n, d
      <3>7. e \in 1..s /\ c + 1 + d =< e /\ c + 1 + n + 2 = e + 2 /\ c + 1 + n + 4 = e + 4
        <4>1. c + 1 + n + 4 \in 1..s
          BY <3>5 DEF LineEnds
        <4> QED
          BY <1>2, <3>2, <3>6, <4>1
      <3> HIDE DEF e
      <3>8. Feed(s, e + 2) /\ Feed(s, e + 4)
        BY <3>5, <3>7 DEF LineEnds, Feed
      <3>9. AtChunk(s, c + 1)'
        BY <1>1, <3>6, <3>7, <3>8 DEF AtChunk, Feed, d
      <3>10. Place(s, c + 1, c + 1)'
        BY <3>1, <3>9 DEF Place
      <3> QED
        BY <1>6, <1>7, <3>1, <3>10, GotoKept
    <2> QED
      BY <1>9, <2>3, <2>4 DEF ChunkSize
  <1> QED
    BY <1>8, <1>9 DEF ChunkSize

LEMMA ChunkEndKept ==
    ASSUME NEW s, KeptInv(s), ChunkEnd
    PROVE  KeptInv(s)'
  <1>1. place = "crlf" /\ UNCHANGED <<sent, length>> /\ lines' = lines + 1
    BY DEF ChunkEnd, world
  <1>2. /\ WellFormed(sent, s) /\ s \in Nat /\ sent \in Seq(Piece) /\ s + 2 =< Len(sent)
        /\ length \in Int /\ lines \in Nat /\ result = "none"
    BY <1>1, WhereItIs
  <1>3. PICK a \in Nat, c \in Nat : /\ a =< s /\ c =< s + 1 /\ a =< c /\ c < Len(sent)
                                    /\ ReadTo(a, c) /\ Place(s, a, c)
    BY <1>1, WhereItIs
  <1>4. PICK f \in 1..s, g \in 1..s : c < f /\ f < g /\ Feed(s, f) /\ Feed(s, g)
    BY <1>1, <1>3 DEF Place, AtCrlf
  <1>5. line' = << >>
    BY DEF ChunkEnd, Goto, NextResponse, Verdict, Return
  <1>6. \E b \in {c, c + 1} : ReadTo(b, b)'
    <2>1. CASE LineRead /\ unread' = Rest
      <3>1. unread' = Tail(unread)
        BY <1>2, <1>3, <2>1, LineFacts
      <3>2. ReadTo(c + 1, c + 1)'
        BY <1>1, <1>2, <1>3, <1>5, <3>1, Forward
      <3> QED
        BY <3>2
    <2>2. CASE unread' = unread
      <3>1. ReadTo(c, c)'
        BY <1>1, <1>3, <1>5, <2>2, Standing
      <3> QED
        BY <3>1
    <2> QED
      BY <2>1, <2>2 DEF ChunkEnd
  <1>7. PICK b \in {c, c + 1} : ReadTo(b, b)'
    BY <1>6
  <1>8. b \in 0..s /\ b \in 0..(s + 1) /\ b =< b /\ b < g
    BY <1>2, <1>3, <1>4
  <1>9. Steady(s)
    BY <1>1, <1>2 DEF Steady
  <1>10. CASE Goto("size")
    <2>1. result' = result /\ place' = "size"
      BY <1>10 DEF Goto
    <2>2. AtSize(s, b)'
      BY <1>1, <1>4, <1>8 DEF AtSize, Feed
    <2>3. Place(s, b, b)'
      BY <2>1, <2>2 DEF Place
    <2> QED
      BY <1>7, <1>8, <1>9, <2>1, <2>3, GotoKept
  <1>11. CASE NextResponse
    BY <1>7, <1>8, <1>9, <1>11, NextKept
  <1> QED
    BY <1>10, <1>11 DEF ChunkEnd

LEMMA TrailerKept ==
    ASSUME NEW s, KeptInv(s), TrailerLine
    PROVE  KeptInv(s)'
  <1>1. place = "trailer" /\ LineRead /\ unread' = Rest /\ UNCHANGED <<sent, length>>
    BY DEF TrailerLine, world
  <1>2. /\ WellFormed(sent, s) /\ s \in Nat /\ sent \in Seq(Piece) /\ s + 2 =< Len(sent)
        /\ length \in Int /\ lines \in Nat /\ result = "none"
    BY <1>1, WhereItIs
  <1>3. PICK a \in Nat, c \in Nat : /\ a =< s /\ c =< s + 1 /\ a =< c /\ c < Len(sent)
                                    /\ ReadTo(a, c) /\ Place(s, a, c)
    BY <1>1, WhereItIs
  <1>4. unread' = Tail(unread) /\ Kind(TheLine) = sent[a + 1].kind
    BY <1>1, <1>2, <1>3, LineFacts
  <1>5. line' = << >> => ReadTo(c + 1, c + 1)'
    BY <1>1, <1>2, <1>3, <1>4, Forward
  <1>6. PICK m \in 1..s : InBlock(s, a, c, m)
    BY <1>1, <1>3 DEF Place, AtTrailer
  <1>7. c + 1 =< m /\ (sent[a + 1].kind # "blank" => InBlock(s, c + 1, c + 1, m))
    BY <1>1, <1>2, <1>3, <1>6, BlockLine
  <1>8. c + 1 \in 0..s /\ c + 1 \in 0..(s + 1) /\ c + 1 =< c + 1
    BY <1>2, <1>3, <1>7
  <1>9. Steady(s)
    BY <1>1, <1>2 DEF Steady, TrailerLine
  <1>10. CASE Goto("trailer") /\ sent[a + 1].kind # "blank"
    <2>1. ReadTo(c + 1, c + 1)' /\ result' = result /\ place' = "trailer"
      BY <1>5, <1>10 DEF Goto
    <2>2. InBlock(s, c + 1, c + 1, m)'
      BY <1>1, <1>7, <1>10 DEF InBlock
    <2>3. Place(s, c + 1, c + 1)'
      BY <2>1, <2>2 DEF Place, AtTrailer
    <2> QED
      BY <1>8, <1>9, <2>1, <2>3, GotoKept
  <1>11. CASE NextResponse
    <2>1. line' = << >>
      BY <1>11 DEF NextResponse, Verdict, Return
    <2> QED
      BY <1>5, <1>8, <1>9, <1>11, <2>1, NextKept
  <1> QED
    BY <1>4, <1>10, <1>11 DEF TrailerLine

LEMMA KeptStep ==
    ASSUME NEW s, KeptInv(s), [PayloadNext]_payloadVars
    PROVE  KeptInv(s)'
  <1>1. CASE DeadlinePasses \/ UNCHANGED payloadVars
    BY <1>1, DeadlineKept DEF DeadlinePasses, payloadVars, world, status, response, control
  <1>2. CASE Client
    BY <1>2, WriteKept, PieceKept, StatusLineKept, StatusGivesUpKept, HeaderKept, DiscardKept,
       SizeKept, ChunkEndKept, TrailerKept, ConsumeFailsKept DEF Client
  <1> QED
    BY <1>1, <1>2 DEF PayloadNext

LEMMA PrefixWellFormed ==
    ASSUME NEW x, NEW s, WellFormed(x, s), NEW n \in Nat, s + 2 =< n, n =< Len(x)
    PROVE  WellFormed(SubSeq(x, 1, n), s)
  <1> DEFINE y == SubSeq(x, 1, n)
  <1>1. x \in Seq(Piece) /\ s \in Nat /\ s + 2 =< Len(x)
    BY DEF WellFormed
  <1>2. y \in Seq(Piece) /\ Len(y) = n /\ \A k \in 1..n : y[k] = x[k]
    BY <1>1
  <1> HIDE DEF y
  <1>3. \A k \in 1..n : y[k].kind = "ssh" <=> k > s
    BY <1>1, <1>2 DEF WellFormed
  <1>4. y[s + 1].at = "head" /\ y[s + 2].at = "tail"
    BY <1>1, <1>2 DEF WellFormed
  <1>5. ASSUME NEW k \in 1..s
        PROVE  /\ y[k].at = "head" => k < s /\ y[k + 1] = [y[k] EXCEPT !.at = "tail"]
               /\ y[k].at = "tail" => k > 1 /\ y[k - 1] = [y[k] EXCEPT !.at = "head"]
               /\ y[k].at = "raw" => y[k].kind = "body"
    <2>1. /\ x[k].at = "head" => k < s /\ x[k + 1] = [x[k] EXCEPT !.at = "tail"]
          /\ x[k].at = "tail" => k > 1 /\ x[k - 1] = [x[k] EXCEPT !.at = "head"]
          /\ x[k].at = "raw" => x[k].kind = "body"
      BY DEF WellFormed
    <2>2. k \in 1..n /\ (k < s => k + 1 \in 1..n) /\ (k > 1 => k - 1 \in 1..n)
      BY <1>1
    <2>3. y[k] = x[k] /\ (k < s => y[k + 1] = x[k + 1]) /\ (k > 1 => y[k - 1] = x[k - 1])
      BY <1>2, <2>2
    <2> QED
      BY <2>1, <2>3
  <1>6. \A k \in 1..s : y[k] = x[k]
    BY <1>1, <1>2
  <1>7. \A k, d : LineEnds(y, s, k, d) <=> LineEnds(x, s, k, d)
    BY <1>6 DEF LineEnds
  <1>8. \A k : Begins(y, s, k) <=> Begins(x, s, k)
    BY <1>7 DEF Begins
  <1>9. ASSUME NEW k \in 1..s, NEW m \in 1..s, NEW d
        PROVE  Block(x, s, k, m, d) => Block(y, s, k, m, d)
    <2>1. \A j \in (k + 1)..m : j \in 1..s
      BY <1>1
    <2>2. \A j \in (k + 1)..(m - 2) : j \in 1..s
      BY <1>1
    <2> QED
      BY <1>6, <1>7, <2>1, <2>2 DEF Block
  <1>10. ASSUME NEW k \in 1..s, NEW m \in 1..s, Announced(x, s, k, m)
         PROVE  Announced(y, s, k, m)
    <2>1. \A j \in (k + 1)..m : y[j] = x[j]
      BY <1>1, <1>6
    <2> QED
      BY <1>7, <1>8, <1>10, <2>1, Zenon DEF Announced
  <1>11. ASSUME NEW k \in 1..s, LineEnds(y, s, k, "status")
         PROVE  \E m \in 1..s : Block(y, s, k, m, HeaderKinds) /\ Announced(y, s, k, m)
    <2>1. PICK m \in 1..s : Block(x, s, k, m, HeaderKinds) /\ Announced(x, s, k, m)
      BY <1>7, <1>11 DEF WellFormed
    <2> QED
      BY <1>9, <1>10, <2>1
  <1>12. ASSUME NEW k \in 1..s, LineEnds(y, s, k, "size")
         PROVE  IF y[k].n = 0
                THEN \E m \in 1..s : Block(y, s, k, m, {"field"}) /\ Begins(y, s, m)
                ELSE LineEnds(y, s, k + y[k].n + 2, "blank") /\ LineEnds(y, s, k + y[k].n + 4, "size")
    <2>1. LineEnds(x, s, k, "size") /\ y[k] = x[k]
      BY <1>6, <1>7, <1>12
    <2>2. CASE y[k].n = 0
      <3>1. PICK m \in 1..s : Block(x, s, k, m, {"field"}) /\ Begins(x, s, m)
        BY <2>1, <2>2 DEF WellFormed
      <3> QED
        BY <1>8, <1>9, <2>2, <3>1
    <2>3. CASE y[k].n # 0
      <3>1. LineEnds(x, s, k + x[k].n + 2, "blank") /\ LineEnds(x, s, k + x[k].n + 4, "size")
        BY <2>1, <2>3 DEF WellFormed
      <3> QED
        BY <1>7, <2>1, <2>3, <3>1
    <2> QED
      BY <2>2, <2>3
  <1>13. Begins(y, s, 0)
    BY <1>8 DEF WellFormed
  <1>14. WellFormed(y, s)
    BY <1>1, <1>2, <1>3, <1>4, <1>5, <1>11, <1>12, <1>13 DEF WellFormed
  <1> QED
    BY <1>14 DEF y

\* An exchange that the peer gives up before the end of the SSH version line.
TooShort == ~(Len(SSHPart(sent)) >= 2)

LEMMA KeptInit == PayloadInit => TooShort \/ \E s \in Nat : KeptInv(s)
  <1> SUFFICES ASSUME PayloadInit PROVE TooShort \/ \E s \in Nat : KeptInv(s)
    OBVIOUS
  <1>1. PICK x \in Exchange, n \in Nat : n =< Len(x) /\ sent = SubSeq(x, 1, n)
    <2>1. PICK x \in Exchange : \E n \in 0..Len(x) : sent = SubSeq(x, 1, n)
      BY DEF PayloadInit
    <2>2. PICK n \in 0..Len(x) : sent = SubSeq(x, 1, n)
      BY <2>1
    <2>3. x \in Seq(Piece)
      BY ExchangeAssumption DEF WellFormed
    <2> QED
      BY <2>2, <2>3
  <1>2. PICK s : WellFormed(x, s)
    BY ExchangeAssumption
  <1>3. x \in Seq(Piece) /\ s \in Nat
    BY <1>2 DEF WellFormed
  <1>4. sent \in Seq(Piece) /\ Len(sent) = n /\ \A k \in 1..n : sent[k] = x[k]
    BY <1>1, <1>3
  <1>5. CASE n < s + 2
    <2>1. \A k \in 1..Len(sent) : sent[k].kind = "ssh" <=> k > s
      BY <1>1, <1>2, <1>3, <1>4 DEF WellFormed
    <2>2. IsPart(SSHPart(sent), sent, s, Len(sent))
      BY <1>3, <1>4, <2>1, SSHPartIs
    <2>3. Len(SSHPart(sent)) = IF n > s THEN n - s ELSE 0
      BY <1>4, <2>2 DEF IsPart
    <2> QED
      BY <1>3, <1>5, <2>3 DEF TooShort
  <1>6. CASE s + 2 =< n
    <2>1. WellFormed(sent, s)
      BY <1>1, <1>2, <1>6, PrefixWellFormed
    <2>2. /\ unread = sent /\ line = << >> /\ result = "none" /\ place = "write"
          /\ length = -1 /\ lines = 0
      BY DEF PayloadInit
    <2>3. ReadTo(0, 0)
      BY <1>4, <2>2 DEF ReadTo
    <2>4. Place(s, 0, 0)
      BY <2>2 DEF Place
    <2>5. Going(s)
      <3>1. 0 \in 0..s /\ 0 \in 0..(s + 1) /\ 0 =< 0
        BY <1>3
      <3> QED
        BY <2>2, <2>3, <2>4, <3>1 DEF Going
    <2> QED
      BY <1>3, <2>1, <2>2, <2>5 DEF KeptInv
  <1> QED
    BY <1>1, <1>3, <1>5, <1>6

LEMMA SameSSH ==
    ASSUME NEW s, WellFormed(sent, s), NEW a \in 0..s, IsPart(Handed, sent, a, Len(sent))
    PROVE  SSHPart(Handed) = SSHPart(sent)
  <1> DEFINE n == Len(sent)
             u == SSHPart(Handed)
             v == SSHPart(sent)
             w == Handed
  <1>1. sent \in Seq(Piece) /\ s \in Nat /\ s + 2 =< n /\ n \in Nat /\ a \in Nat /\ a =< s
    BY DEF WellFormed
  <1>2. w \in Seq(Piece) /\ Len(w) = n - a /\ \A j \in 1..(n - a) : w[j] = sent[a + j]
    BY <1>1 DEF IsPart
  <1>3. \A k \in 1..n : sent[k].kind = "ssh" <=> k > s
    BY DEF WellFormed
  <1>4. IsPart(v, sent, s, n)
    BY <1>1, <1>3, SSHPartIs
  <1>5. IsPart(u, w, s - a, Len(w))
    <2>1. s - a \in Nat
      BY <1>1
    <2>2. ASSUME NEW k \in 1..Len(w) PROVE w[k].kind = "ssh" <=> k > s - a
      <3>1. a + k \in 1..n /\ w[k] = sent[a + k]
        BY <1>1, <1>2
      <3> QED
        BY <1>1, <1>3, <3>1
    <2> QED
      BY <1>2, <2>1, <2>2, SSHPartIs
  <1> HIDE DEF n, u, v, w
  <1>6. v \in Seq(Piece) /\ Len(v) = n - s /\ \A j \in 1..(n - s) : v[j] = sent[s + j]
    BY <1>1, <1>4 DEF IsPart
  <1>7. u \in Seq(Piece) /\ Len(u) = n - s /\ \A j \in 1..(n - s) : u[j] = w[s - a + j]
    BY <1>1, <1>2, <1>5 DEF IsPart
  <1>8. ASSUME NEW j \in 1..(n - s) PROVE u[j] = v[j]
    <2>1. s - a + j \in 1..(n - a) /\ a + (s - a + j) = s + j
      BY <1>1
    <2>2. w[s - a + j] = sent[s + j]
      BY <1>2, <2>1
    <2> QED
      BY <1>6, <1>7, <2>2
  <1>9. u = v
    BY <1>6, <1>7, <1>8
  <1> QED
    BY <1>9 DEF u, v, w

(***************************************************************************)
(* The SSH server's bytes reach SSH whole, in order and once, whatever the *)
(* proxies send before, wherever deadlines pass, and also when a limit of  *)
(* payload.go ends a header, a line, a body or the chain early.            *)
(***************************************************************************)
THEOREM SSHBytesAlwaysKept == PayloadSpec => []SSHBytesKept
  <1> DEFINE Inv == TooShort \/ \E s \in Nat : KeptInv(s)
  <1>1. PayloadInit => Inv
    BY KeptInit
  <1>2. Inv /\ [PayloadNext]_payloadVars => Inv'
    <2> SUFFICES ASSUME Inv, [PayloadNext]_payloadVars PROVE Inv'
      OBVIOUS
    <2>1. CASE TooShort
      <3>1. sent' = sent
        BY DEF PayloadNext, Client, Write, ReadPiece, StatusLine, StatusTimeout, StatusError,
               HeaderLine, DiscardPiece, ChunkSize, ChunkEnd, TrailerLine, ConsumeFails,
               DeadlinePasses, payloadVars, world
      <3> QED
        BY <2>1, <3>1 DEF TooShort
    <2>2. CASE \E s \in Nat : KeptInv(s)
      BY <2>2, KeptStep
    <2> QED
      BY <2>1, <2>2
  <1>3. Inv => SSHBytesKept
    <2> SUFFICES ASSUME Inv, result = "conn", Len(SSHPart(sent)) >= Len(Line("ssh", 0))
                 PROVE  SSHPart(Handed) = SSHPart(sent)
      BY DEF SSHBytesKept
    <2>1. Len(Line("ssh", 0)) = 2
      BY DEF Line
    <2>2. CASE TooShort
      BY <2>1, <2>2, Zenon DEF TooShort
    <2>3. CASE \E s \in Nat : KeptInv(s)
      <3>1. PICK s \in Nat : KeptInv(s)
        BY <2>3
      <3>2. WellFormed(sent, s) /\ \E a \in 0..s : IsPart(Handed, sent, a, Len(sent))
        BY <3>1 DEF KeptInv, Halted, Going
      <3> QED
        BY <3>2, SameSSH
    <2> QED
      BY <2>2, <2>3
  <1> QED
    BY <1>1, <1>2, <1>3, PTL DEF PayloadSpec

(***************************************************************************)
(* Where the client is when no deadline passes and no limit is met: the    *)
(* line in progress, behind the a-th piece, is the one it takes it for,    *)
(* and what it has counted are lines it has passed.                        *)
(***************************************************************************)
Passed(kinds, a) == Cardinality({k \in Heads(sent, kinds) : k =< a})

Says(kind, k, a) == \E j \in (k + 1)..a : sent[j].kind = kind

\* What the header lines between the k-th and the a-th piece have announced.
Noted(k, a) ==
    /\ chunked <=> Says("chunked", k, a)
    /\ \/ length = -1 /\ ~Says("length", k, a)
       \/ \E j \in (k + 1)..a : sent[j].kind = "length" /\ length = sent[j].n

SyncHeader(s, a) ==
    /\ sent[a + 1].at = "head" /\ lines =< Passed(HeaderKinds, a)
    /\ \E k, m \in 1..s :
         /\ Block(sent, s, k, m, HeaderKinds) /\ Announced(sent, s, k, m)
         /\ k =< a /\ a < m /\ Noted(k, a)

SyncFixed(s, a) == body \in Nat \ {0} /\ a + body =< s /\ Begins(sent, s, a + body)
SyncSize(s, a) == LineEnds(sent, s, a + 2, "size") /\ lines =< Passed({"size"}, a)
SyncChunk(s, a) ==
    /\ body \in Nat \ {0} /\ lines + 1 =< Passed({"size"}, a)
    /\ LineEnds(sent, s, a + body + 2, "blank") /\ LineEnds(sent, s, a + body + 4, "size")
SyncCrlf(s, a) ==
    /\ lines + 1 =< Passed({"size"}, a)
    /\ LineEnds(sent, s, a + 2, "blank") /\ LineEnds(sent, s, a + 4, "size")
SyncTrailer(s, a) ==
    /\ sent[a + 1].at = "head" /\ lines =< Passed(HeaderKinds, a)
    /\ \E k, m \in 1..s :
         /\ Block(sent, s, k, m, {"field"}) /\ Begins(sent, s, m)
         /\ k =< a /\ a < m

Sync(s, a) ==
    /\ place \in {"write", "status", "header", "fixed", "size", "chunk", "crlf", "trailer"}
    /\ place = "write" => a = 0 /\ skipped = 0
    /\ place = "status" => Begins(sent, s, a) /\ skipped =< Passed({"status"}, a)
    /\ place \notin {"write", "status"} => skipped + 1 =< Passed({"status"}, a)
    /\ place = "header" => SyncHeader(s, a)
    /\ place = "fixed" => SyncFixed(s, a)
    /\ place = "size" => SyncSize(s, a)
    /\ place = "chunk" => SyncChunk(s, a)
    /\ place = "crlf" => SyncCrlf(s, a)
    /\ place = "trailer" => SyncTrailer(s, a)

\* SSH gets the bytes of its server and no other ones.
Arrived(s) == place = "done" /\ result = "conn" /\ IsPart(Handed, sent, s, Len(sent))

OnCourse(s) ==
    /\ result = "none"
    /\ \E a \in 0..s, c \in 0..(s + 1) :
         /\ a =< c /\ ReadTo(a, c) /\ Sync(s, a)
         /\ ~Reading => a = c

SyncInv(s) ==
    /\ WellFormed(sent, s) /\ WithinLimits(sent)
    /\ result = "unsent" => place = "done"
    /\ wait /\ ~late /\ result # "unsent" =>
          /\ length \in Int /\ lines \in Nat /\ skipped \in Nat
          /\ ~expired /\ (Arrived(s) \/ OnCourse(s))

LEMMA PassedFacts ==
    ASSUME sent \in Seq(Piece), NEW kinds, NEW a \in Nat, NEW b \in Nat, a =< b
    PROVE  /\ Passed(kinds, a) \in Nat /\ Passed(kinds, b) \in Nat /\ Count(sent, kinds) \in Nat
           /\ Passed(kinds, a) =< Passed(kinds, b) /\ Passed(kinds, b) =< Count(sent, kinds)
           /\ \A j \in Heads(sent, kinds) :
                 a < j /\ j =< b => Passed(kinds, a) + 1 =< Passed(kinds, b)
  <1> DEFINE H == Heads(sent, kinds)
             A == {k \in H : k =< a}
             B == {k \in H : k =< b}
  <1>1. H \subseteq 1..Len(sent) /\ Len(sent) \in Nat
    BY DEF Heads
  <1>2. IsFiniteSet(1..Len(sent))
    BY <1>1, FS_Interval, 1 \in Int, Len(sent) \in Int
  <1>3. IsFiniteSet(H)
    BY <1>1, <1>2, FS_Subset
  <1>4. A \subseteq B /\ B \subseteq H
    <2>1. \A k \in H : k \in Int
      BY <1>1
    <2> HIDE DEF H
    <2> QED
      BY <2>1
  <1> HIDE DEF H
  <1>5. /\ IsFiniteSet(B) /\ Cardinality(B) =< Cardinality(H)
        /\ IsFiniteSet(A) /\ Cardinality(A) =< Cardinality(B)
    <2> HIDE DEF A, B
    <2>1. IsFiniteSet(B) /\ Cardinality(B) =< Cardinality(H)
      BY <1>3, <1>4, FS_Subset
    <2>2. IsFiniteSet(A) /\ Cardinality(A) =< Cardinality(B)
      BY <1>4, <2>1, FS_Subset
    <2> QED
      BY <2>1, <2>2
  <1>6. Cardinality(A) \in Nat /\ Cardinality(B) \in Nat /\ Cardinality(H) \in Nat
    BY <1>3, <1>5, FS_CardinalityType
  <1>7. ASSUME NEW j \in H, a < j, j =< b PROVE Cardinality(A) + 1 =< Cardinality(B)
    <2>1. j \in B /\ j \notin A /\ A \subseteq B \ {j}
      <3>1. j \in Int
        BY <1>1 DEF H
      <3> QED
        BY <1>4, <1>7, <3>1
    <2> HIDE DEF A, B
    <2>2. IsFiniteSet(B \ {j}) /\ Cardinality(B \ {j}) = Cardinality(B) - 1
      BY <1>5, <2>1, FS_RemoveElement, Zenon
    <2>3. Cardinality(A) =< Cardinality(B \ {j})
      BY <2>1, <2>2, FS_Subset
    <2> QED
      BY <1>6, <2>2, <2>3
  <1> QED
    BY <1>5, <1>6, <1>7, Zenon DEF Passed, Count, H

\* A head and a tail make a line, and lines are what they are made of.
LEMMA LineLaw ==
    ASSUME NEW s, WellFormed(sent, s), NEW k \in 1..s
    PROVE  /\ sent[k] \in Piece
           /\ sent[k].at = "head" => k < s /\ sent[k + 1] = [sent[k] EXCEPT !.at = "tail"]
           /\ sent[k].at = "tail" => k > 1 /\ sent[k - 1] = [sent[k] EXCEPT !.at = "head"]
  <1>1. s \in Nat /\ sent \in Seq(Piece) /\ s + 2 =< Len(sent)
    BY DEF WellFormed
  <1>2. k \in 1..Len(sent)
    BY <1>1
  <1>3. sent[k] \in Piece
    BY <1>1, <1>2
  <1> QED
    BY <1>3 DEF WellFormed

\* The head of a line that ends with the k + 2-nd piece.
LEMMA HeadOf ==
    ASSUME NEW s, WellFormed(sent, s), NEW k \in Nat, NEW kind, LineEnds(sent, s, k + 2, kind)
    PROVE  /\ k + 1 \in 1..s /\ k < s
           /\ sent[k + 1].at = "head" /\ sent[k + 1].kind = kind /\ sent[k + 1].n = sent[k + 2].n
           /\ \A kinds : kind \in kinds => k + 1 \in Heads(sent, kinds)
  <1>1. s \in Nat /\ k + 2 \in 1..s /\ sent \in Seq(Piece) /\ s + 2 =< Len(sent)
    BY DEF WellFormed, LineEnds
  <1> DEFINE q == sent[k + 2]
             p == sent[k + 1]
  <1>2. q \in Piece
    BY <1>1
  <1>3. p = [q EXCEPT !.at = "head"]
    <2> DEFINE j == k + 2
    <2>1. j \in 1..s /\ sent[j].at = "tail" /\ j - 1 = k + 1
      BY <1>1 DEF LineEnds
    <2> HIDE DEF j
    <2>2. sent[j - 1] = [sent[j] EXCEPT !.at = "head"]
      BY <2>1, LineLaw
    <2> QED
      BY <2>1, <2>2 DEF j
  <1>4. q.kind = kind
    BY DEF LineEnds
  <1> HIDE DEF q, p
  <1>5. p.at = "head" /\ p.kind = kind /\ p.n = q.n
    BY <1>2, <1>3, <1>4 DEF Piece
  <1>6. k + 1 \in 1..s /\ k < s /\ k + 1 \in DOMAIN sent
    BY <1>1
  <1> QED
    BY <1>5, <1>6 DEF p, q, Heads

\* A line that begins with its head.
LEMMA WholeLine ==
    ASSUME NEW s, WellFormed(sent, s), NEW a \in Nat, NEW c \in Nat, a =< c, c < Len(sent),
           ReadTo(a, c), a < s, sent[a + 1].at = "head", LineRead
    PROVE  /\ c = a + 1 /\ LineEnds(sent, s, a + 2, sent[a + 1].kind)
           /\ sent[a + 2].n = sent[a + 1].n
  <1>1. LineEnds(sent, s, c + 1, sent[a + 1].kind) /\ sent[c + 1].n = sent[a + 1].n
    BY LineEnd
  <1>2. sent[c + 1].at = "tail"
    BY <1>1 DEF LineEnds
  <1>3. c # a
    BY <1>2
  <1>4. s \in Nat /\ a + 1 \in 1..s
    BY DEF WellFormed
  <1>5. sent[a + 1 + 1].at = "tail"
    <2>1. sent[a + 1 + 1] = [sent[a + 1] EXCEPT !.at = "tail"] /\ sent[a + 1] \in Piece
      BY <1>4, LineLaw
    <2> QED
      BY <2>1 DEF Piece
  <1>6. ~(a + 1 + 1 =< c)
    <2>1. a + 1 + 1 \notin (a + 1)..c
      BY <1>5 DEF ReadTo
    <2> QED
      BY <2>1
  <1>7. c = a + 1 /\ c + 1 = a + 2
    BY <1>3, <1>6
  <1> QED
    BY <1>1, <1>7

\* The piece after a line feed is no line feed.
LEMMA HeadAfter ==
    ASSUME NEW s, WellFormed(sent, s), NEW k \in 1..s, sent[k].at = "tail", k + 1 =< s,
           sent[k + 1].at # "raw"
    PROVE  sent[k + 1].at = "head"
  <1> DEFINE j == k + 1
  <1>1. s \in Nat /\ j \in 1..s /\ j - 1 = k
    BY DEF WellFormed
  <1> HIDE DEF j
  <1>2. sent[j] \in Piece /\ (sent[j].at = "tail" => sent[k] = [sent[j] EXCEPT !.at = "head"])
    BY <1>1, LineLaw
  <1>3. sent[j].at # "tail"
    BY <1>2 DEF Piece
  <1> QED
    BY <1>2, <1>3 DEF Piece, j

(***************************************************************************)
(* The line of a block that begins behind the a-th piece: blank, and the   *)
(* last one, or of the block's kinds, and another one follows it.          *)
(***************************************************************************)
LEMMA BlockHead ==
    ASSUME NEW s, WellFormed(sent, s), NEW k \in 1..s, NEW m \in 1..s, NEW kinds, "blank" \notin kinds,
           Block(sent, s, k, m, kinds), NEW a \in Nat, k =< a, a < m, sent[a + 1].at = "head",
           LineEnds(sent, s, a + 2, sent[a + 1].kind)
    PROVE  \/ sent[a + 1].kind = "blank" /\ a + 2 = m
           \/ /\ sent[a + 1].kind \in kinds /\ a + 2 < m
              /\ sent[a + 1].kind # "blank" /\ sent[a + 3].at = "head"
  <1>1. s \in Nat /\ a + 2 \in 1..s /\ k \in Nat /\ m \in Nat /\ m - 2 \in Nat
    BY DEF WellFormed, LineEnds, Block
  <1>2. sent[m].at = "tail" /\ sent[a + 2].at = "tail"
    BY <1>1 DEF Block, LineEnds
  <1>3. sent[m - 2 + 1].at = "head" /\ sent[m - 2 + 1].kind = "blank"
    <2> DEFINE e == m - 2
    <2>1. e \in Nat /\ e + 2 = m
      BY <1>1
    <2> HIDE DEF e
    <2>2. LineEnds(sent, s, e + 2, "blank")
      BY <2>1 DEF Block
    <2>3. sent[e + 1].at = "head" /\ sent[e + 1].kind = "blank"
      BY <2>1, <2>2, HeadOf
    <2> QED
      BY <2>3 DEF e
  <1>4. a + 1 # m /\ a + 2 # m - 2 + 1
    BY <1>2, <1>3
  <1>5. CASE a + 2 = m
    <2>1. a + 1 = m - 2 + 1
      BY <1>1, <1>5
    <2> QED
      BY <1>3, <1>5, <2>1
  <1>6. CASE a + 2 # m
    <2>1. a + 2 < m /\ a + 1 \in (k + 1)..(m - 2) /\ a + 3 \in (k + 1)..m /\ a + 2 + 1 = a + 3 /\ a + 3 =< s
      BY <1>1, <1>4, <1>6
    <2>2. sent[a + 1].kind \in kinds /\ sent[a + 3].at # "raw"
      BY <2>1 DEF Block
    <2>3. sent[a + 2 + 1].at = "head"
      <3>1. sent[a + 2 + 1].at # "raw" /\ a + 2 + 1 =< s
        BY <2>1, <2>2
      <3> QED
        BY <1>1, <1>2, <3>1, HeadAfter
    <2> QED
      BY <2>1, <2>2, <2>3
  <1> QED
    BY <1>5, <1>6

\* The first line of a block begins with its head.
LEMMA BlockBegins ==
    ASSUME NEW s, WellFormed(sent, s), NEW k \in 1..s, NEW m \in 1..s, NEW kinds,
           Block(sent, s, k, m, kinds), sent[k].at = "tail"
    PROVE  sent[k + 1].at = "head"
  <1>1. s \in Nat /\ k + 1 \in (k + 1)..m /\ k + 1 =< s
    BY DEF WellFormed, Block
  <1>2. sent[k + 1].at # "raw"
    BY <1>1 DEF Block
  <1> QED
    BY <1>1, <1>2, HeadAfter

\* The step goes on: no deadline has passed, and none passes.
Undisturbed(s) ==
    /\ WellFormed(sent, s) /\ WithinLimits(sent)
    /\ sent' = sent /\ length' \in Int /\ lines' \in Nat /\ skipped \in Nat
    /\ ~expired /\ result = "none"

LEMMA SyncGoto ==
    ASSUME NEW s, Undisturbed(s), NEW a \in 0..s, NEW c \in 0..(s + 1), a =< c, ReadTo(a, c)',
           Sync(s, a)', (~Reading => a = c)', UNCHANGED <<skipped, expired, result>>
    PROVE  SyncInv(s)'
  <1>1. OnCourse(s)'
    BY DEF OnCourse, Undisturbed
  <1> QED
    BY <1>1 DEF SyncInv, Undisturbed

\* Another response, or SSH, begins behind the b-th piece.
LEMMA SyncNext ==
    ASSUME NEW s, Undisturbed(s), NEW b \in 0..s, ReadTo(b, b)', NextResponse,
           Begins(sent, s, b), skipped + 1 =< Passed({"status"}, b)
    PROVE  SyncInv(s)'
  <1>1. s \in Nat /\ sent \in Seq(Piece) /\ sent' = sent /\ skipped \in Nat /\ b \in Nat
    BY DEF Undisturbed, WellFormed
  <1>2. skipped + 1 < MaxResponses
    <2> DEFINE p == Passed({"status"}, b)
               q == Count(sent, {"status"})
    <2>1. p \in Nat /\ q \in Nat /\ p =< q
      BY <1>1, PassedFacts
    <2>2. q < MaxResponses /\ skipped + 1 =< p /\ MaxResponses \in Nat
      BY PayloadAssumption DEF Undisturbed, WithinLimits
    <2> HIDE DEF p, q
    <2> QED
      BY <1>1, <2>1, <2>2
  <1>3. place' = "status" /\ skipped' = skipped + 1 /\ expired' = FALSE /\ result' = result
    BY <1>2 DEF NextResponse
  <1>4. Sync(s, b)'
    <2>1. Passed({"status"}, b)' = Passed({"status"}, b)
      BY <1>1 DEF Passed
    <2> QED
      BY <1>1, <1>3, <2>1 DEF Sync
  <1>5. OnCourse(s)'
    <2>1. b \in 0..(s + 1) /\ b =< b
      BY <1>1
    <2> QED
      BY <1>3, <1>4, <2>1 DEF OnCourse, Undisturbed, Reading
  <1>6. skipped' \in Nat
    BY <1>1, <1>3
  <1> QED
    BY <1>3, <1>5, <1>6 DEF SyncInv, Undisturbed

LEMMA SyncWhere ==
    ASSUME NEW s, SyncInv(s), wait, ~late, place # "done", result # "unsent"
    PROVE  /\ WellFormed(sent, s) /\ s \in Nat /\ sent \in Seq(Piece) /\ s + 2 =< Len(sent)
           /\ WithinLimits(sent) /\ ~expired /\ result = "none"
           /\ length \in Int /\ lines \in Nat /\ skipped \in Nat
           /\ \E a \in Nat, c \in Nat :
                /\ a =< s /\ c =< s + 1 /\ a =< c /\ c < Len(sent)
                /\ ReadTo(a, c) /\ Sync(s, a) /\ (~Reading => a = c)
  <1>1. WellFormed(sent, s) /\ s \in Nat /\ sent \in Seq(Piece) /\ s + 2 =< Len(sent)
    BY DEF SyncInv, WellFormed
  <1>2. OnCourse(s) /\ ~expired
    BY DEF SyncInv, Arrived
  <1>3. PICK a \in 0..s, c \in 0..(s + 1) :
           a =< c /\ ReadTo(a, c) /\ Sync(s, a) /\ (~Reading => a = c)
    BY <1>2 DEF OnCourse
  <1>4. a \in Nat /\ c \in Nat /\ a =< s /\ c =< s + 1 /\ c < Len(sent)
    BY <1>1
  <1> QED
    BY <1>1, <1>2, <1>3, <1>4 DEF OnCourse, SyncInv

\* The client is on course; the state is one that no deadline has disturbed.
OnWay(s, a, c) ==
    /\ WellFormed(sent, s) /\ s \in Nat /\ sent \in Seq(Piece) /\ s + 2 =< Len(sent)
    /\ WithinLimits(sent) /\ ~expired /\ result = "none"
    /\ length \in Int /\ lines \in Nat /\ skipped \in Nat
    /\ a \in Nat /\ c \in Nat /\ a =< s /\ c =< s + 1 /\ a =< c /\ c < Len(sent)
    /\ ReadTo(a, c) /\ Sync(s, a) /\ (~Reading => a = c)

LEMMA SyncPiece ==
    ASSUME NEW s, NEW a, NEW c, OnWay(s, a, c), ReadPiece
    PROVE  SyncInv(s)'
  <1>1. /\ UNCHANGED <<sent, place, chunked, length, body, lines, skipped, expired, result>>
        /\ line' = Longer /\ unread' = Tail(unread) /\ ~Ends /\ Reading
    BY DEF ReadPiece, world, response
  <1>2. /\ WellFormed(sent, s) /\ s \in Nat /\ sent \in Seq(Piece) /\ s + 2 =< Len(sent)
        /\ a \in Nat /\ c \in Nat /\ a =< s /\ c =< s + 1 /\ a =< c /\ c < Len(sent)
        /\ ReadTo(a, c) /\ Sync(s, a)
    BY DEF OnWay
  <1>3. sent[c + 1].at # "tail"
    BY <1>1, <1>2, UnreadFacts DEF Ends
  <1>4. ReadTo(a, c + 1)'
    BY <1>1, <1>2, <1>3, Forward
  <1>5. a \in 0..s /\ c + 1 \in 0..(s + 1) /\ a =< c + 1
    <2>1. sent[s + 2].at = "tail"
      BY <1>2 DEF WellFormed
    <2>2. c + 1 # s + 2
      BY <1>3, <2>1
    <2> QED
      BY <1>2, <2>2
  <1>6. Sync(s, a)' /\ Reading'
    BY <1>1, <1>2
    DEF Sync, SyncHeader, SyncFixed, SyncSize, SyncChunk, SyncCrlf, SyncTrailer, Passed, Says, Noted,
        Reading
  <1>7. Undisturbed(s)
    BY <1>1 DEF Undisturbed, OnWay
  <1> QED
    BY <1>1, <1>4, <1>5, <1>6, <1>7, SyncGoto

LEMMA SyncWrite ==
    ASSUME NEW s, NEW a, NEW c, OnWay(s, a, c), Write, wait, result' # "unsent"
    PROVE  SyncInv(s)'
  <1>1. /\ place = "write" /\ UNCHANGED <<sent, unread, length, lines>> /\ Goto("status")
    BY DEF Write, Return, world, response
  <1>2. line' = << >> /\ place' = "status" /\ UNCHANGED <<skipped, expired, result>>
    BY <1>1 DEF Goto
  <1>3. /\ WellFormed(sent, s) /\ s \in Nat /\ sent \in Seq(Piece) /\ a = 0 /\ c = 0 /\ ReadTo(a, c)
        /\ skipped = 0
    BY <1>1 DEF OnWay, Sync, Reading
  <1>4. ReadTo(0, 0)'
    BY <1>1, <1>2, <1>3, Standing
  <1>5. Sync(s, 0)'
    <2>1. Begins(sent, s, 0)
      BY <1>3 DEF WellFormed
    <2>2. Passed({"status"}, 0) \in Nat
      BY <1>3, PassedFacts
    <2>3. Passed({"status"}, 0)' = Passed({"status"}, 0)
      BY <1>1 DEF Passed
    <2>4. skipped' =< Passed({"status"}, 0)'
      BY <1>2, <1>3, <2>2, <2>3
    <2> QED
      BY <1>1, <1>2, <2>1, <2>4 DEF Sync
  <1>6. Undisturbed(s)
    BY <1>1 DEF Undisturbed, OnWay
  <1>7. 0 \in 0..s /\ 0 \in 0..(s + 1) /\ 0 =< 0 /\ 0 = 0
    BY <1>3
  <1> QED
    BY <1>2, <1>4, <1>5, <1>6, <1>7, SyncGoto

LEMMA SyncStatus ==
    ASSUME NEW s, NEW a, NEW c, OnWay(s, a, c), StatusLine
    PROVE  SyncInv(s)'
  <1>1. place = "status" /\ LineRead /\ unread' = Rest /\ sent' = sent
    BY DEF StatusLine, world
  <1>2. /\ WellFormed(sent, s) /\ s \in Nat /\ sent \in Seq(Piece) /\ s + 2 =< Len(sent)
        /\ a \in Nat /\ c \in Nat /\ a =< s /\ c =< s + 1 /\ a =< c /\ c < Len(sent)
        /\ ReadTo(a, c) /\ Begins(sent, s, a) /\ skipped =< Passed({"status"}, a) /\ skipped \in Nat
    BY <1>1 DEF OnWay, Sync
  <1>3. /\ TheLine = Longer /\ unread' = Tail(unread)
        /\ Kind(TheLine) = sent[a + 1].kind /\ Number(TheLine) = sent[a + 1].n
    BY <1>1, <1>2, LineFacts
  <1>4. line' = << >> => ReadTo(c + 1, c + 1)'
    BY <1>1, <1>2, <1>3, Forward
  <1>5. CASE Kind(TheLine) = "status"
    <2>1. chunked' = FALSE /\ length' = -1 /\ lines' = 0 /\ Goto("header")
      BY <1>5 DEF StatusLine
    <2>2. a # s
      <3>1. s + 1 \in 1..Len(sent)
        BY <1>2
      <3>2. sent[s + 1].kind = "ssh"
        BY <1>2, <3>1 DEF WellFormed
      <3> QED
        BY <1>3, <1>5, <3>2
    <2>3. LineEnds(sent, s, a + 2, "status")
      BY <1>2, <2>2 DEF Begins
    <2>4. /\ a < s /\ sent[a + 1].at = "head" /\ a + 1 \in Heads(sent, {"status"})
      BY <1>2, <2>3, HeadOf
    <2>5. c = a + 1
      BY <1>1, <1>2, <2>4, WholeLine
    <2> DEFINE b == a + 2
    <2>6. b = c + 1 /\ b \in 1..s /\ sent[b].at = "tail" /\ b \in Nat /\ a =< b /\ a + 1 =< b
      BY <1>2, <2>3, <2>5 DEF LineEnds
    <2>7. PICK m \in 1..s : Block(sent, s, b, m, HeaderKinds) /\ Announced(sent, s, b, m)
      BY <1>2, <2>3, <2>6 DEF WellFormed
    <2> HIDE DEF b
    <2>8. ReadTo(b, b)' /\ place' = "header" /\ UNCHANGED <<skipped, expired, result>>
      BY <1>4, <2>1, <2>6 DEF Goto
    <2>9. sent[b + 1].at = "head"
      BY <1>2, <2>6, <2>7, BlockBegins
    <2>10. skipped + 1 =< Passed({"status"}, b) /\ 0 =< Passed(HeaderKinds, b)
      <3> DEFINE p == Passed({"status"}, a)
                 q == Passed({"status"}, b)
                 r == Passed(HeaderKinds, b)
      <3>1. p \in Nat /\ q \in Nat /\ p + 1 =< q
        <4>1. a < a + 1 /\ a + 1 =< b
          BY <1>2, <2>6
        <4> QED
          BY <1>2, <2>4, <2>6, <4>1, PassedFacts
      <3>2. r \in Nat
        BY <1>2, <2>6, PassedFacts
      <3>3. skipped =< p /\ skipped \in Nat
        BY <1>2
      <3> HIDE DEF p, q, r
      <3> QED
        BY <3>1, <3>2, <3>3 DEF q, r
    <2>11. Noted(b, b)'
      <3>1. (b + 1)..b = {}
        BY <2>6
      <3> QED
        BY <2>1, <3>1 DEF Noted, Says
    <2>12. SyncHeader(s, b)'
      <3>1. b < m /\ b =< b
        BY <2>6, <2>7 DEF Block
      <3> QED
        BY <1>1, <2>1, <2>6, <2>7, <2>9, <2>10, <2>11, <3>1 DEF SyncHeader, Passed
    <2>13. Sync(s, b)'
      BY <1>1, <2>8, <2>10, <2>12 DEF Sync, Passed
    <2>14. Undisturbed(s) /\ b \in 0..s /\ b \in 0..(s + 1) /\ b =< b
      BY <1>1, <1>2, <2>1, <2>6 DEF Undisturbed, OnWay
    <2> QED
      BY <2>8, <2>13, <2>14, SyncGoto
  <1>6. CASE Kind(TheLine) # "status"
    <2>1. Return("conn", Preloaded(TheLine)) /\ UNCHANGED <<length, lines>>
      BY <1>6 DEF StatusLine
    <2>2. /\ place' = "done" /\ result' = "conn" /\ replay' = Longer /\ line' = << >>
          /\ expired' = FALSE /\ skipped' = skipped
      BY <1>3, <2>1 DEF Return, Preloaded
    <2>3. a = s
      <3>1. ~LineEnds(sent, s, a + 2, "status")
        BY <1>2, <1>3, <1>6, HeadOf
      <3> QED
        BY <1>2, <3>1 DEF Begins
    <2>4. ReadTo(c + 1, c + 1)'
      BY <1>4, <2>2
    <2>5. /\ Longer \in Seq(Piece) /\ Len(Longer) = c + 1 - a
          /\ \A k \in 1..(c + 1 - a) : Longer[k] = sent[a + k]
      BY <1>2, UnreadFacts
    <2>6. IsPart(Handed', sent', a, Len(sent'))
      <3>1. c + 1 \in Nat /\ a =< c + 1 /\ c + 1 =< Len(sent)
        BY <1>2
      <3>2. /\ replay' \in Seq(Piece) /\ Len(replay') = c + 1 - a
            /\ \A k \in 1..(c + 1 - a) : replay'[k] = sent[a + k]
        BY <2>2, <2>5, Zenon
      <3>3. sent \in Seq(Piece) /\ sent' = sent
        BY <1>1, <1>2
      <3> DEFINE d == c + 1
      <3>4. d \in Nat /\ a =< d /\ d =< Len(sent)
        BY <3>1
      <3>5. Len(replay') = d - a /\ \A k \in 1..(d - a) : replay'[k] = sent[a + k]
        BY <1>2, <3>2
      <3>6. ReadTo(d, d)'
        BY <2>4
      <3> HIDE DEF d
      <3> QED
        BY <1>2, <3>2, <3>3, <3>4, <3>5, <3>6, HandsOver
    <2>7. Arrived(s)'
      BY <2>2, <2>3, <2>6 DEF Arrived
    <2> QED
      BY <1>1, <2>1, <2>2, <2>7 DEF SyncInv, OnWay
  <1> QED
    BY <1>5, <1>6

\* What the line that ends with the a + 2-nd piece adds to the announcement.
LEMMA NotedStep ==
    ASSUME NEW k \in Nat, NEW a \in Nat, k =< a, Noted(k, a), sent' = sent,
           sent[a + 2].kind = sent[a + 1].kind, sent[a + 2].n = sent[a + 1].n,
           chunked' = (chunked \/ sent[a + 1].kind = "chunked"),
           length' = IF sent[a + 1].kind = "length" THEN sent[a + 1].n ELSE length
    PROVE  Noted(k, a + 2)'
  <1>1. /\ \A j \in (k + 1)..a : j \in (k + 1)..(a + 2)
        /\ a + 1 \in (k + 1)..(a + 2)
        /\ \A j \in (k + 1)..(a + 2) : j \in (k + 1)..a \/ j = a + 1 \/ j = a + 2
    OBVIOUS
  <1>2. \A kind : Says(kind, k, a + 2) <=> Says(kind, k, a) \/ sent[a + 1].kind = kind
    BY <1>1 DEF Says
  <1>3. chunked' <=> Says("chunked", k, a + 2)
    BY <1>2 DEF Noted
  <1>4. \/ length' = -1 /\ ~Says("length", k, a + 2)
        \/ \E j \in (k + 1)..(a + 2) : sent[j].kind = "length" /\ length' = sent[j].n
    <2>1. CASE sent[a + 1].kind = "length"
      BY <1>1, <2>1
    <2>2. CASE sent[a + 1].kind # "length"
      <3>1. length' = length
        BY <2>2
      <3>2. CASE length = -1 /\ ~Says("length", k, a)
        BY <1>2, <2>2, <3>1, <3>2
      <3>3. CASE \E j \in (k + 1)..a : sent[j].kind = "length" /\ length = sent[j].n
        BY <1>1, <3>1, <3>3
      <3> QED
        BY <3>2, <3>3 DEF Noted
    <2> QED
      BY <2>1, <2>2
  <1> QED
    BY <1>3, <1>4 DEF Noted, Says

LEMMA SyncHeaderLine ==
    ASSUME NEW s, NEW a, NEW c, OnWay(s, a, c), HeaderLine
    PROVE  SyncInv(s)'
  <1>1. place = "header" /\ LineRead /\ unread' = Rest /\ sent' = sent
    BY DEF HeaderLine, world
  <1>2. /\ WellFormed(sent, s) /\ s \in Nat /\ sent \in Seq(Piece) /\ s + 2 =< Len(sent)
        /\ a \in Nat /\ c \in Nat /\ a =< s /\ c =< s + 1 /\ a =< c /\ c < Len(sent)
        /\ ReadTo(a, c) /\ SyncHeader(s, a) /\ skipped + 1 =< Passed({"status"}, a)
        /\ skipped \in Nat /\ lines \in Nat /\ length \in Int
    BY <1>1 DEF OnWay, Sync
  <1>3. PICK k \in 1..s, m \in 1..s :
          /\ Block(sent, s, k, m, HeaderKinds) /\ Announced(sent, s, k, m)
          /\ k =< a /\ a < m /\ Noted(k, a)
    BY <1>2 DEF SyncHeader
  <1>4. sent[a + 1].at = "head" /\ lines =< Passed(HeaderKinds, a) /\ a < s
    BY <1>2, <1>3 DEF SyncHeader
  <1>5. /\ unread' = Tail(unread)
        /\ Kind(TheLine) = sent[a + 1].kind /\ Number(TheLine) = sent[a + 1].n
    BY <1>1, <1>2, LineFacts
  <1>6. line' = << >> => ReadTo(c + 1, c + 1)'
    BY <1>1, <1>2, <1>5, Forward
  <1>7. c = a + 1 /\ LineEnds(sent, s, a + 2, sent[a + 1].kind) /\ sent[a + 2].n = sent[a + 1].n
    BY <1>1, <1>2, <1>4, WholeLine
  <1>8. c + 1 = a + 2 /\ a + 2 \in 1..s /\ sent[a + 2].kind = sent[a + 1].kind
    BY <1>2, <1>7 DEF LineEnds
  <1>9. /\ chunked' = (chunked \/ sent[a + 1].kind = "chunked")
        /\ length' = IF sent[a + 1].kind = "length" THEN sent[a + 1].n ELSE length
    BY <1>5 DEF HeaderLine
  <1>10. Noted(k, a + 2)'
    <2>1. k \in Nat /\ a \in Nat /\ k =< a /\ Noted(k, a)
      BY <1>2, <1>3
    <2>2. sent[a + 2].kind = sent[a + 1].kind /\ sent[a + 2].n = sent[a + 1].n
      BY <1>7, <1>8
    <2> QED
      BY <1>1, <1>9, <2>1, <2>2, NotedStep, Zenon
  <1>11. \/ sent[a + 1].kind = "blank" /\ a + 2 = m
         \/ /\ sent[a + 1].kind \in HeaderKinds /\ a + 2 < m
            /\ sent[a + 1].kind # "blank" /\ sent[a + 3].at = "head"
    <2>1. "blank" \notin HeaderKinds
      BY DEF HeaderKinds
    <2> QED
      BY <1>2, <1>3, <1>4, <1>7, <2>1, BlockHead
  <1>12. length' \in Int /\ lines' \in Nat
    <2>1. sent[a + 1] \in Piece
      BY <1>2
    <2>2. sent[a + 1].n \in Int
      BY <2>1 DEF Piece
    <2> QED
      BY <1>2, <1>9, <2>2 DEF HeaderLine
  <1> DEFINE b == a + 2
  <1>13. /\ Undisturbed(s) /\ b \in 0..s /\ b \in 0..(s + 1) /\ b =< b /\ b \in Nat /\ a =< b
         /\ b = c + 1 /\ k =< b
    BY <1>1, <1>2, <1>3, <1>8, <1>12 DEF Undisturbed, OnWay
  <1>14. skipped + 1 =< Passed({"status"}, b) /\ Passed({"status"}, b)' = Passed({"status"}, b)
    <2> DEFINE p == Passed({"status"}, a)
               q == Passed({"status"}, b)
    <2>1. p \in Nat /\ q \in Nat /\ p =< q
      BY <1>2, <1>13, PassedFacts
    <2>2. q' = q
      BY <1>1 DEF Passed
    <2> HIDE DEF p, q
    <2>3. skipped + 1 =< p
      BY <1>2 DEF p
    <2> QED
      BY <1>2, <2>1, <2>2, <2>3 DEF q
  <1>15. CASE sent[a + 1].kind # "blank"
    <2>1. sent[a + 1].kind \in HeaderKinds /\ b < m /\ sent[a + 3].at = "head" /\ b + 1 = a + 3
      BY <1>2, <1>11, <1>15
    <2>2. a + 1 \in Heads(sent, HeaderKinds)
      <3>1. a + 1 \in DOMAIN sent
        BY <1>2
      <3> QED
        BY <1>4, <2>1, <3>1 DEF Heads
    <2> DEFINE p == Passed(HeaderKinds, a)
               q == Passed(HeaderKinds, b)
               r == Count(sent, HeaderKinds)
    <2>3. p \in Nat /\ q \in Nat /\ r \in Nat /\ p + 1 =< q /\ q =< r
      <3>1. a < a + 1 /\ a + 1 =< b
        BY <1>2
      <3> QED
        BY <1>2, <1>13, <2>2, <3>1, PassedFacts
    <2>4. r < MaxHeaderLines /\ MaxHeaderLines \in Nat /\ lines =< p
      BY <1>4, PayloadAssumption DEF OnWay, WithinLimits, HeaderKinds
    <2>5. q' = q
      BY <1>1 DEF Passed
    <2> HIDE DEF p, q, r
    <2>6. lines + 1 < MaxHeaderLines /\ lines + 1 =< q
      BY <1>2, <2>3, <2>4
    <2>7. lines' = lines + 1 /\ Goto("header")
      BY <1>5, <1>15, <2>6 DEF HeaderLine
    <2>8. ReadTo(b, b)' /\ place' = "header" /\ UNCHANGED <<skipped, expired, result>>
      BY <1>6, <1>13, <2>7 DEF Goto
    <2>9. lines' =< Passed(HeaderKinds, b)'
      BY <2>5, <2>6, <2>7 DEF q
    <2>10. SyncHeader(s, b)'
      BY <1>1, <1>3, <1>10, <1>13, <2>1, <2>9 DEF SyncHeader
    <2>11. Sync(s, b)'
      BY <1>14, <2>8, <2>10 DEF Sync
    <2> QED
      BY <1>13, <2>8, <2>11, SyncGoto
  <1>16. CASE sent[a + 1].kind = "blank"
    <2>1. b = m
      BY <1>11, <1>16, Zenon DEF b
    <2>2. lines' = 0
      BY <1>5, <1>16 DEF HeaderLine
    <2>3. \A kind : Says(kind, k, b)' <=> \E j \in (k + 1)..m : sent[j].kind = kind
      BY <1>1, <2>1 DEF Says
    <2>4. /\ chunked' <=> \E j \in (k + 1)..m : sent[j].kind = "chunked"
          /\ \/ length' = -1 /\ ~\E j \in (k + 1)..m : sent[j].kind = "length"
             \/ \E j \in (k + 1)..m : sent[j].kind = "length" /\ length' = sent[j].n
      <3>1. /\ chunked' <=> Says("chunked", k, b)'
            /\ \/ length' = -1 /\ ~Says("length", k, b)'
               \/ \E j \in (k + 1)..b : sent[j].kind = "length" /\ length' = sent[j].n
        BY <1>1, <1>10 DEF Noted
      <3> HIDE DEF b
      <3> QED
        BY <2>1, <2>3, <3>1
    <2>5. CASE chunked' /\ Goto("size")
      <3>1. ReadTo(b, b)' /\ place' = "size" /\ UNCHANGED <<skipped, expired, result>>
        BY <1>6, <1>13, <2>5 DEF Goto
      <3>2. LineEnds(sent, s, b + 2, "size")
        BY <1>3, <2>1, <2>4, <2>5 DEF Announced
      <3>3. lines' =< Passed({"size"}, b)'
        <4>1. Passed({"size"}, b) \in Nat
          BY <1>2, <1>13, PassedFacts
        <4>2. Passed({"size"}, b)' = Passed({"size"}, b)
          BY <1>1 DEF Passed
        <4> HIDE DEF b
        <4> QED
          BY <2>2, <4>1, <4>2
      <3>4. SyncSize(s, b)'
        BY <1>1, <3>2, <3>3 DEF SyncSize
      <3>5. Sync(s, b)'
        BY <1>14, <3>1, <3>4 DEF Sync
      <3> QED
        BY <1>13, <3>1, <3>5, SyncGoto
    <2>6. CASE ~chunked' /\ length' > 0 /\ Goto("fixed") /\ body' = Capped(length')
      <3>1. ReadTo(b, b)' /\ place' = "fixed" /\ UNCHANGED <<skipped, expired, result>>
        BY <1>6, <1>13, <2>6 DEF Goto
      <3>2. PICK j \in (k + 1)..m : sent[j].kind = "length" /\ length' = sent[j].n
        BY <2>4, <2>6
      <3>3. m + sent[j].n =< s /\ Begins(sent, s, m + sent[j].n)
        BY <1>3, <3>2 DEF Announced
      <3>4. sent[j].n =< MaxBody
        <4>1. j \in DOMAIN sent
          BY <1>2, <3>2
        <4> QED
          BY <3>2, <4>1 DEF OnWay, WithinLimits
      <3> DEFINE n == sent[j].n
      <3>5. body' = n /\ n \in Nat \ {0}
        <4>1. length' = n /\ length' \in Int /\ length' > 0
          BY <1>12, <2>6, <3>2
        <4>2. ~(length' > MaxBody)
          BY <3>4, <4>1, PayloadAssumption
        <4> QED
          BY <2>6, <4>1, <4>2 DEF Capped
      <3> HIDE DEF n
      <3>6. SyncFixed(s, b)'
        BY <1>1, <2>1, <3>3, <3>5 DEF SyncFixed, n
      <3>7. Sync(s, b)'
        BY <1>14, <3>1, <3>6 DEF Sync
      <3> QED
        BY <1>13, <3>1, <3>7, SyncGoto
    <2>7. CASE ~chunked' /\ length' <= 0 /\ NextResponse
      <3>1. ReadTo(b, b)'
        BY <1>6, <1>13, <2>7 DEF NextResponse, Verdict, Return
      <3>2. Begins(sent, s, m)
        <4>1. CASE \E j \in (k + 1)..m : sent[j].kind = "length" /\ length' = sent[j].n
          <5>1. PICK j \in (k + 1)..m : sent[j].kind = "length" /\ length' = sent[j].n
            BY <4>1
          <5>2. sent[j].n = 0
            <6>1. j \in 1..Len(sent)
              BY <1>2
            <6>2. sent[j] \in Piece
              BY <1>2, <6>1
            <6>3. sent[j].n \in Nat
              BY <6>2 DEF Piece
            <6> QED
              BY <2>7, <5>1, <6>3
          <5>3. m + 0 = m
            BY <1>3
          <5> QED
            BY <1>3, <5>1, <5>2, <5>3 DEF Announced
        <4>2. CASE ~\E j \in (k + 1)..m : sent[j].kind = "length"
          BY <1>3, <2>4, <2>7, <4>2 DEF Announced
        <4> QED
          BY <2>4, <4>1, <4>2
      <3> QED
        BY <1>13, <1>14, <2>1, <2>7, <3>1, <3>2, SyncNext
    <2> QED
      BY <1>5, <1>16, <2>5, <2>6, <2>7 DEF HeaderLine
  <1> QED
    BY <1>15, <1>16

LEMMA SyncDiscard ==
    ASSUME NEW s, NEW a, NEW c, OnWay(s, a, c), DiscardPiece
    PROVE  SyncInv(s)'
  <1>1. /\ place \in {"fixed", "chunk"} /\ unread' = Tail(unread) /\ body' = body - 1
        /\ UNCHANGED <<sent, length, lines>>
    BY DEF DiscardPiece, world
  <1>2. /\ WellFormed(sent, s) /\ s \in Nat /\ sent \in Seq(Piece) /\ s + 2 =< Len(sent)
        /\ a \in Nat /\ a = c /\ a < Len(sent) /\ ReadTo(a, c)
        /\ skipped + 1 =< Passed({"status"}, a) /\ skipped \in Nat /\ lines \in Nat
    BY <1>1 DEF OnWay, Sync, Reading
  <1> DEFINE b == a + 1
  <1>3. line' = << >> => ReadTo(b, b)'
    <2>1. c \in Nat /\ a =< c /\ c < Len(sent)
      BY <1>2
    <2>2. line' = << >> => ReadTo(c + 1, c + 1)'
      BY <1>1, <1>2, <2>1, Forward
    <2> QED
      BY <1>2, <2>2
  <1>4. body \in Nat \ {0} /\ a + body =< s
    <2>1. CASE place = "fixed"
      BY <2>1 DEF OnWay, Sync, SyncFixed
    <2>2. CASE place = "chunk"
      <3>1. body \in Nat \ {0} /\ a + body + 2 \in 1..s
        BY <2>2 DEF OnWay, Sync, SyncChunk, LineEnds
      <3> QED
        BY <1>2, <3>1
    <2> QED
      BY <1>1, <2>1, <2>2
  <1>5. Undisturbed(s) /\ b \in 0..s /\ b \in 0..(s + 1) /\ b =< b /\ b \in Nat /\ a =< b
    BY <1>1, <1>2, <1>4 DEF Undisturbed, OnWay
  <1>6. /\ skipped + 1 =< Passed({"status"}, b) /\ Passed({"status"}, b)' = Passed({"status"}, b)
        /\ Passed({"size"}, b)' = Passed({"size"}, b)
        /\ Passed({"size"}, a) \in Nat /\ Passed({"size"}, b) \in Nat
        /\ Passed({"size"}, a) =< Passed({"size"}, b)
    <2> DEFINE p == Passed({"status"}, a)
               q == Passed({"status"}, b)
    <2>1. p \in Nat /\ q \in Nat /\ p =< q
      BY <1>2, <1>5, PassedFacts
    <2>2. q' = q /\ Passed({"size"}, b)' = Passed({"size"}, b)
      BY <1>1 DEF Passed
    <2>3. /\ Passed({"size"}, a) \in Nat /\ Passed({"size"}, b) \in Nat
          /\ Passed({"size"}, a) =< Passed({"size"}, b)
      BY <1>2, <1>5, PassedFacts
    <2> HIDE DEF p, q
    <2>4. skipped + 1 =< p
      BY <1>2 DEF p
    <2> QED
      BY <1>2, <2>1, <2>2, <2>3, <2>4 DEF q
  <1>7. ASSUME place = "chunk"
        PROVE  /\ lines' + 1 =< Passed({"size"}, b)'
               /\ LineEnds(sent, s, a + body + 2, "blank") /\ LineEnds(sent, s, a + body + 4, "size")
    <2> DEFINE p == Passed({"size"}, a)
               q == Passed({"size"}, b)
    <2>1. /\ lines + 1 =< p
          /\ LineEnds(sent, s, a + body + 2, "blank") /\ LineEnds(sent, s, a + body + 4, "size")
      BY <1>7 DEF OnWay, Sync, SyncChunk
    <2>2. q' = q /\ p \in Nat /\ q \in Nat /\ p =< q
      BY <1>6
    <2> HIDE DEF p, q
    <2>3. lines' + 1 =< q'
      BY <1>1, <1>2, <2>1, <2>2
    <2> QED
      BY <2>1, <2>3 DEF q
  <1>8. CASE body > 1 /\ Goto(place)
    <2>1. ReadTo(b, b)' /\ place' = place /\ UNCHANGED <<skipped, expired, result>>
      BY <1>3, <1>8 DEF Goto
    <2> DEFINE d == body'
    <2>2. d \in Nat \ {0} /\ b + d = a + body
      BY <1>1, <1>2, <1>4, <1>8
    <2> HIDE DEF d, b
    <2>3. CASE place = "fixed"
      <3>1. Begins(sent, s, b + d) /\ b + d =< s
        BY <1>4, <2>2, <2>3 DEF OnWay, Sync, SyncFixed
      <3>2. SyncFixed(s, b)'
        BY <1>1, <2>2, <3>1 DEF SyncFixed, d
      <3>3. Sync(s, b)'
        BY <1>6, <2>1, <2>3, <3>2 DEF Sync
      <3> QED
        BY <1>5, <2>1, <3>3, SyncGoto
    <2>4. CASE place = "chunk"
      <3>1. LineEnds(sent, s, b + d + 2, "blank") /\ LineEnds(sent, s, b + d + 4, "size")
        BY <1>7, <2>2, <2>4
      <3>2. SyncChunk(s, b)'
        BY <1>1, <1>7, <2>2, <2>4, <3>1 DEF SyncChunk, d
      <3>3. Sync(s, b)'
        BY <1>6, <2>1, <2>4, <3>2 DEF Sync
      <3> QED
        BY <1>5, <2>1, <3>3, SyncGoto
    <2> QED
      BY <1>1, <2>3, <2>4
  <1>9. CASE body = 1 /\ place = "chunk" /\ Goto("crlf")
    <2>1. ReadTo(b, b)' /\ place' = "crlf" /\ UNCHANGED <<skipped, expired, result>>
      BY <1>3, <1>9 DEF Goto
    <2>2. LineEnds(sent, s, b + 2, "blank") /\ LineEnds(sent, s, b + 4, "size")
      BY <1>7, <1>9
    <2> HIDE DEF b
    <2>3. SyncCrlf(s, b)'
      BY <1>1, <1>7, <1>9, <2>2 DEF SyncCrlf
    <2>4. Sync(s, b)'
      BY <1>6, <2>1, <2>3 DEF Sync
    <2> QED
      BY <1>5, <2>1, <2>4, SyncGoto
  <1>10. CASE body = 1 /\ place = "fixed" /\ NextResponse
    <2>1. ReadTo(b, b)'
      BY <1>3, <1>10 DEF NextResponse, Verdict, Return
    <2>2. Begins(sent, s, b)
      BY <1>10 DEF OnWay, Sync, SyncFixed
    <2> HIDE DEF b
    <2> QED
      BY <1>5, <1>6, <1>10, <2>1, <2>2, SyncNext
  <1> QED
    BY <1>8, <1>9, <1>10 DEF DiscardPiece

LEMMA SyncChunkSize ==
    ASSUME NEW s, NEW a, NEW c, OnWay(s, a, c), ChunkSize
    PROVE  SyncInv(s)'
  <1>1. place = "size" /\ LineRead /\ unread' = Rest /\ UNCHANGED <<sent, length>>
    BY DEF ChunkSize, world
  <1>2. /\ WellFormed(sent, s) /\ s \in Nat /\ sent \in Seq(Piece) /\ s + 2 =< Len(sent)
        /\ a \in Nat /\ c \in Nat /\ a =< s /\ c =< s + 1 /\ a =< c /\ c < Len(sent)
        /\ ReadTo(a, c) /\ skipped + 1 =< Passed({"status"}, a)
        /\ LineEnds(sent, s, a + 2, "size") /\ lines =< Passed({"size"}, a)
        /\ skipped \in Nat /\ lines \in Nat /\ length \in Int
    BY <1>1 DEF OnWay, Sync, SyncSize
  <1>3. /\ a < s /\ sent[a + 1].at = "head" /\ sent[a + 1].kind = "size"
        /\ sent[a + 1].n = sent[a + 2].n /\ a + 1 \in Heads(sent, {"size"})
    BY <1>2, HeadOf
  <1>4. /\ unread' = Tail(unread)
        /\ Kind(TheLine) = "size" /\ Number(TheLine) = sent[a + 2].n
    BY <1>1, <1>2, <1>3, LineFacts
  <1>5. c = a + 1
    BY <1>1, <1>2, <1>3, WholeLine
  <1> DEFINE b == a + 2
             n == sent[a + 2].n
  <1>6. b = c + 1 /\ b \in 1..s /\ sent[b].at = "tail"
    BY <1>2, <1>5 DEF LineEnds
  <1>7. line' = << >> => ReadTo(b, b)'
    BY <1>1, <1>2, <1>4, <1>6, Forward
  <1>8. n \in Nat /\ n =< MaxBody
    <2>1. b \in 1..Len(sent) /\ b \in DOMAIN sent
      BY <1>2, <1>6
    <2>2. sent[b] \in Piece
      BY <1>2, <2>1
    <2>3. sent[b].kind = "size"
      BY <1>2 DEF LineEnds
    <2> QED
      BY <2>1, <2>2, <2>3 DEF OnWay, WithinLimits, Piece
  <1>9. lines' \in Nat /\ (lines' = 0 \/ lines' = lines)
    BY <1>2 DEF ChunkSize
  <1>10. Undisturbed(s) /\ b \in 0..s /\ b \in 0..(s + 1) /\ b =< b /\ b \in Nat /\ a =< b
    BY <1>1, <1>2, <1>6, <1>9 DEF Undisturbed, OnWay
  <1>11. skipped + 1 =< Passed({"status"}, b)'
    <2> DEFINE p == Passed({"status"}, a)
               q == Passed({"status"}, b)
    <2>1. p \in Nat /\ q \in Nat /\ p =< q
      BY <1>2, <1>10, PassedFacts
    <2>2. q' = q
      BY <1>1 DEF Passed
    <2> HIDE DEF p, q
    <2>3. skipped + 1 =< p
      BY <1>2 DEF p
    <2>4. skipped + 1 =< q'
      BY <1>2, <2>1, <2>2, <2>3
    <2> QED
      BY <2>4 DEF q
  <1>12. CASE n = 0 /\ lines' = 0 /\ Goto("trailer")
    <2>1. ReadTo(b, b)' /\ place' = "trailer" /\ UNCHANGED <<skipped, expired, result>>
      BY <1>7, <1>12 DEF Goto
    <2>2. PICK m \in 1..s : Block(sent, s, b, m, {"field"}) /\ Begins(sent, s, m)
      BY <1>2, <1>6, <1>12 DEF WellFormed
    <2>3. 0 =< Passed(HeaderKinds, b)'
      <3>1. Passed(HeaderKinds, b) \in Nat
        BY <1>2, <1>10, PassedFacts
      <3>2. Passed(HeaderKinds, b)' = Passed(HeaderKinds, b)
        BY <1>1 DEF Passed
      <3> HIDE DEF b
      <3> QED
        BY <3>1, <3>2
    <2> HIDE DEF b
    <2>4. sent[b + 1].at = "head" /\ b < m
      <3>1. sent[b + 1].at = "head"
        BY <1>2, <1>6, <2>2, BlockBegins
      <3> QED
        BY <1>6, <2>2, <3>1 DEF Block
    <2>5. SyncTrailer(s, b)'
      BY <1>1, <1>6, <1>10, <1>12, <2>2, <2>3, <2>4 DEF SyncTrailer
    <2>6. Sync(s, b)'
      BY <1>11, <2>1, <2>5 DEF Sync
    <2> QED
      BY <1>10, <2>1, <2>6, SyncGoto
  <1>13. CASE n > 0 /\ lines' = lines /\ body' = Capped(n) /\ Goto("chunk")
    <2>1. ReadTo(b, b)' /\ place' = "chunk" /\ UNCHANGED <<skipped, expired, result>>
      BY <1>7, <1>13 DEF Goto
    <2>2. LineEnds(sent, s, b + n + 2, "blank") /\ LineEnds(sent, s, b + n + 4, "size")
      <3>1. n # 0 /\ LineEnds(sent, s, b, "size") /\ n = sent[b].n
        BY <1>2, <1>8, <1>13
      <3> HIDE DEF n, b
      <3> QED
        BY <1>2, <1>6, <3>1 DEF WellFormed
    <2>3. body' = n /\ n \in Nat \ {0}
      <3> HIDE DEF n
      <3>1. ~(n > MaxBody)
        BY <1>8, PayloadAssumption
      <3> QED
        BY <1>8, <1>13, <3>1 DEF Capped
    <2>4. lines' + 1 =< Passed({"size"}, b)'
      <3> DEFINE p == Passed({"size"}, a)
                 q == Passed({"size"}, b)
      <3>1. p \in Nat /\ q \in Nat /\ p + 1 =< q
        <4>1. a < a + 1 /\ a + 1 =< b
          BY <1>2
        <4> QED
          BY <1>2, <1>3, <1>10, <4>1, PassedFacts
      <3>2. q' = q
        BY <1>1 DEF Passed
      <3> HIDE DEF p, q
      <3>3. lines =< p
        BY <1>2 DEF p
      <3>4. lines' + 1 =< q'
        BY <1>2, <1>13, <3>1, <3>2, <3>3
      <3> QED
        BY <3>4 DEF q
    <2> HIDE DEF b, n
    <2>5. SyncChunk(s, b)'
      BY <1>1, <2>2, <2>3, <2>4 DEF SyncChunk
    <2>6. Sync(s, b)'
      BY <1>11, <2>1, <2>5 DEF Sync
    <2> QED
      BY <1>10, <2>1, <2>6, SyncGoto
  <1> QED
    BY <1>4, <1>12, <1>13 DEF ChunkSize

LEMMA SyncChunkEnd ==
    ASSUME NEW s, NEW a, NEW c, OnWay(s, a, c), ChunkEnd
    PROVE  SyncInv(s)'
  <1>1. place = "crlf" /\ UNCHANGED <<sent, length>> /\ lines' = lines + 1
    BY DEF ChunkEnd, world
  <1>2. /\ WellFormed(sent, s) /\ s \in Nat /\ sent \in Seq(Piece) /\ s + 2 =< Len(sent)
        /\ a \in Nat /\ c \in Nat /\ a =< s /\ c =< s + 1 /\ a =< c /\ c < Len(sent)
        /\ ReadTo(a, c) /\ skipped + 1 =< Passed({"status"}, a)
        /\ LineEnds(sent, s, a + 2, "blank") /\ LineEnds(sent, s, a + 4, "size")
        /\ lines + 1 =< Passed({"size"}, a)
        /\ skipped \in Nat /\ lines \in Nat /\ length \in Int /\ ~expired
    BY <1>1 DEF OnWay, Sync, SyncCrlf
  <1>3. LineRead /\ unread' = Rest
    <2>1. ~ReadFails /\ ~TimedOut
      BY <1>2, LineFacts DEF TimedOut
    <2> QED
      BY <2>1 DEF ChunkEnd
  <1>4. unread' = Tail(unread)
    BY <1>2, <1>3, LineFacts
  <1>5. a < s /\ sent[a + 1].at = "head"
    BY <1>2, HeadOf
  <1>6. c = a + 1
    BY <1>2, <1>3, <1>5, WholeLine
  <1> DEFINE b == a + 2
  <1>7. b = c + 1 /\ b \in 1..s /\ b + 2 = a + 4
    BY <1>2, <1>6 DEF LineEnds
  <1>8. line' = << >> => ReadTo(b, b)'
    BY <1>1, <1>2, <1>4, <1>7, Forward
  <1>9. Undisturbed(s) /\ b \in 0..s /\ b \in 0..(s + 1) /\ b =< b /\ b \in Nat /\ a =< b
    BY <1>1, <1>2, <1>7 DEF Undisturbed, OnWay
  <1>10. skipped + 1 =< Passed({"status"}, b)'
    <2> DEFINE p == Passed({"status"}, a)
               q == Passed({"status"}, b)
    <2>1. p \in Nat /\ q \in Nat /\ p =< q
      BY <1>2, <1>9, PassedFacts
    <2>2. q' = q
      BY <1>1 DEF Passed
    <2> HIDE DEF p, q
    <2>3. skipped + 1 =< p
      BY <1>2 DEF p
    <2>4. skipped + 1 =< q'
      BY <1>2, <2>1, <2>2, <2>3
    <2> QED
      BY <2>4 DEF q
  <1>11. lines + 1 =< Passed({"size"}, b)' /\ lines + 1 < MaxHeaderLines
    <2> DEFINE p == Passed({"size"}, a)
               q == Passed({"size"}, b)
               d == Passed({"size"}, b + 2)
               r == Count(sent, {"size"})
    <2>1. p \in Nat /\ q \in Nat /\ p =< q
      BY <1>2, <1>9, PassedFacts
    <2>2. d \in Nat /\ r \in Nat /\ q + 1 =< d /\ d =< r
      <3>1. b + 1 \in Heads(sent, {"size"})
        BY <1>2, <1>7, <1>9, HeadOf
      <3>2. b + 2 \in Nat /\ b =< b + 2 /\ b < b + 1 /\ b + 1 =< b + 2
        BY <1>9
      <3> HIDE DEF b
      <3> QED
        BY <1>2, <1>9, <3>1, <3>2, PassedFacts
    <2>3. r =< MaxHeaderLines /\ MaxHeaderLines \in Nat /\ lines + 1 =< p
      BY <1>2, PayloadAssumption DEF OnWay, WithinLimits
    <2>4. q' = q
      BY <1>1 DEF Passed
    <2> HIDE DEF p, q, d, r
    <2>5. lines + 1 =< q' /\ lines + 1 < MaxHeaderLines
      BY <1>2, <2>1, <2>2, <2>3, <2>4
    <2> QED
      BY <2>5 DEF q
  <1>12. Goto("size")
    BY <1>11 DEF ChunkEnd
  <1>13. ReadTo(b, b)' /\ place' = "size" /\ UNCHANGED <<skipped, expired, result>>
    BY <1>8, <1>12 DEF Goto
  <1>14. LineEnds(sent, s, b + 2, "size")
    BY <1>2, <1>7
  <1> HIDE DEF b
  <1>15. SyncSize(s, b)'
    BY <1>1, <1>11, <1>14 DEF SyncSize
  <1>16. Sync(s, b)'
    BY <1>10, <1>13, <1>15 DEF Sync
  <1> QED
    BY <1>9, <1>13, <1>16, SyncGoto

LEMMA SyncTrailerLine ==
    ASSUME NEW s, NEW a, NEW c, OnWay(s, a, c), TrailerLine
    PROVE  SyncInv(s)'
  <1>1. place = "trailer" /\ LineRead /\ unread' = Rest /\ UNCHANGED <<sent, length>>
    BY DEF TrailerLine, world
  <1>2. /\ WellFormed(sent, s) /\ s \in Nat /\ sent \in Seq(Piece) /\ s + 2 =< Len(sent)
        /\ a \in Nat /\ c \in Nat /\ a =< s /\ c =< s + 1 /\ a =< c /\ c < Len(sent)
        /\ ReadTo(a, c) /\ SyncTrailer(s, a) /\ skipped + 1 =< Passed({"status"}, a)
        /\ skipped \in Nat /\ lines \in Nat /\ length \in Int
    BY <1>1 DEF OnWay, Sync
  <1>3. PICK k \in 1..s, m \in 1..s :
          Block(sent, s, k, m, {"field"}) /\ Begins(sent, s, m) /\ k =< a /\ a < m
    BY <1>2 DEF SyncTrailer
  <1>4. sent[a + 1].at = "head" /\ lines =< Passed(HeaderKinds, a) /\ a < s
    BY <1>2, <1>3 DEF SyncTrailer
  <1>5. unread' = Tail(unread) /\ Kind(TheLine) = sent[a + 1].kind
    BY <1>1, <1>2, LineFacts
  <1>6. c = a + 1 /\ LineEnds(sent, s, a + 2, sent[a + 1].kind)
    BY <1>1, <1>2, <1>4, WholeLine
  <1> DEFINE b == a + 2
  <1>7. b = c + 1 /\ b \in 1..s /\ k =< b
    BY <1>2, <1>3, <1>6 DEF LineEnds
  <1>8. line' = << >> => ReadTo(b, b)'
    BY <1>1, <1>2, <1>5, <1>7, Forward
  <1>9. \/ sent[a + 1].kind = "blank" /\ a + 2 = m
        \/ /\ sent[a + 1].kind \in {"field"} /\ a + 2 < m
           /\ sent[a + 1].kind # "blank" /\ sent[a + 3].at = "head"
    <2>1. "blank" \notin {"field"}
      OBVIOUS
    <2> QED
      BY <1>2, <1>3, <1>4, <1>6, <2>1, BlockHead
  <1>10. lines' \in Nat
    BY <1>2 DEF TrailerLine
  <1>11. Undisturbed(s) /\ b \in 0..s /\ b \in 0..(s + 1) /\ b =< b /\ b \in Nat /\ a =< b
    BY <1>1, <1>2, <1>7, <1>10 DEF Undisturbed, OnWay
  <1>12. skipped + 1 =< Passed({"status"}, b) /\ Passed({"status"}, b)' = Passed({"status"}, b)
    <2> DEFINE p == Passed({"status"}, a)
               q == Passed({"status"}, b)
    <2>1. p \in Nat /\ q \in Nat /\ p =< q
      BY <1>2, <1>11, PassedFacts
    <2>2. q' = q
      BY <1>1 DEF Passed
    <2> HIDE DEF p, q
    <2>3. skipped + 1 =< p
      BY <1>2 DEF p
    <2> QED
      BY <1>2, <2>1, <2>2, <2>3 DEF q
  <1>13. CASE sent[a + 1].kind # "blank"
    <2>1. sent[a + 1].kind = "field" /\ b < m /\ sent[a + 3].at = "head" /\ b + 1 = a + 3
      BY <1>2, <1>9, <1>13
    <2>2. a + 1 \in Heads(sent, HeaderKinds)
      <3>1. a + 1 \in DOMAIN sent
        BY <1>2
      <3> QED
        BY <1>4, <2>1, <3>1 DEF Heads, HeaderKinds
    <2> DEFINE p == Passed(HeaderKinds, a)
               q == Passed(HeaderKinds, b)
               r == Count(sent, HeaderKinds)
    <2>3. p \in Nat /\ q \in Nat /\ r \in Nat /\ p + 1 =< q /\ q =< r
      <3>1. a < a + 1 /\ a + 1 =< b
        BY <1>2
      <3> QED
        BY <1>2, <1>11, <2>2, <3>1, PassedFacts
    <2>4. r < MaxHeaderLines /\ MaxHeaderLines \in Nat /\ lines =< p
      BY <1>4, PayloadAssumption DEF OnWay, WithinLimits, HeaderKinds
    <2>5. q' = q
      BY <1>1 DEF Passed
    <2> HIDE DEF p, q, r
    <2>6. lines + 1 < MaxHeaderLines /\ lines + 1 =< q
      BY <1>2, <2>3, <2>4
    <2>7. lines' = lines + 1 /\ Goto("trailer")
      BY <1>5, <1>13, <2>6 DEF TrailerLine
    <2>8. ReadTo(b, b)' /\ place' = "trailer" /\ UNCHANGED <<skipped, expired, result>>
      BY <1>8, <2>7 DEF Goto
    <2>9. lines' =< Passed(HeaderKinds, b)'
      BY <2>5, <2>6, <2>7 DEF q
    <2>10. SyncTrailer(s, b)'
      BY <1>1, <1>3, <1>7, <2>1, <2>9 DEF SyncTrailer
    <2>11. Sync(s, b)'
      BY <1>12, <2>8, <2>10 DEF Sync
    <2> QED
      BY <1>11, <2>8, <2>11, SyncGoto
  <1>14. CASE sent[a + 1].kind = "blank"
    <2>1. b = m
      BY <1>9, <1>14, Zenon DEF b
    <2>2. NextResponse
      BY <1>5, <1>14 DEF TrailerLine
    <2>3. ReadTo(b, b)'
      BY <1>8, <2>2 DEF NextResponse, Verdict, Return
    <2>4. Begins(sent, s, b)
      BY <1>3, <2>1, Zenon
    <2> HIDE DEF b
    <2> QED
      BY <1>11, <1>12, <2>2, <2>3, <2>4, SyncNext
  <1> QED
    BY <1>13, <1>14

LEMMA SyncStep ==
    ASSUME NEW s, SyncInv(s), [PayloadNext]_payloadVars
    PROVE  SyncInv(s)'
  <1>1. CASE DeadlinePasses
    BY <1>1 DEF DeadlinePasses, SyncInv, world
  <1>2. CASE UNCHANGED payloadVars
    <2>1. /\ UNCHANGED <<wait, sent, unread, late, line, chunked, length, body, lines>>
          /\ UNCHANGED <<place, skipped, expired, replay, result>>
      BY <1>2 DEF payloadVars, world, response, control
    <2>2. Arrived(s) => Arrived(s)'
      BY <2>1 DEF Arrived, Handed
    <2>3. ASSUME NEW a, NEW c, ReadTo(a, c), Sync(s, a) PROVE ReadTo(a, c)' /\ Sync(s, a)'
      <3>1. ReadTo(a, c)'
        BY <2>1, <2>3 DEF ReadTo
      <3>2. Sync(s, a)'
        BY <2>1, <2>3
        DEF Sync, SyncHeader, SyncFixed, SyncSize, SyncChunk, SyncCrlf, SyncTrailer, Passed, Says,
            Noted
      <3> QED
        BY <3>1, <3>2
    <2>4. OnCourse(s) => OnCourse(s)'
      BY <2>1, <2>3 DEF OnCourse, Reading
    <2> QED
      BY <2>1, <2>2, <2>4 DEF SyncInv
  <1>3. CASE Client
    <2>1. wait' = wait /\ late' = late /\ sent' = sent
      BY <1>3
      DEF Client, Write, ReadPiece, StatusLine, StatusTimeout, StatusError, HeaderLine,
          DiscardPiece, ChunkSize, ChunkEnd, TrailerLine, ConsumeFails, world
    <2>2. place # "done"
      BY <1>3
      DEF Client, Write, ReadPiece, Reading, StatusLine, StatusTimeout, StatusError, HeaderLine,
          DiscardPiece, ChunkSize, ChunkEnd, TrailerLine, ConsumeFails
    <2>3. CASE wait /\ ~late /\ result # "unsent" /\ result' # "unsent"
      <3>1. \E a, c : OnWay(s, a, c)
        BY <2>2, <2>3, SyncWhere DEF OnWay
      <3>2. PICK a, c : OnWay(s, a, c)
        BY <3>1
      <3>3. ~StatusTimeout /\ ~StatusError /\ ~ConsumeFails
        <4>1. ~ReadFails /\ ~TimedOut
          BY <3>2, LineFacts DEF OnWay, TimedOut
        <4> QED
          BY <4>1 DEF StatusTimeout, StatusError, ConsumeFails
      <3> QED
        BY <1>3, <2>3, <3>2, <3>3, SyncWrite, SyncPiece, SyncStatus, SyncHeaderLine, SyncDiscard,
           SyncChunkSize, SyncChunkEnd, SyncTrailerLine DEF Client
    <2>4. CASE ~(wait /\ ~late /\ result # "unsent" /\ result' # "unsent")
      <3>1. result # "unsent" /\ WellFormed(sent, s) /\ WithinLimits(sent)
        BY <2>2 DEF SyncInv
      <3>2. result' = result \/ place' = "done"
        BY <1>3
        DEF Client, Write, ReadPiece, StatusLine, StatusTimeout, StatusError, HeaderLine,
            DiscardPiece, ChunkSize, ChunkEnd, TrailerLine, ConsumeFails, Goto, Return,
            NextResponse, Verdict
      <3> QED
        BY <2>1, <2>4, <3>1, <3>2 DEF SyncInv
    <2> QED
      BY <2>3, <2>4
  <1> QED
    BY <1>1, <1>2, <1>3 DEF PayloadNext

(***************************************************************************)
(* A complete exchange within the limits of payload.go, in which every     *)
(* byte comes in time, leaves SSH exactly the bytes of its server: however *)
(* many responses there are, whatever their statuses, headers, bodies and  *)
(* chunks.                                                                 *)
(***************************************************************************)
THEOREM ChainsAreTransparent == PayloadSpec => []ChainIsTransparent
  <1> DEFINE Inv == sent \in Exchange /\ WithinLimits(sent) => \E s : SyncInv(s)
  <1>1. PayloadInit => Inv
    <2> SUFFICES ASSUME PayloadInit, sent \in Exchange, WithinLimits(sent) PROVE \E s : SyncInv(s)
      OBVIOUS
    <2>1. PICK s : WellFormed(sent, s)
      BY ExchangeAssumption
    <2>2. s \in Nat /\ sent \in Seq(Piece)
      BY <2>1 DEF WellFormed
    <2>3. /\ unread = sent /\ line = << >> /\ result = "none" /\ place = "write" /\ expired = FALSE
          /\ length = -1 /\ lines = 0 /\ skipped = 0
      BY DEF PayloadInit
    <2>4. ReadTo(0, 0)
      BY <2>2, <2>3 DEF ReadTo
    <2>5. Sync(s, 0)
      BY <2>3 DEF Sync
    <2>6. OnCourse(s)
      <3>1. 0 \in 0..s /\ 0 \in 0..(s + 1) /\ 0 =< 0
        BY <2>2
      <3> QED
        BY <2>3, <2>4, <2>5, <3>1 DEF OnCourse
    <2>7. SyncInv(s)
      BY <2>1, <2>3, <2>6 DEF SyncInv
    <2> QED
      BY <2>7
  <1>2. Inv /\ [PayloadNext]_payloadVars => Inv'
    <2> SUFFICES ASSUME Inv, [PayloadNext]_payloadVars, (sent \in Exchange)', WithinLimits(sent)'
                 PROVE  \E s : SyncInv(s)'
      OBVIOUS
    <2>1. sent' = sent
      BY DEF PayloadNext, Client, Write, ReadPiece, StatusLine, StatusTimeout, StatusError,
             HeaderLine, DiscardPiece, ChunkSize, ChunkEnd, TrailerLine, ConsumeFails,
             DeadlinePasses, payloadVars, world
    <2>2. WithinLimits(sent)
      BY <2>1 DEF WithinLimits
    <2>3. PICK s : SyncInv(s)
      BY <2>1, <2>2
    <2> QED
      BY <2>3, SyncStep
  <1>3. Inv => ChainIsTransparent
    <2> SUFFICES ASSUME Inv, result \notin {"none", "unsent"}, wait, ~late, sent \in Exchange,
                        WithinLimits(sent)
                 PROVE  result = "conn" /\ Handed = SSHPart(sent)
      BY DEF ChainIsTransparent
    <2>1. PICK s : SyncInv(s)
      OBVIOUS
    <2>2. Arrived(s) /\ WellFormed(sent, s)
      BY <2>1 DEF SyncInv, OnCourse
    <2> DEFINE n == Len(sent)
               u == Handed
               v == SSHPart(sent)
    <2>3. sent \in Seq(Piece) /\ s \in Nat /\ s + 2 =< n /\ n \in Nat
      BY <2>2 DEF WellFormed
    <2>4. \A k \in 1..n : sent[k].kind = "ssh" <=> k > s
      BY <2>2 DEF WellFormed
    <2>5. IsPart(v, sent, s, n) /\ IsPart(u, sent, s, n) /\ result = "conn"
      BY <2>2, <2>3, <2>4, SSHPartIs DEF Arrived
    <2> HIDE DEF n, u, v
    <2>6. /\ v \in Seq(Piece) /\ Len(v) = n - s /\ \A j \in 1..(n - s) : v[j] = sent[s + j]
          /\ u \in Seq(Piece) /\ Len(u) = n - s /\ \A j \in 1..(n - s) : u[j] = sent[s + j]
      BY <2>3, <2>5 DEF IsPart
    <2>7. u = v
      BY <2>6
    <2> QED
      BY <2>5, <2>7 DEF u, v
  <1> QED
    BY <1>1, <1>2, <1>3, PTL DEF PayloadSpec
=============================================================================
