------------------------------- MODULE MCDns --------------------------------
(***************************************************************************)
(* The lengths of names for every domain, the codec on messages with names *)
(* that share suffixes, differ in case, or hold a dot in a label, and a    *)
(* stream of the session they carry.  The three share no state, so a       *)
(* behaviour exercises one.                                                *)
(***************************************************************************)
EXTENDS DnsName, DnsMessage, DnsttStream

VARIABLE part

AllDomains == 0..254

a == <<"a">>
A == <<"A">>
dotted == <<"a", ".", "a">>

Names == UNION {[1..n -> {a, A, dotted}] : n \in 0..2}
MCDomain == <<a>>

Entry(name, type, data) == [name |-> name, type |-> type, data |-> data]

Query(q, an, ar) ==
    [qr |-> FALSE, rcode |-> 0, packets |-> << >>,
     sections |-> <<<<Entry(q, "TXT", << >>)>>, <<Entry(an, "TXT", << >>)>>, << >>,
                    <<Entry(ar, "OPT", << >>)>>>>]

Response(q, name, data, packets) ==
    [qr |-> TRUE, rcode |-> 0, packets |-> packets,
     sections |-> <<<<Entry(q, "TXT", << >>)>>, <<Entry(name, "TXT", data)>>, << >>,
                    <<Entry(<< >>, "OPT", << >>)>>>>]

OctetsOf(ps) == FlattenSeq([i \in 1..Len(ps) |-> <<Len(ps[i])>> \o ps[i]])
SomePackets == UNION {[1..n -> {<< >>, <<8>>, <<8, 9>>, <<9, 8, 7>>}] : n \in 0..2}

MCMessages ==
    {Query(q, an, ar) : q \in Names, an \in Names, ar \in {<< >>, <<a, A>>, <<a, a, a>>}}
    \cup {Response(<<dotted, a>>, name, EncodeRDataTXT(OctetsOf(ps)), ps) :
            name \in {<<dotted, a>>, <<dotted, A>>, MCDomain}, ps \in SomePackets}
    \cup {Response(<<a, a>>, name, EncodeRDataTXT(<<1, 8>>), << >>) :
            name \in {<<a, dotted>>, << >>}}
    \cup {Response(<<a, a>>, <<a, a>>, data, << >>) :
            data \in {<< >>, <<2, 1>>, EncodeRDataTXT([i \in 1..12 |-> 1])}}
    \cup {[Response(<<a, a>>, <<a, a>>, <<2, 1, 8>>, << >>) EXCEPT !.rcode = 3],
          [Response(<<a, a>>, <<a, a>>, <<2, 1, 8>>, << >>) EXCEPT
             !.sections[2] = @ \o @],
          [Response(<<a, a>>, <<a, a>>, <<2, 1, 8>>, << >>) EXCEPT
             !.sections[2] = [i \in 1..12 |-> @[1]]],
          [Response(<<a, a>>, <<a, a>>, <<2, 1, 8>>, << >>) EXCEPT
             !.sections[2][1].type = "A"]}

MCInit ==
    /\ NameInit /\ MessageInit /\ StreamInit
    /\ part \in {"name", "message", "stream"}
    /\ part # "name" => domain = 0
    /\ part # "message" => message = Query(<< >>, << >>, << >>)
    /\ part # "stream" => smux = "alive"

Naming == part = "name" /\ NameNext /\ UNCHANGED <<messageVars, streamVars, part>>
Coding == part = "message" /\ MessageNext /\ UNCHANGED <<nameVars, streamVars, part>>
Stream(B) == part = "stream" /\ B /\ UNCHANGED <<nameVars, messageVars, part>>

MCNext == Naming \/ Coding \/ Stream(StreamNext)

\* Goroutines are scheduled, and the SSH client hangs up when it reads the end.
MCSpec ==
    /\ MCInit /\ [][MCNext]_<<nameVars, messageVars, streamVars, part>>
    /\ WF_streamVars(Stream(Handling))
    /\ WF_streamVars(Stream(Upward))
    /\ WF_streamVars(Stream(Downward))
    /\ WF_streamVars(Stream(~local.write /\ ProgramCloses))
=============================================================================
