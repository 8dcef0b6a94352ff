---------------------------- MODULE DnsttClient -----------------------------
(***************************************************************************)
(* The life of the embedded DNSTT client, internal/dnsttclient/api.go:     *)
(* Start and its select, the goroutine around runOptions and runContext,   *)
(* the goroutine that closes the listener and the packet connection when   *)
(* the context ends, and Stop with its three second limit.  The engine     *)
(* runs one client after another on the same local address.                *)
(*                                                                         *)
(* What crosses the tunnel is DnsTransport's; here the handshake succeeds, *)
(* fails or lasts until its packet connection is closed.                   *)
(***************************************************************************)
EXTENDS Naturals

CONSTANT MaxClients     \* bound: clients the engine starts
ASSUME ClientAssumption == MaxClients \in Nat \ {0}

C == 1..MaxClients

VARIABLES
    parent,    \* the engine has cancelled the context it gave to Start
    cancelled, \* the client's own context is cancelled
    start,     \* Start: "none", "select", "client" or "error"
    run,       \* where runOptions is
    ready,     \* close(ready) has happened
    errCh,     \* errCh holds the result of runOptions
    done,      \* close(client.done) has happened
    ln,        \* the local listener: "none", "open" or "closed"
    pconn,     \* the packet connection: the same
    closer,    \* the goroutine waiting for ctx.Done: "none", "wait" or "done"
    stop       \* Stop: "none", "waiting", "ok" or "timeout"

conns == <<ln, pconn>>
clientVars == <<parent, cancelled, start, run, ready, errCh, done, conns, closer, stop>>

RunStep == {"none", "setup", "listen", "handshake", "accept", "return", "result", "ended"}

ClientType ==
    /\ parent \in [C -> BOOLEAN] /\ cancelled \in [C -> BOOLEAN]
    /\ start \in [C -> {"none", "select", "client", "error"}]
    /\ run \in [C -> RunStep]
    /\ ready \in [C -> BOOLEAN] /\ errCh \in [C -> BOOLEAN] /\ done \in [C -> BOOLEAN]
    /\ ln \in [C -> {"none", "open", "closed"}] /\ pconn \in [C -> {"none", "open", "closed"}]
    /\ closer \in [C -> {"none", "wait", "done"}]
    /\ stop \in [C -> {"none", "waiting", "ok", "timeout"}]

ClientInit ==
    /\ parent = [c \in C |-> FALSE] /\ cancelled = [c \in C |-> FALSE]
    /\ start = [c \in C |-> "none"] /\ run = [c \in C |-> "none"]
    /\ ready = [c \in C |-> FALSE] /\ errCh = [c \in C |-> FALSE]
    /\ done = [c \in C |-> FALSE]
    /\ ln = [c \in C |-> "none"] /\ pconn = [c \in C |-> "none"]
    /\ closer = [c \in C |-> "none"] /\ stop = [c \in C |-> "none"]
-----------------------------------------------------------------------------
\* The engine is through with client c: Start failed, or Stop has returned.
Finished(c) == start[c] = "error" \/ stop[c] \in {"ok", "timeout"}

Start(c) ==
    /\ start[c] = "none"
    /\ \A b \in C : b < c => Finished(b)
    /\ start' = [start EXCEPT ![c] = "select"]
    /\ run' = [run EXCEPT ![c] = "setup"]
    /\ UNCHANGED <<parent, cancelled, ready, errCh, done, conns, closer, stop>>

\* The cases of Start's select; with several ready it takes any of them.
StartReady(c) ==
    /\ start[c] = "select" /\ ready[c]
    /\ start' = [start EXCEPT ![c] = "client"]
    /\ UNCHANGED <<parent, cancelled, run, ready, errCh, done, conns, closer, stop>>

StartError(c) ==
    /\ start[c] = "select" /\ errCh[c]
    /\ errCh' = [errCh EXCEPT ![c] = FALSE]
    /\ cancelled' = [cancelled EXCEPT ![c] = TRUE]
    /\ start' = [start EXCEPT ![c] = "error"]
    /\ UNCHANGED <<parent, run, ready, done, conns, closer, stop>>

StartTimeout(c) ==
    /\ start[c] = "select"
    /\ start' = [start EXCEPT ![c] = "client"]
    /\ UNCHANGED <<parent, cancelled, run, ready, errCh, done, conns, closer, stop>>

StartCancelled(c) ==
    /\ start[c] = "select" /\ parent[c]
    /\ cancelled' = [cancelled EXCEPT ![c] = TRUE]
    /\ start' = [start EXCEPT ![c] = "error"]
    /\ UNCHANGED <<parent, run, ready, errCh, done, conns, closer, stop>>

StartReturns(c) == StartReady(c) \/ StartError(c) \/ StartTimeout(c) \/ StartCancelled(c)
-----------------------------------------------------------------------------
(***************************************************************************)
(* runOptions and runContext.  "return" runs the deferred closes.          *)
(***************************************************************************)
Goto(c, l) == run' = [run EXCEPT ![c] = l]

\* Checks of the options, and makePacketConn, which may dial for 30 seconds.
Setup(c) ==
    /\ run[c] = "setup"
    /\ \/ Goto(c, "listen") /\ pconn' = [pconn EXCEPT ![c] = "open"]
       \/ Goto(c, "return") /\ UNCHANGED pconn
    /\ UNCHANGED <<parent, cancelled, start, ready, errCh, done, ln, closer, stop>>

PortFree == \A b \in C : ln[b] # "open"

Listen(c) ==
    /\ run[c] = "listen"
    /\ IF PortFree
       THEN /\ ln' = [ln EXCEPT ![c] = "open"]
            /\ closer' = [closer EXCEPT ![c] = "wait"]
            /\ ready' = [ready EXCEPT ![c] = TRUE]
            /\ Goto(c, "handshake")
       ELSE Goto(c, "return") /\ UNCHANGED <<ln, closer, ready>>
    /\ UNCHANGED <<parent, cancelled, start, errCh, done, pconn, stop>>

\* The MTU check, KCP, Noise and smux.
Handshake(c) ==
    /\ run[c] = "handshake"
    /\ \/ pconn[c] = "open" /\ Goto(c, "accept")
       \/ Goto(c, "return")
    /\ UNCHANGED <<parent, cancelled, start, ready, errCh, done, conns, closer, stop>>

\* ... which otherwise wait for the server, however long that takes.
HandshakeBroken(c) ==
    /\ run[c] = "handshake" /\ pconn[c] = "closed"
    /\ Goto(c, "return")
    /\ UNCHANGED <<parent, cancelled, start, ready, errCh, done, conns, closer, stop>>

\* Accept fails once the listener is closed.
AcceptFails(c) ==
    /\ run[c] = "accept" /\ ln[c] = "closed"
    /\ Goto(c, "return")
    /\ UNCHANGED <<parent, cancelled, start, ready, errCh, done, conns, closer, stop>>

Closed(s) == IF s = "open" THEN "closed" ELSE s

Deferred_KeepsListener(c) ==
    /\ pconn' = [pconn EXCEPT ![c] = Closed(@)]
    /\ UNCHANGED ln

Deferred(c) ==
    /\ pconn' = [pconn EXCEPT ![c] = Closed(@)]
    /\ ln' = [ln EXCEPT ![c] = Closed(@)]

RunReturns(c) ==
    /\ run[c] = "return"
    /\ Deferred(c)
    /\ Goto(c, "result")
    /\ UNCHANGED <<parent, cancelled, start, ready, errCh, done, closer, stop>>

\* errCh has room for the one result, so nobody need be there to take it.
ResultTaken_Unbuffered(c) == start[c] = "select"
ResultTaken(c) == TRUE

RunEnds(c) ==
    /\ run[c] = "result" /\ ResultTaken(c)
    /\ errCh' = [errCh EXCEPT ![c] = TRUE]
    /\ done' = [done EXCEPT ![c] = TRUE]
    /\ Goto(c, "ended")
    /\ UNCHANGED <<parent, cancelled, start, ready, conns, closer, stop>>

RunStepOf(c) ==
    \/ Setup(c) \/ Listen(c) \/ HandshakeBroken(c) \/ AcceptFails(c)
    \/ RunReturns(c) \/ RunEnds(c)

ContextDone(c) == cancelled[c] \/ parent[c]

CloseOnDone(c) ==
    /\ closer[c] = "wait" /\ ContextDone(c)
    /\ ln' = [ln EXCEPT ![c] = Closed(@)]
    /\ pconn' = [pconn EXCEPT ![c] = Closed(@)]
    /\ closer' = [closer EXCEPT ![c] = "done"]
    /\ UNCHANGED <<parent, cancelled, start, run, ready, errCh, done, stop>>
-----------------------------------------------------------------------------
\* The engine cancels the session at any time, and then stops the client.
CancelParent(c) ==
    /\ start[c] # "none" /\ ~parent[c]
    /\ parent' = [parent EXCEPT ![c] = TRUE]
    /\ UNCHANGED <<cancelled, start, run, ready, errCh, done, conns, closer, stop>>

StopCall(c) ==
    /\ start[c] = "client" /\ stop[c] = "none"
    /\ cancelled' = [cancelled EXCEPT ![c] = TRUE]
    /\ stop' = [stop EXCEPT ![c] = "waiting"]
    /\ UNCHANGED <<parent, start, run, ready, errCh, done, conns, closer>>

StopReturns(c) ==
    /\ stop[c] = "waiting"
    /\ \/ done[c] /\ stop' = [stop EXCEPT ![c] = "ok"]
       \/ ~done[c] /\ stop' = [stop EXCEPT ![c] = "timeout"]
    /\ UNCHANGED <<parent, cancelled, start, run, ready, errCh, done, conns, closer>>

ClientNext == \E c \in C :
    \/ Start(c) \/ StartReturns(c)
    \/ RunStepOf(c) \/ Handshake(c) \/ CloseOnDone(c)
    \/ CancelParent(c) \/ StopCall(c) \/ StopReturns(c)

ClientSpec == ClientInit /\ [][ClientNext]_clientVars

\* Goroutines run and dials end; the server need not complete a handshake.
FairClientSpec ==
    /\ ClientSpec
    /\ \A c \in C : /\ WF_clientVars(StartReturns(c)) /\ WF_clientVars(RunStepOf(c))
                    /\ WF_clientVars(CloseOnDone(c)) /\ WF_clientVars(StopReturns(c))
-----------------------------------------------------------------------------
(***************************************************************************)
(* When Stop returns in time the local address is free again for the next  *)
(* client, and the packet connection is closed.                            *)
(***************************************************************************)
CleanStopFreesPort == \A c \in C : stop[c] = "ok" => ln[c] # "open" /\ pconn[c] # "open"

(***************************************************************************)
(* However Start and Stop came out, also by their timeouts, a client whose *)
(* context has ended winds up: its goroutines return and its listener is   *)
(* closed.                                                                 *)
(***************************************************************************)
CancelledClientEnds ==
    \A c \in C : (ContextDone(c) /\ start[c] # "none") ~>
                 (done[c] /\ closer[c] # "wait" /\ ln[c] # "open")

(***************************************************************************)
(* api.go: "Start starts an embedded DNSTT client and waits until the      *)
(* local TCP listener is open."                                            *)
(***************************************************************************)
StartWaitsForListener == \A c \in C : start[c] = "client" => ready[c]
=============================================================================
