------------------------------ MODULE Manager -------------------------------
(***************************************************************************)
(* The tunnel life cycle of internal/engine/manager.go: Start, Stop, the   *)
(* monitor and keepalive goroutines, the reconnect loop and the traffic    *)
(* probe, interleaved at the granularity of their critical sections.       *)
(*                                                                         *)
(* Every call of Start that passes its first check is a session, numbered  *)
(* 1, 2, ...; the session is also the name of its context and of every     *)
(* resource it creates.  ref[r] is the Manager field for resource kind r   *)
(* (0 is nil), res[r][s] what became of the resource session s created.    *)
(*                                                                         *)
(* Abstractions.  Addresses, profile contents, logging and durations are   *)
(* left out.  The kill switch calls of Start and stop change only the      *)
(* kill switch fields, which nothing here reads; KillSwitch.tla models     *)
(* them on top of TunnelStatus, which this module implements.  A process   *)
(* whose context is cancelled counts as released although the operating    *)
(* system reaps it a moment later.                                         *)
(***************************************************************************)
EXTENDS Naturals, FiniteSets

CONSTANTS
    Profile,       \* profiles the user may connect
    NoProfile,     \* the empty profile ID
    MaxSessions,   \* bound: how many calls of Start may begin a session
    Mode,          \* p.Mode
    Tun,           \* p.Tun.Enabled
    Proxifier,     \* routeModeOf(p) = "proxifier"
    Reconnect,     \* p.Reconnect.Enabled
    MaxRetries,    \* p.Reconnect.MaxRetries, 0 is unlimited
    TempAuth,      \* startOpenVPN writes a temporary auth-user-pass file
    Addr,          \* the local SOCKS address of p
    Patient,       \* the user connects only when nothing is in flight
    Timely,        \* timers and people are slower than runnable goroutines
    ServersAnswer  \* an SSH server that accepts a connection answers or closes it

Modes == {"ssh", "dnstt", "xray", "openvpn"}

ASSUME ProfileAssumption ==
    /\ NoProfile \notin Profile
    /\ Mode \in [Profile -> Modes]
    /\ Tun \in [Profile -> BOOLEAN]
    /\ Proxifier \in [Profile -> BOOLEAN]
    /\ Reconnect \in [Profile -> BOOLEAN]
    /\ MaxRetries \in [Profile -> Nat]
    /\ TempAuth \in [Profile -> BOOLEAN]

ASSUME BoundAssumption ==
    /\ MaxSessions \in Nat
    /\ Patient \in BOOLEAN /\ Timely \in BOOLEAN /\ ServersAnswer \in BOOLEAN

Session == 1..MaxSessions

Goroutine == {"monitor", "keepalive"}

\* The kinds of resources a Manager field points to.
Kind == {"tun", "routes", "socks", "ssh", "xray", "dnstt", "proxifier", "openvpn"}

\* The ones that are started with the session's context and end with it.
CtxBound == {"xray", "dnstt", "openvpn"}

VARIABLES
    status,        \* m.status: Running, Connecting, ProfileID, Traffic
    cancel,        \* m.cancel: the session whose context it cancels
    manualStop,    \* m.manualStop
    reconnecting,  \* m.reconnecting
    ref,           \* the Manager's resource fields
    authRef,       \* m.openvpnAuthFile: the profile the file is named after
    res,           \* what exists in the world, by kind and session
    authFiles,     \* temporary credential files on disk, by profile
    live,          \* sessions whose context is not cancelled
    last,          \* number of sessions begun
    prof,          \* the profile of each session
    pc,            \* where each session's Start is
    gpc,           \* where each session's monitor and keepalive goroutine is
    snap,          \* the resource such a goroutine is probing, or found lost
    child,         \* the session a reconnect loop started
    attempt,       \* the attempt number of a reconnect loop
    verify,        \* where each session's verifyTraffic goroutine is
    probedBy       \* history: the session whose probe set status.Traffic

fields == <<status, cancel, manualStop, reconnecting, ref, authRef>>
world == <<res, authFiles, live>>
starts == <<last, prof, pc>>
workers == <<gpc, snap, child, attempt, verify>>
vars == <<fields, world, starts, workers, probedBy>>

BeforeCommit == {"auth", "spawn", "register", "settle", "dial", "checkSSH",
                 "regSSH", "bind", "regSOCKS", "waitTCP", "ensure",
                 "tunStart", "applyRoutes", "regRoutes", "commit", "fail"}
AfterCommit == {"proxifier", "goroutines", "connected"}
LoopStep == {"stop", "head", "delay", "start", "await", "failed", "restop"}

NoTarget == [kind |-> "ssh", of |-> 0]
Idle == [Running |-> FALSE, Connecting |-> FALSE, ProfileID |-> NoProfile, Traffic |-> ""]

Status == [Running : BOOLEAN, Connecting : BOOLEAN,
           ProfileID : Profile \cup {NoProfile}, Traffic : {"", "ok", "failed"}]

FieldsOK ==
    /\ status \in Status
    /\ cancel \in 0..MaxSessions
    /\ manualStop \in BOOLEAN
    /\ reconnecting \in BOOLEAN
    /\ ref \in [Kind -> 0..MaxSessions]
    /\ authRef \in Profile \cup {NoProfile}

WorldOK ==
    /\ res \in [Kind -> [Session -> {"none", "up", "down", "released"}]]
    /\ authFiles \subseteq Profile
    /\ live \subseteq Session

StartsOK ==
    /\ last \in 0..MaxSessions
    /\ prof \in [Session -> Profile \cup {NoProfile}]
    /\ pc \in [Session -> {"none", "failed"} \cup BeforeCommit \cup AfterCommit]

WorkersOK ==
    /\ gpc \in [Session -> [Goroutine -> {"off", "tick", "probe", "done"} \cup LoopStep]]
    /\ snap \in [Session -> [Goroutine -> [kind : Kind, of : 0..MaxSessions]]]
    /\ child \in [Session -> [Goroutine -> 0..MaxSessions]]
    /\ attempt \in [Session -> [Goroutine -> Nat]]
    /\ verify \in [Session -> {"off", "wait", "probing", "done"}]

TypeOK == FieldsOK /\ WorldOK /\ StartsOK /\ WorkersOK /\ probedBy \in 0..MaxSessions

Init ==
    /\ status = Idle
    /\ cancel = 0
    /\ manualStop = FALSE
    /\ reconnecting = FALSE
    /\ ref = [r \in Kind |-> 0]
    /\ authRef = NoProfile
    /\ res = [r \in Kind |-> [s \in Session |-> "none"]]
    /\ authFiles = {}
    /\ live = {}
    /\ last = 0
    /\ prof = [s \in Session |-> NoProfile]
    /\ pc = [s \in Session |-> "none"]
    /\ gpc = [s \in Session |-> [g \in Goroutine |-> "off"]]
    /\ snap = [s \in Session |-> [g \in Goroutine |-> NoTarget]]
    /\ child = [s \in Session |-> [g \in Goroutine |-> 0]]
    /\ attempt = [s \in Session |-> [g \in Goroutine |-> 0]]
    /\ verify = [s \in Session |-> "off"]
    /\ probedBy = 0
-----------------------------------------------------------------------------
(***************************************************************************)
(* stopLocked.  It tears down whatever the fields point to, which need not *)
(* be what the caller created.  It neither stops nor clears m.openvpn: that *)
(* process only ends with its context.                                     *)
(***************************************************************************)
StoppedFields_KeepTun == Kind \ {"openvpn", "tun"}
StoppedFields_KeepXray == Kind \ {"openvpn", "xray"}
StoppedFields == Kind \ {"openvpn"}

\* m.cancel() ends the context of the session that began last.
CancelContext_Forgotten == live
CancelContext == live \ {cancel}

\* The context of session s is cancelled, or a field of s's resource r is torn down.
TornDownBy(r, s) ==
    \/ r \in StoppedFields /\ ref[r] = s
    \/ r \in CtxBound /\ cancel = s

stopLocked ==
    /\ live' = CancelContext
    /\ cancel' = 0
    /\ ref' = [r \in Kind |-> IF r \in StoppedFields THEN 0 ELSE ref[r]]
    /\ res' = [r \in Kind |-> [s \in Session |->
                  IF res[r][s] \in {"up", "down"} /\ TornDownBy(r, s)
                  THEN "released" ELSE res[r][s]]]
    /\ authFiles' = authFiles \ {authRef}
    /\ authRef' = NoProfile
    /\ status' = Idle
    /\ probedBy' = 0

\* A Start is between its first check and its return.
InFlight(s) == pc[s] \in BeforeCommit \cup {"proxifier", "goroutines"}

\* A goroutine of session s is inside reconnectLoop.
Looping(s, g) == gpc[s][g] \in LoopStep

Quiet ==
    /\ \A s \in Session : ~InFlight(s)
    /\ \A s \in Session, g \in Goroutine : ~Looping(s, g)

(***************************************************************************)
(* Some goroutine only waits for the processor: a Start between two fast   *)
(* steps, a goroutine whose context or probed connection is closed, a loop *)
(* whose Start has returned.  With Timely such steps come before any timer *)
(* expires (they are seconds long) and before the user connects again.     *)
(***************************************************************************)
FastStep == {"register", "checkSSH", "regSSH", "bind", "regSOCKS", "ensure",
             "regRoutes", "commit", "goroutines", "fail"}

ProbeState(s, g) == res[snap[s][g].kind][snap[s][g].of]

Runnable ==
    \/ \E s \in Session : pc[s] \in FastStep
    \/ \E s \in Session, g \in Goroutine :
          \/ gpc[s][g] = "tick" /\ s \notin live
          \/ gpc[s][g] = "probe" /\ ProbeState(s, g) = "released"
          \/ gpc[s][g] \in {"stop", "head", "failed", "restop"}
          \/ gpc[s][g] = "start" /\ (last < MaxSessions \/ cancel # 0)
          \/ gpc[s][g] = "await" /\ ~InFlight(child[s][g])

\* A timer may expire, or the user may connect.
TimePasses == Timely => ~Runnable
-----------------------------------------------------------------------------
(***************************************************************************)
(* Start.                                                                  *)
(***************************************************************************)
FirstStep(p) ==
    IF Mode[p] = "openvpn" THEN "auth" ELSE IF Mode[p] = "ssh" THEN "dial" ELSE "spawn"

MayBegin_WhileConnecting == ~status.Running
MayBegin == ~status.Running /\ ~status.Connecting

\* The check and the assignments of Start's first critical section.
BeginSession(p) ==
    /\ MayBegin
    /\ last < MaxSessions
    /\ last' = last + 1
    /\ prof' = [prof EXCEPT ![last + 1] = p]
    /\ pc' = [pc EXCEPT ![last + 1] = FirstStep(p)]
    /\ cancel' = last + 1
    /\ live' = live \cup {last + 1}
    /\ manualStop' = FALSE
    /\ status' = [Idle EXCEPT !.Connecting = TRUE, !.ProfileID = p]
    /\ probedBy' = 0

UserStart(p) ==
    /\ TimePasses
    /\ Patient => Quiet
    /\ BeginSession(p)
    /\ UNCHANGED <<reconnecting, ref, authRef, res, authFiles, workers>>

\* A click on Disconnect or Cancel, which may come at any moment.
UserStop ==
    /\ manualStop' = TRUE
    /\ stopLocked
    /\ UNCHANGED <<reconnecting, starts, workers>>

(***************************************************************************)
(* ensureCurrent.  Its two reads are one step: the context is only ever    *)
(* cancelled together with the status, so the check of the context decides. *)
(***************************************************************************)
Current_StatusOnly(s) ==
    /\ cancel # 0
    /\ status.Connecting
    /\ status.ProfileID = prof[s]

Current(s) ==
    /\ s \in live
    /\ cancel # 0
    /\ status.Connecting
    /\ status.ProfileID = prof[s]

Goto(s, l) == pc' = [pc EXCEPT ![s] = l] /\ UNCHANGED <<last, prof>>

SetRes(r, s, v) == res' = [res EXCEPT ![r][s] = v]

\* An error return before the Manager's fields are touched.
Error(s) == Goto(s, "fail") /\ UNCHANGED <<fields, world, workers, probedBy>>

Helper(s) == Mode[prof[s]]

\* startOpenVPN writes the temporary credentials first ...
WriteAuth(s) ==
    /\ pc[s] = "auth"
    /\ \/ /\ authFiles' = IF TempAuth[prof[s]] THEN authFiles \cup {prof[s]} ELSE authFiles
          /\ Goto(s, "spawn")
          /\ UNCHANGED <<fields, res, live, workers, probedBy>>
       \/ Error(s)

\* os.Remove of the file on startOpenVPN's error path.
AuthRemoved(s) ==
    IF Helper(s) = "openvpn" /\ TempAuth[prof[s]] THEN authFiles \ {prof[s]} ELSE authFiles

(***************************************************************************)
(* ... and starts the process; a command is not started under a cancelled  *)
(* context, while the embedded DNSTT client may return just before it ends *)
(* with its context.  A failed start removes the credentials again.        *)
(***************************************************************************)
SpawnHelper(s) ==
    /\ pc[s] = "spawn"
    /\ UNCHANGED <<fields, live, workers, probedBy>>
    /\ \/ /\ s \in live \/ Helper(s) = "dnstt"
          /\ SetRes(Helper(s), s, IF s \in live THEN "up" ELSE "released")
          /\ Goto(s, "register")
          /\ UNCHANGED authFiles
       \/ /\ authFiles' = AuthRemoved(s)
          /\ Goto(s, "fail")
          /\ UNCHANGED res

RegisterHelper(s) ==
    /\ pc[s] = "register"
    /\ ref' = [ref EXCEPT ![Helper(s)] = s]
    /\ authRef' = IF Helper(s) = "openvpn"
                  THEN IF TempAuth[prof[s]] THEN prof[s] ELSE NoProfile
                  ELSE authRef
    /\ Goto(s, "settle")
    /\ UNCHANGED <<status, cancel, manualStop, reconnecting, world, workers, probedBy>>

(***************************************************************************)
(* The wait for the helper and the ensureCurrent after it.  OpenVPN may    *)
(* have reported ready and exited since; Xray is asked once more whether   *)
(* it exited and must answer on its port; DNSTT is only waited for.        *)
(***************************************************************************)
SettleHelper(s) ==
    /\ pc[s] = "settle"
    /\ UNCHANGED <<fields, authFiles, live, workers, probedBy>>
    /\ \/ /\ Current(s)
          /\ Helper(s) = "xray" => res["xray"][s] = "up"
          /\ Goto(s, IF Helper(s) = "dnstt" THEN "dial" ELSE "ensure")
          /\ UNCHANGED res
       \/ /\ ~Current(s)
          /\ IF Helper(s) # "dnstt" THEN SetRes(Helper(s), s, "released") ELSE UNCHANGED res
          /\ Goto(s, "fail")
       \/ /\ Helper(s) # "dnstt"
          /\ Goto(s, "fail")
          /\ UNCHANGED res

\* connectSSH: some attempt succeeds, or the last one fails.
DialSSH(s) ==
    /\ pc[s] = "dial"
    /\ \/ /\ SetRes("ssh", s, "up")
          /\ Goto(s, "checkSSH")
          /\ UNCHANGED <<fields, authFiles, live, workers, probedBy>>
       \/ Error(s)

CheckSSH(s) ==
    /\ pc[s] = "checkSSH"
    /\ UNCHANGED <<fields, authFiles, live, workers, probedBy>>
    /\ \/ Current(s) /\ Goto(s, "regSSH") /\ UNCHANGED res
       \/ ~Current(s) /\ Goto(s, "fail") /\ SetRes("ssh", s, "released")

RegisterSSH(s) ==
    /\ pc[s] = "regSSH"
    /\ ref' = [ref EXCEPT !["ssh"] = s]
    /\ Goto(s, "bind")
    /\ UNCHANGED <<status, cancel, manualStop, reconnecting, authRef, world, workers, probedBy>>

\* SocksServer.Start: the address must be free.
BindSOCKS(s) ==
    /\ pc[s] = "bind"
    /\ \/ /\ \A t \in Session : res["socks"][t] = "up" => Addr[prof[t]] # Addr[prof[s]]
          /\ SetRes("socks", s, "up")
          /\ Goto(s, "regSOCKS")
          /\ UNCHANGED <<fields, authFiles, live, workers, probedBy>>
       \/ Error(s)

RegisterSOCKS(s) ==
    /\ pc[s] = "regSOCKS"
    /\ ref' = [ref EXCEPT !["socks"] = s]
    /\ Goto(s, "waitTCP")
    /\ UNCHANGED <<status, cancel, manualStop, reconnecting, authRef, world, workers, probedBy>>

\* waitForTCP dials with the session's context.
WaitTCP_NoDeadline(s) ==
    /\ pc[s] = "waitTCP"
    /\ s \in live /\ res["socks"][s] = "up"
    /\ Goto(s, "ensure")
    /\ UNCHANGED <<fields, world, workers, probedBy>>

WaitTCP(s) ==
    /\ pc[s] = "waitTCP"
    /\ \/ /\ s \in live /\ res["socks"][s] = "up"
          /\ Goto(s, "ensure")
          /\ UNCHANGED <<fields, world, workers, probedBy>>
       \/ Error(s)

EnsureBeforeTun(s) ==
    /\ pc[s] = "ensure"
    /\ \/ /\ Current(s)
          /\ Goto(s, IF Tun[prof[s]] THEN "tunStart" ELSE "commit")
          /\ UNCHANGED <<fields, world, workers, probedBy>>
       \/ ~Current(s) /\ Error(s)

\* Something answers on the session's SOCKS address, its own listener or not.
ProxyReachable(s) ==
    \E t \in Session : /\ prof[t] # NoProfile /\ Addr[prof[t]] = Addr[prof[s]]
                       /\ res["socks"][t] = "up" \/ res["xray"][t] = "up"

\* Runner.Start: one TUN at a time, and only over a reachable proxy.
StartTun(s) ==
    /\ pc[s] = "tunStart"
    /\ \/ /\ ref["tun"] = 0 /\ Mode[prof[s]] # "openvpn" /\ ProxyReachable(s)
          /\ ref' = [ref EXCEPT !["tun"] = s]
          /\ SetRes("tun", s, "up")
          /\ Goto(s, "applyRoutes")
          /\ UNCHANGED <<status, cancel, manualStop, reconnecting, authRef,
                         authFiles, live, workers, probedBy>>
       \/ Error(s)

ApplyRoutes(s) ==
    /\ pc[s] = "applyRoutes"
    /\ SetRes("routes", s, "up")
    /\ Goto(s, "regRoutes")
    /\ UNCHANGED <<fields, authFiles, live, workers, probedBy>>

RegisterRoutes(s) ==
    /\ pc[s] = "regRoutes"
    /\ ref' = [ref EXCEPT !["routes"] = s]
    /\ Goto(s, "commit")
    /\ UNCHANGED <<status, cancel, manualStop, reconnecting, authRef, world, workers, probedBy>>

\* The last critical section of Start.
Commit(s) ==
    /\ pc[s] = "commit"
    /\ \/ /\ Current(s)
          /\ status' = [Idle EXCEPT !.Running = TRUE, !.ProfileID = prof[s]]
          /\ probedBy' = 0
          /\ Goto(s, IF Proxifier[prof[s]] /\ Mode[prof[s]] # "openvpn"
                     THEN "proxifier" ELSE "goroutines")
          /\ UNCHANGED <<cancel, manualStop, reconnecting, ref, authRef, world, workers>>
       \/ ~Current(s) /\ Error(s)

\* startProxifier; its error is only logged.
StartProxifier(s) ==
    /\ pc[s] = "proxifier"
    /\ \/ /\ ref' = [ref EXCEPT !["proxifier"] = s]
          /\ SetRes("proxifier", s, "up")
       \/ UNCHANGED <<ref, res>>
    /\ Goto(s, "goroutines")
    /\ UNCHANGED <<status, cancel, manualStop, reconnecting, authRef,
                   authFiles, live, workers, probedBy>>

\* startMonitor returns at once without reconnect, startKeepAlive does not.
Launched_ReconnectOnly(s, g) == Reconnect[prof[s]]
Launched(s, g) == g = "keepalive" \/ Reconnect[prof[s]]

\* Start launches verifyTraffic, the monitor and the keepalive, and returns nil.
LaunchGoroutines(s) ==
    /\ pc[s] = "goroutines"
    /\ verify' = [verify EXCEPT ![s] = IF Mode[prof[s]] = "openvpn" THEN "off" ELSE "wait"]
    /\ gpc' = [gpc EXCEPT ![s] = [g \in Goroutine |->
                  IF Launched(s, g) THEN "tick" ELSE "off"]]
    /\ Goto(s, "connected")
    /\ UNCHANGED <<fields, world, snap, child, attempt, probedBy>>

\* fail: m.stop(false), whichever session the fields belong to by now.
FailStart(s) ==
    /\ pc[s] = "fail"
    /\ stopLocked
    /\ Goto(s, "failed")
    /\ UNCHANGED <<manualStop, reconnecting, workers>>

StartStep(s) ==
    \/ WriteAuth(s) \/ SpawnHelper(s) \/ RegisterHelper(s) \/ SettleHelper(s)
    \/ DialSSH(s) \/ CheckSSH(s) \/ RegisterSSH(s) \/ BindSOCKS(s)
    \/ RegisterSOCKS(s) \/ WaitTCP(s) \/ EnsureBeforeTun(s) \/ StartTun(s)
    \/ ApplyRoutes(s) \/ RegisterRoutes(s) \/ Commit(s) \/ StartProxifier(s)
    \/ LaunchGoroutines(s) \/ FailStart(s)

-----------------------------------------------------------------------------
(***************************************************************************)
(* verifyTraffic.  It waits two seconds unless its context ends first (a   *)
(* select with both ready picks either), probes through the SOCKS address  *)
(* and writes the result into the status that is there by then.            *)
(***************************************************************************)
VerifyWait(s) ==
    /\ verify[s] = "wait"
    /\ \/ TimePasses /\ verify' = [verify EXCEPT ![s] = "probing"]
       \/ s \notin live /\ verify' = [verify EXCEPT ![s] = "done"]
    /\ UNCHANGED <<fields, world, starts, gpc, snap, child, attempt, probedBy>>

VerifyResult(s) ==
    /\ verify[s] = "probing"
    /\ \E result \in {"ok", "failed"} : status' = [status EXCEPT !.Traffic = result]
    /\ probedBy' = s
    /\ verify' = [verify EXCEPT ![s] = "done"]
    /\ UNCHANGED <<cancel, manualStop, reconnecting, ref, authRef, world, starts,
                   gpc, snap, child, attempt>>
-----------------------------------------------------------------------------
(***************************************************************************)
(* The monitor (probeConnection) and keepalive goroutines.                 *)
(***************************************************************************)
At(s, g, l) == gpc' = [gpc EXCEPT ![s][g] = l]

\* What probeConnection asks, in the order it looks at the fields.
MonitorTarget ==
    IF ~status.Running THEN NoTarget
    ELSE IF ref["openvpn"] # 0 THEN [kind |-> "openvpn", of |-> ref["openvpn"]]
    ELSE IF ref["xray"] # 0 THEN [kind |-> "xray", of |-> ref["xray"]]
    ELSE [kind |-> "ssh", of |-> ref["ssh"]]

ProbeTarget(g) == IF g = "monitor" THEN MonitorTarget ELSE [kind |-> "ssh", of |-> ref["ssh"]]

\* A tick: give up after a manual stop, else read the fields under the lock.
Tick(s, g) ==
    /\ gpc[s][g] = "tick"
    /\ TimePasses
    /\ \/ /\ manualStop
          /\ At(s, g, "done")
          /\ UNCHANGED snap
       \/ /\ ~manualStop
          /\ ProbeTarget(g).of # 0
          /\ snap' = [snap EXCEPT ![s][g] = ProbeTarget(g)]
          /\ At(s, g, "probe")
    /\ UNCHANGED <<fields, world, starts, child, attempt, verify, probedBy>>

\* ctx.Done; a tick that is ready at the same time may still be served first.
ContextDone(s, g) ==
    /\ gpc[s][g] = "tick"
    /\ s \notin live
    /\ At(s, g, "done")
    /\ UNCHANGED <<fields, world, starts, snap, child, attempt, verify, probedBy>>

Forget(s, g) == snap' = [snap EXCEPT ![s][g] = NoTarget]

\* The probe answers.  A killed process may not be reaped yet.
ProbeOK(s, g) ==
    /\ gpc[s][g] = "probe"
    /\ \/ ProbeState(s, g) = "up"
       \/ ProbeState(s, g) = "released" /\ snap[s][g].kind # "ssh"
    /\ At(s, g, "tick")
    /\ Forget(s, g)
    /\ UNCHANGED <<fields, world, starts, child, attempt, verify, probedBy>>

\* markReconnecting.
MayReconnect_Twice == ~manualStop
MayReconnect == ~manualStop /\ ~reconnecting

(***************************************************************************)
(* The probe fails: what it asks is gone, or does not answer in time (15   *)
(* seconds for a keepalive, two for Xray's port; OpenVPN is only asked     *)
(* whether it exited).  The goroutine enters reconnectLoop or, for a       *)
(* keepalive without reconnect, stops the tunnel.  A probe that may fail   *)
(* may still fail later, so this and markReconnecting are one step.  A     *)
(* goroutine in the loop remembers in snap what it found lost.             *)
(***************************************************************************)
TimesOut(s, g) == snap[s][g].kind # "openvpn" /\ TimePasses

ProbeFails(s, g) ==
    /\ gpc[s][g] = "probe"
    /\ ProbeState(s, g) # "up" \/ TimesOut(s, g)
    /\ UNCHANGED <<manualStop, starts, child, verify>>
    /\ \/ /\ ~Reconnect[prof[s]]
          /\ stopLocked
          /\ At(s, g, "done")
          /\ Forget(s, g)
          /\ UNCHANGED <<reconnecting, attempt>>
       \/ /\ Reconnect[prof[s]]
          /\ UNCHANGED <<status, cancel, ref, authRef, world, probedBy>>
          /\ \/ /\ ~MayReconnect
                /\ At(s, g, "done")
                /\ Forget(s, g)
                /\ UNCHANGED <<reconnecting, attempt>>
             \/ /\ MayReconnect
                /\ reconnecting' = TRUE
                /\ attempt' = [attempt EXCEPT ![s][g] = 1]
                /\ At(s, g, "stop")
                /\ UNCHANGED snap
-----------------------------------------------------------------------------
(***************************************************************************)
(* reconnectLoop.                                                          *)
(***************************************************************************)
LoopStop(s, g) ==
    /\ gpc[s][g] = "stop"
    /\ stopLocked
    /\ At(s, g, "head")
    /\ Forget(s, g)
    /\ UNCHANGED <<manualStop, reconnecting, starts, child, attempt, verify>>

\* The loop returns and the deferred clearReconnecting runs.
LeaveLoop(s, g) ==
    /\ At(s, g, "done")
    /\ reconnecting' = FALSE
    /\ UNCHANGED <<status, cancel, manualStop, ref, authRef, world, starts,
                   snap, child, attempt, verify, probedBy>>

StayInLoop(s, g, l) ==
    /\ At(s, g, l)
    /\ UNCHANGED <<fields, world, starts, snap, child, attempt, verify, probedBy>>

OutOfRetries(s, g) ==
    MaxRetries[prof[s]] > 0 /\ attempt[s][g] > MaxRetries[prof[s]]

LoopHead(s, g) ==
    /\ gpc[s][g] = "head"
    /\ IF OutOfRetries(s, g) \/ manualStop
       THEN LeaveLoop(s, g)
       ELSE StayInLoop(s, g, "delay")

LoopWake_Unchecked(s, g) ==
    /\ gpc[s][g] = "delay"
    /\ TimePasses
    /\ StayInLoop(s, g, "start")

LoopWake(s, g) ==
    /\ gpc[s][g] = "delay"
    /\ TimePasses
    /\ IF manualStop THEN LeaveLoop(s, g) ELSE StayInLoop(s, g, "start")

\* m.Start(p) with the profile the loop was entered with.
LoopStart(s, g) ==
    /\ gpc[s][g] = "start"
    /\ \/ /\ BeginSession(prof[s])
          /\ child' = [child EXCEPT ![s][g] = last + 1]
          /\ At(s, g, "await")
          /\ UNCHANGED <<reconnecting, ref, authRef, res, authFiles, snap, attempt, verify>>
       \/ /\ status.Running \/ status.Connecting
          /\ StayInLoop(s, g, "failed")

LoopAwait(s, g) ==
    /\ gpc[s][g] = "await"
    /\ \/ pc[child[s][g]] = "connected" /\ LeaveLoop(s, g)
       \/ pc[child[s][g]] = "failed" /\ StayInLoop(s, g, "failed")

\* An unlimited loop needs no attempt number.
NextAttempt(s, g) ==
    attempt' = IF MaxRetries[prof[s]] = 0 THEN attempt
               ELSE [attempt EXCEPT ![s][g] = @ + 1]

LoopStartFailed(s, g) ==
    /\ gpc[s][g] = "failed"
    /\ \/ manualStop /\ LeaveLoop(s, g)
       \/ ~manualStop /\ Tun[prof[s]] /\ StayInLoop(s, g, "restop")
       \/ /\ ~manualStop /\ ~Tun[prof[s]]
          /\ At(s, g, "head")
          /\ NextAttempt(s, g)
          /\ UNCHANGED <<fields, world, starts, snap, child, verify, probedBy>>

\* "destroying TUN after failed reconnect attempt"
LoopRestop(s, g) ==
    /\ gpc[s][g] = "restop"
    /\ stopLocked
    /\ At(s, g, "head")
    /\ NextAttempt(s, g)
    /\ UNCHANGED <<manualStop, reconnecting, starts, snap, child, verify>>

LoopActions(s, g) ==
    \/ LoopStop(s, g) \/ LoopHead(s, g) \/ LoopWake(s, g) \/ LoopStart(s, g)
    \/ LoopAwait(s, g) \/ LoopStartFailed(s, g) \/ LoopRestop(s, g)

Probing(s, g) == ProbeOK(s, g) \/ ProbeFails(s, g)
-----------------------------------------------------------------------------
\* The environment: a connection dies or a helper process exits by itself.
Lose(r, s) ==
    /\ res[r][s] = "up"
    /\ SetRes(r, s, "down")
    /\ UNCHANGED <<fields, authFiles, live, starts, workers, probedBy>>

Next ==
    \/ \E p \in Profile : UserStart(p)
    \/ UserStop
    \/ \E s \in Session : StartStep(s) \/ VerifyWait(s) \/ VerifyResult(s)
    \/ \E s \in Session, g \in Goroutine :
          Tick(s, g) \/ ContextDone(s, g) \/ Probing(s, g) \/ LoopActions(s, g)
    \/ \E s \in Session, r \in {"ssh"} \cup CtxBound : Lose(r, s)

Spec == Init /\ [][Next]_vars

(***************************************************************************)
(* Every goroutine is scheduled.  The user and the environment owe no step. *)
(* A select that keeps finding both its channels ready picks at random, so *)
(* it does not ignore ctx.Done for ever: strong fairness.  The keepalive's *)
(* ticker fires whatever the monitor does meanwhile.  connectSSH is        *)
(* the exception: ssh.NewClientConn reads from the connection with neither *)
(* a deadline nor the context, so it returns only if the server answers.   *)
(***************************************************************************)
Fairness ==
    /\ \A s \in Session :
          WF_vars(StartStep(s) /\ (ServersAnswer \/ pc[s] # "dial"))
    /\ \A s \in Session : WF_vars(VerifyWait(s)) /\ WF_vars(VerifyResult(s))
    /\ \A s \in Session, g \in Goroutine :
          /\ WF_vars(Tick(s, g))
          /\ WF_vars(Probing(s, g))
          /\ WF_vars(LoopActions(s, g))
          /\ SF_vars(ContextDone(s, g))
    /\ \A s \in Session : SF_vars(Tick(s, "keepalive"))

FairSpec == Spec /\ Fairness
-----------------------------------------------------------------------------
(***************************************************************************)
(* Session bookkeeping: at most one context is alive and it is the one     *)
(* m.cancel cancels, which is there exactly while the status says the      *)
(* tunnel is connecting or running, for the profile of that session.  (A   *)
(* context nobody can cancel any more would keep helper processes running.) *)
(***************************************************************************)
OneLiveSession ==
    /\ live = {cancel} \ {0}
    /\ cancel # 0 <=> status.Running \/ status.Connecting
    /\ ~(status.Running /\ status.Connecting)
    /\ cancel # 0 => cancel <= last /\ status.ProfileID = prof[cancel]
    /\ cancel = 0 => status.ProfileID = NoProfile

(***************************************************************************)
(* The status never outlives the Start it belongs to: while it says        *)
(* Connecting, the Start that set it has not returned, and it says Running *)
(* only after that very Start committed.                                   *)
(***************************************************************************)
StatusIsOwned ==
    /\ status.Connecting => pc[cancel] \in BeforeCommit
    /\ status.Running => pc[cancel] \in AfterCommit

(***************************************************************************)
(* markReconnecting admits one goroutine: the flag is up exactly while one *)
(* is inside reconnectLoop.                                                *)
(***************************************************************************)
OneReconnectLoop ==
    /\ reconnecting <=> \E s \in Session, g \in Goroutine : Looping(s, g)
    /\ \A s, t \in Session, g, h \in Goroutine :
          Looping(s, g) /\ Looping(t, h) => s = t /\ g = h

\* The resource exists and nobody has torn it down.
Held(r, s) == res[r][s] \in {"up", "down"} /\ ~(r \in CtxBound /\ res[r][s] = "down")

(***************************************************************************)
(* After everything has come to rest, only the running session's resources *)
(* exist: no connection, listener, process, TUN adapter or route of an     *)
(* earlier session is left behind, and with no tunnel no credential file   *)
(* is on disk.                                                             *)
(***************************************************************************)
NothingLeaks ==
    Quiet => /\ \A r \in Kind, s \in Session : Held(r, s) => s = cancel
             /\ cancel = 0 => authFiles = {}

(***************************************************************************)
(* manager.go, above stopLocked's removal of the auth file: "so plain text *)
(* credentials never stay on disk after the tunnel stops".                 *)
(***************************************************************************)
CredentialsRemoved == Quiet /\ cancel = 0 => authFiles = {}

(***************************************************************************)
(* manager.go, above startProxifier: "The process is killed when the       *)
(* tunnel stops."                                                          *)
(***************************************************************************)
ProxifierStopped ==
    Quiet /\ cancel = 0 => \A s \in Session : ~Held("proxifier", s)

(***************************************************************************)
(* Status.Traffic: the result shown is the one of the tunnel that is       *)
(* running ("failed" = connected but no traffic is passing).               *)
(***************************************************************************)
TrafficIsOfThisTunnel ==
    status.Traffic # "" => status.Running /\ probedBy = cancel

\* What the traffic of a tunnel hangs on.
Carrier(p) == IF Mode[p] = "dnstt" THEN "ssh" ELSE Mode[p]

\* A monitor or keepalive goroutine, or its reconnect loop, stops a running tunnel.
TearsDown(s, g) ==
    /\ cancel # 0 /\ status.Running /\ cancel' = 0
    /\ gpc[s][g] \in {"stop", "restop", "probe"} /\ gpc'[s][g] # gpc[s][g]

\* What it found lost is what the running tunnel hangs on.
FoundLost(s, g) == snap[s][g] = [kind |-> Carrier(prof[cancel]), of |-> cancel]

(***************************************************************************)
(* "If the tunnel is lost, it: stops the active tunnel ...": a running     *)
(* tunnel is torn down only by a goroutine whose own probe of this very    *)
(* tunnel failed, never by one that found an earlier session's connection  *)
(* or process gone, unless that was the process m.openvpn still points to. *)
(***************************************************************************)
OnlyLostTunnelsReconnect ==
    [][\A s \in Session, g \in Goroutine :
          TearsDown(s, g) => FoundLost(s, g) \/ snap[s][g].kind = "openvpn"]_vars

(***************************************************************************)
(* The same without the exception.  stopLocked does not clear m.openvpn,   *)
(* and probeConnection asks that process first whatever the mode.          *)
(***************************************************************************)
HealthyTunnelsStay ==
    [][\A s \in Session, g \in Goroutine : TearsDown(s, g) => FoundLost(s, g)]_vars

\* A loop has seen no manual stop and calls Start.
PastTheCheck == \E s \in Session, g \in Goroutine : gpc[s][g] = "start"

(***************************************************************************)
(* README: "Disconnect and Cancel stop the reconnect loop for the current  *)
(* session."  Wherever the loop is, asleep, tearing down or waiting for    *)
(* its Start, and however many retries it has left, it ends, unless it is  *)
(* between its last look at manualStop and the Start that resets it.       *)
(***************************************************************************)
StopEndsLoop == manualStop /\ ~PastTheCheck ~> ~reconnecting

(***************************************************************************)
(* The claim itself: the loop begins no session after a Stop.  A Stop      *)
(* between the two is forgotten, and a tunnel comes up that the user has   *)
(* just disconnected.                                                      *)
(***************************************************************************)
NoStartAfterStop ==
    [][\A s \in Session, g \in Goroutine :
          child'[s][g] # child[s][g] => ~manualStop]_vars

(***************************************************************************)
(* Above startKeepAlive: a dead connection is detected: "it either         *)
(* triggers the reconnect loop or, when reconnect is disabled, stops the   *)
(* tunnel cleanly so the UI shows Disconnected instead of a stale          *)
(* Connected".                                                             *)
(***************************************************************************)
DeadTunnelNoticed ==
    \A s \in Session :
       (cancel = s /\ res["ssh"][s] = "down") ~> cancel # s

\* Every Start ends: a tunnel does not stay "Connecting" for ever.
StartEnds == \A s \in Session : InFlight(s) ~> pc[s] \in {"connected", "failed"}

\* The life cycle as the rest of the program sees it.
Tunnel == INSTANCE TunnelStatus WITH
    phase   <- IF status.Running THEN "running"
               ELSE IF status.Connecting THEN "connecting" ELSE "idle",
    profile <- status.ProfileID,
    owner   <- cancel

(***************************************************************************)
(* Start, Stop, the failing Starts and the goroutines together never make  *)
(* the status do anything but what TunnelStatus allows.                    *)
(***************************************************************************)
ImplementsTunnelStatus == Tunnel!StatusSpec
=============================================================================
