---------------------------- MODULE ManagerProofs ---------------------------
(***************************************************************************)
(* Proofs about Manager, for any set of profiles, any number of sessions   *)
(* and any user: the type invariant, the session bookkeeping, the single   *)
(* reconnect loop, and the implementation of TunnelStatus; and, for a user *)
(* who waits and no proxifier, that nothing leaks and that only a lost     *)
(* tunnel is stopped to be reconnected.                                    *)
(***************************************************************************)
EXTENDS Manager, TLAPS

(***************************************************************************)
(* What the invariants of Manager need besides themselves: a session that  *)
(* has begun has a profile and a number up to last, and its goroutines     *)
(* exist only once its Start has returned.                                 *)
(***************************************************************************)
Begun ==
    \A s \in Session :
        /\ pc[s] # "none" => s <= last /\ prof[s] \in Profile
        /\ pc[s] # "connected" => \A g \in Goroutine : gpc[s][g] = "off"

Bookkeeping == Begun /\ OneLiveSession /\ StatusIsOwned

IInv == TypeOK /\ Bookkeeping

USE BoundAssumption, ProfileAssumption

\* Every mode has a first step, and it is one before the commit.
LEMMA FirstStepBeforeCommit ==
    ASSUME NEW p \in Profile
    PROVE  FirstStep(p) \in BeforeCommit
  BY DEF FirstStep, BeforeCommit

\* A helper process is one of the kinds of resources.
LEMMA HelperIsKind ==
    ASSUME NEW s \in Session, prof[s] \in Profile
    PROVE  Helper(s) \in Kind
  BY DEF Helper, Modes, Kind

\* The statuses the code assigns.
LEMMA IdleStatus ==
    Idle \in Status /\ ~Idle.Running /\ ~Idle.Connecting /\ Idle.ProfileID = NoProfile
  BY DEF Idle, Status

LEMMA ConnectingStatus ==
    ASSUME NEW p \in Profile
    PROVE  LET st == [Idle EXCEPT !.Connecting = TRUE, !.ProfileID = p]
           IN  st \in Status /\ ~st.Running /\ st.Connecting /\ st.ProfileID = p
  BY DEF Idle, Status

LEMMA RunningStatus ==
    ASSUME NEW p \in Profile
    PROVE  LET st == [Idle EXCEPT !.Running = TRUE, !.ProfileID = p]
           IN  st \in Status /\ st.Running /\ ~st.Connecting /\ st.ProfileID = p
  BY DEF Idle, Status

LEMMA TrafficStatus ==
    ASSUME status \in Status, NEW r \in {"ok", "failed"}
    PROVE  LET st == [status EXCEPT !.Traffic = r]
           IN  /\ st \in Status /\ st.Running = status.Running
               /\ st.Connecting = status.Connecting /\ st.ProfileID = status.ProfileID
  BY DEF Status

\* Init establishes the inductive invariant.
LEMMA InitIInv == Init => IInv
<1> SUFFICES ASSUME Init PROVE IInv
  OBVIOUS
<1>1. FieldsOK
  <2>1. status \in Status /\ manualStop \in BOOLEAN /\ reconnecting \in BOOLEAN
    BY IdleStatus DEF Init
  <2>2. ref \in [Kind -> 0..MaxSessions] /\ cancel \in 0..MaxSessions
    BY DEF Init
  <2> QED BY <2>1, <2>2 DEF Init, FieldsOK
<1>2. WorldOK
  BY DEF Init, WorldOK
<1>3. StartsOK
  BY DEF Init, StartsOK
<1>4. WorkersOK
  <2>1. NoTarget \in [kind : Kind, of : 0..MaxSessions]
    BY DEF NoTarget, Kind
  <2> QED BY <2>1 DEF Init, WorkersOK
<1>5. Bookkeeping
  BY DEF Init, Bookkeeping, Begun, OneLiveSession, StatusIsOwned, Idle
<1> QED BY <1>1, <1>2, <1>3, <1>4, <1>5 DEF IInv, TypeOK, Init

\* stopLocked keeps the types of everything it assigns.
LEMMA StopType ==
    ASSUME TypeOK, stopLocked, UNCHANGED <<manualStop, reconnecting>>
    PROVE  FieldsOK' /\ WorldOK' /\ probedBy' \in 0..MaxSessions
<1>1. FieldsOK'
  BY IdleStatus DEF TypeOK, FieldsOK, stopLocked
<1>2. WorldOK'
  <2>1. res' \in [Kind -> [Session -> {"none", "up", "down", "released"}]]
    BY DEF TypeOK, WorldOK, stopLocked
  <2> QED BY <2>1 DEF TypeOK, WorldOK, stopLocked, CancelContext
<1> QED BY <1>1, <1>2 DEF stopLocked

\* So does moving a Start on, and creating or releasing a resource.
LEMMA GotoType ==
    ASSUME TypeOK, NEW s \in Session,
           NEW l \in {"none", "failed"} \cup BeforeCommit \cup AfterCommit, Goto(s, l)
    PROVE  StartsOK'
  BY DEF TypeOK, StartsOK, Goto

LEMMA SetResType ==
    ASSUME TypeOK, NEW r \in Kind, NEW s \in Session,
           NEW v \in {"none", "up", "down", "released"}, SetRes(r, s, v),
           UNCHANGED <<authFiles, live>>
    PROVE  WorldOK'
  BY DEF TypeOK, WorldOK, SetRes

\* Updating what is kept per session and goroutine.
LEMMA ExceptType ==
    ASSUME NEW S, NEW f \in [Session -> [Goroutine -> S]],
           NEW s \in Session, NEW g \in Goroutine, NEW x \in S
    PROVE  [f EXCEPT ![s][g] = x] \in [Session -> [Goroutine -> S]]
  OBVIOUS

LEMMA AtType ==
    ASSUME TypeOK, NEW s \in Session, NEW g \in Goroutine,
           NEW l \in {"off", "tick", "probe", "done"} \cup LoopStep, At(s, g, l)
    PROVE  gpc' \in [Session -> [Goroutine -> {"off", "tick", "probe", "done"} \cup LoopStep]]
  BY DEF TypeOK, WorkersOK, At

LEMMA BeginType ==
    ASSUME TypeOK, NEW p \in Profile, BeginSession(p),
           UNCHANGED <<reconnecting, ref, authRef, res, authFiles>>
    PROVE  FieldsOK' /\ WorldOK' /\ StartsOK' /\ probedBy' \in 0..MaxSessions
<1>1. last + 1 \in Session
  BY DEF TypeOK, StartsOK, BeginSession, Session
<1>2. FieldsOK'
  <2>1. status' \in Status
    BY ConnectingStatus DEF BeginSession
  <2>2. manualStop' \in BOOLEAN
    BY DEF BeginSession
  <2>3. cancel' \in 0..MaxSessions
    BY <1>1 DEF BeginSession, Session
  <2> QED BY <2>1, <2>2, <2>3 DEF TypeOK, FieldsOK
<1>3. WorldOK'
  BY <1>1 DEF TypeOK, WorldOK, BeginSession
<1>4. StartsOK'
  BY <1>1, FirstStepBeforeCommit DEF TypeOK, StartsOK, BeginSession, Session
<1> QED BY <1>2, <1>3, <1>4 DEF BeginSession

\* A session between its first check and its return has a profile.
LEMMA HasProfile ==
    ASSUME IInv, NEW s \in Session, pc[s] # "none"
    PROVE  prof[s] \in Profile
  BY DEF IInv, Bookkeeping, Begun
-----------------------------------------------------------------------------
(***************************************************************************)
(* Types are preserved, action by action.                                  *)
(***************************************************************************)
LEMMA StartStepType ==
    ASSUME IInv, NEW s \in Session, StartStep(s)
    PROVE  TypeOK'
<1> USE DEF fields, world, workers
<1>t. TypeOK
  BY DEF IInv
<1>r. /\ UNCHANGED fields => FieldsOK'
      /\ UNCHANGED world => WorldOK'
      /\ UNCHANGED workers => WorkersOK'
      /\ UNCHANGED probedBy => probedBy' \in 0..MaxSessions
  BY <1>t DEF TypeOK, FieldsOK, WorldOK, WorkersOK
<1>g. \A l \in BeforeCommit \cup AfterCommit \cup {"failed"} : Goto(s, l) => StartsOK'
  BY <1>t, GotoType
<1>e. Error(s) => TypeOK'
  BY <1>r, <1>g DEF Error, TypeOK, BeforeCommit
<1>f. ASSUME NEW r \in Kind, ref' = [ref EXCEPT ![r] = s],
             UNCHANGED <<status, cancel, manualStop, reconnecting, authRef>>
      PROVE  FieldsOK'
  BY <1>t, <1>f DEF TypeOK, FieldsOK, Session
<1>1. CASE WriteAuth(s)
  <2>1. prof[s] \in Profile
    BY <1>1, HasProfile DEF WriteAuth
  <2>2. authFiles' \subseteq Profile /\ UNCHANGED <<res, live>> => WorldOK'
    BY <1>t DEF TypeOK, WorldOK
  <2> QED BY <1>1, <2>1, <2>2, <1>t, <1>r, <1>g, <1>e DEF WriteAuth, TypeOK, WorldOK, BeforeCommit
<1>2. CASE SpawnHelper(s)
  <2>1. prof[s] \in Profile /\ Helper(s) \in Kind
    BY <1>2, HasProfile, HelperIsKind DEF SpawnHelper
  <2>2. WorldOK'
    <3>1. CASE UNCHANGED res
      BY <1>2, <3>1, <2>1, <1>t DEF SpawnHelper, TypeOK, WorldOK, AuthRemoved
    <3>2. CASE SetRes(Helper(s), s, IF s \in live THEN "up" ELSE "released") /\ UNCHANGED authFiles
      BY <1>2, <3>2, <2>1, <1>t, SetResType DEF SpawnHelper
    <3> QED BY <1>2, <3>1, <3>2 DEF SpawnHelper
  <2> QED BY <1>2, <2>2, <1>r, <1>g DEF SpawnHelper, TypeOK, BeforeCommit
<1>3. CASE RegisterHelper(s)
  <2>1. prof[s] \in Profile /\ Helper(s) \in Kind
    BY <1>3, HasProfile, HelperIsKind DEF RegisterHelper
  <2>2. FieldsOK'
    BY <1>3, <2>1, <1>t DEF RegisterHelper, TypeOK, FieldsOK, Session
  <2> QED BY <1>3, <2>2, <1>r, <1>g DEF RegisterHelper, TypeOK, BeforeCommit
<1>4. CASE SettleHelper(s)
  <2>1. Helper(s) \in Kind
    BY <1>4, HasProfile, HelperIsKind DEF SettleHelper
  <2>2. WorldOK'
    BY <1>4, <2>1, <1>t, <1>r, SetResType DEF SettleHelper
  <2> QED BY <1>4, <2>2, <1>r, <1>g DEF SettleHelper, TypeOK, BeforeCommit
<1>5. CASE DialSSH(s)
  BY <1>5, <1>t, <1>r, <1>g, <1>e, SetResType DEF DialSSH, TypeOK, BeforeCommit, Kind
<1>6. CASE CheckSSH(s)
  BY <1>6, <1>t, <1>r, <1>g, SetResType DEF CheckSSH, TypeOK, BeforeCommit, Kind
<1>7. CASE RegisterSSH(s)
  BY <1>7, <1>r, <1>g, <1>f DEF RegisterSSH, TypeOK, BeforeCommit, Kind
<1>8. CASE BindSOCKS(s)
  BY <1>8, <1>t, <1>r, <1>g, <1>e, SetResType DEF BindSOCKS, TypeOK, BeforeCommit, Kind
<1>9. CASE RegisterSOCKS(s)
  BY <1>9, <1>r, <1>g, <1>f DEF RegisterSOCKS, TypeOK, BeforeCommit, Kind
<1>10. CASE WaitTCP(s)
  BY <1>10, <1>r, <1>g, <1>e DEF WaitTCP, TypeOK, BeforeCommit
<1>11. CASE EnsureBeforeTun(s)
  BY <1>11, <1>r, <1>g, <1>e DEF EnsureBeforeTun, TypeOK, BeforeCommit
<1>12. CASE StartTun(s)
  BY <1>12, <1>t, <1>r, <1>g, <1>e, <1>f, SetResType DEF StartTun, TypeOK, BeforeCommit, Kind
<1>13. CASE ApplyRoutes(s)
  BY <1>13, <1>t, <1>r, <1>g, SetResType DEF ApplyRoutes, TypeOK, BeforeCommit, Kind
<1>14. CASE RegisterRoutes(s)
  BY <1>14, <1>r, <1>g, <1>f DEF RegisterRoutes, TypeOK, BeforeCommit, Kind
<1>15. CASE Commit(s)
  <2>1. prof[s] \in Profile
    BY <1>15, HasProfile DEF Commit
  <2>2. CASE Current(s)
    <3>1. FieldsOK'
      BY <1>15, <2>1, <2>2, <1>t, RunningStatus DEF Commit, TypeOK, FieldsOK
    <3> QED BY <1>15, <2>2, <3>1, <1>r, <1>g DEF Commit, TypeOK, AfterCommit
  <2> QED BY <1>15, <2>2, <1>e DEF Commit
<1>16. CASE StartProxifier(s)
  <2>1. FieldsOK' /\ WorldOK'
    BY <1>16, <1>t, <1>r, <1>f, SetResType DEF StartProxifier, Kind
  <2> QED BY <1>16, <2>1, <1>r, <1>g DEF StartProxifier, TypeOK, AfterCommit
<1>17. CASE LaunchGoroutines(s)
  <2>1. WorkersOK'
    BY <1>17, <1>t DEF LaunchGoroutines, TypeOK, WorkersOK
  <2> QED BY <1>17, <2>1, <1>r, <1>g DEF LaunchGoroutines, TypeOK, AfterCommit
<1>18. CASE FailStart(s)
  <2>1. FieldsOK' /\ WorldOK' /\ probedBy' \in 0..MaxSessions
    BY <1>18, <1>t, StopType DEF FailStart
  <2> QED BY <1>18, <2>1, <1>r, <1>g DEF FailStart, TypeOK
<1> QED BY <1>1, <1>2, <1>3, <1>4, <1>5, <1>6, <1>7, <1>8, <1>9, <1>10, <1>11, <1>12,
           <1>13, <1>14, <1>15, <1>16, <1>17, <1>18 DEF StartStep

LEMMA GoroutineType ==
    ASSUME IInv, NEW s \in Session, NEW g \in Goroutine,
           Tick(s, g) \/ ContextDone(s, g) \/ Probing(s, g) \/ LoopActions(s, g)
    PROVE  TypeOK'
<1> USE DEF fields, world, starts
<1>t. TypeOK
  BY DEF IInv
<1>r. /\ UNCHANGED fields => FieldsOK'
      /\ UNCHANGED world => WorldOK'
      /\ UNCHANGED starts => StartsOK'
      /\ UNCHANGED probedBy => probedBy' \in 0..MaxSessions
  BY <1>t DEF TypeOK, FieldsOK, WorldOK, StartsOK
<1>a. \A l \in {"off", "tick", "probe", "done"} \cup LoopStep :
         At(s, g, l) /\ UNCHANGED <<snap, child, attempt, verify>> => WorkersOK'
  BY <1>t, AtType DEF TypeOK, WorkersOK
<1>n. NoTarget \in [kind : Kind, of : 0..MaxSessions]
  BY DEF NoTarget, Kind
<1>f. [snap EXCEPT ![s][g] = NoTarget] \in [Session -> [Goroutine -> [kind : Kind, of : 0..MaxSessions]]]
  BY <1>t, <1>n, ExceptType, Zenon DEF TypeOK, WorkersOK
<1>c. reconnecting' = FALSE /\ UNCHANGED <<status, cancel, manualStop, ref, authRef>> => FieldsOK'
  BY <1>t DEF TypeOK, FieldsOK
<1>l. LeaveLoop(s, g) => TypeOK'
  BY <1>r, <1>a, <1>c DEF LeaveLoop, TypeOK
<1>s. \A l \in LoopStep : StayInLoop(s, g, l) => TypeOK'
  BY <1>r, <1>a DEF StayInLoop, TypeOK
<1>1. CASE Tick(s, g)
  <2>1. ProbeTarget(g) \in [kind : Kind, of : 0..MaxSessions]
    BY <1>t, <1>n DEF ProbeTarget, MonitorTarget, TypeOK, FieldsOK, Kind
  <2>2. snap' \in [Session -> [Goroutine -> [kind : Kind, of : 0..MaxSessions]]]
    <3>1. UNCHANGED snap \/ snap' = [snap EXCEPT ![s][g] = ProbeTarget(g)]
      BY <1>1 DEF Tick
    <3>2. [snap EXCEPT ![s][g] = ProbeTarget(g)]
             \in [Session -> [Goroutine -> [kind : Kind, of : 0..MaxSessions]]]
      BY <1>t, <2>1, ExceptType, Zenon DEF TypeOK, WorkersOK
    <3> QED BY <3>1, <3>2, <1>t DEF TypeOK, WorkersOK
  <2>3. WorkersOK'
    BY <1>1, <1>t, <2>2, AtType DEF Tick, TypeOK, WorkersOK
  <2> QED BY <1>1, <2>3, <1>r DEF Tick, TypeOK
<1>2. CASE ContextDone(s, g)
  BY <1>2, <1>r, <1>a DEF ContextDone, TypeOK
<1>3. CASE ProbeOK(s, g) \/ ProbeFails(s, g)
  <2>1. snap' \in [Session -> [Goroutine -> [kind : Kind, of : 0..MaxSessions]]]
    <3>1. UNCHANGED snap \/ snap' = [snap EXCEPT ![s][g] = NoTarget]
      BY <1>3 DEF ProbeOK, ProbeFails, Forget
    <3> QED BY <3>1, <1>f, <1>t DEF TypeOK, WorkersOK
  <2>2. gpc' \in [Session -> [Goroutine -> {"off", "tick", "probe", "done"} \cup LoopStep]]
    BY <1>3, <1>t, AtType DEF ProbeOK, ProbeFails, LoopStep
  <2>3. attempt' \in [Session -> [Goroutine -> Nat]]
    <3>1. UNCHANGED attempt \/ attempt' = [attempt EXCEPT ![s][g] = 1]
      BY <1>3 DEF ProbeOK, ProbeFails
    <3>2. [attempt EXCEPT ![s][g] = 1] \in [Session -> [Goroutine -> Nat]]
      BY <1>t, ExceptType DEF TypeOK, WorkersOK
    <3> QED BY <3>1, <3>2, <1>t DEF TypeOK, WorkersOK
  <2>4. WorkersOK'
    BY <1>3, <1>t, <2>1, <2>2, <2>3 DEF ProbeOK, ProbeFails, TypeOK, WorkersOK
  <2>5. FieldsOK' /\ WorldOK' /\ probedBy' \in 0..MaxSessions
    <3>1. CASE stopLocked /\ UNCHANGED <<manualStop, reconnecting>>
      BY <3>1, <1>t, StopType
    <3>2. CASE UNCHANGED <<fields, world, probedBy>>
      BY <3>2, <1>r
    <3>3. CASE reconnecting' = TRUE /\ UNCHANGED <<status, cancel, manualStop, ref, authRef, world, probedBy>>
      BY <3>3, <1>t, <1>r DEF TypeOK, FieldsOK
    <3> QED BY <1>3, <3>1, <3>2, <3>3 DEF ProbeOK, ProbeFails
  <2> QED BY <1>3, <2>4, <2>5, <1>r DEF ProbeOK, ProbeFails, TypeOK
<1>4. CASE LoopStop(s, g)
  <2>1. WorkersOK'
    BY <1>4, <1>t, <1>f, AtType DEF LoopStop, Forget, TypeOK, WorkersOK, LoopStep
  <2> QED BY <1>4, <1>t, <1>r, <2>1, StopType DEF LoopStop, TypeOK
<1>5. CASE LoopHead(s, g)
  BY <1>5, <1>l, <1>s DEF LoopHead, LoopStep
<1>6. CASE LoopWake(s, g)
  BY <1>6, <1>l, <1>s DEF LoopWake, LoopStep
<1>7. CASE LoopStart(s, g)
  <2>1. CASE StayInLoop(s, g, "failed")
    BY <2>1, <1>s DEF LoopStep
  <2>2. CASE /\ BeginSession(prof[s])
             /\ child' = [child EXCEPT ![s][g] = last + 1]
             /\ At(s, g, "await")
             /\ UNCHANGED <<reconnecting, ref, authRef, res, authFiles, snap, attempt, verify>>
    <3>1. pc[s] # "none"
      BY <1>7 DEF LoopStart, IInv, Bookkeeping, Begun
    <3>2. FieldsOK' /\ WorldOK' /\ StartsOK' /\ probedBy' \in 0..MaxSessions
      BY <2>2, <3>1, <1>t, HasProfile, BeginType
    <3>3. last + 1 \in 0..MaxSessions
      BY <2>2, <1>t DEF BeginSession, TypeOK, StartsOK
    <3>4. child' \in [Session -> [Goroutine -> 0..MaxSessions]]
      BY <2>2, <3>3, <1>t DEF TypeOK, WorkersOK
    <3>5. WorkersOK'
      BY <2>2, <3>4, <1>t, AtType DEF TypeOK, WorkersOK, LoopStep
    <3> QED BY <3>2, <3>5 DEF TypeOK
  <2> QED BY <1>7, <2>1, <2>2 DEF LoopStart
<1>8. CASE LoopAwait(s, g)
  BY <1>8, <1>l, <1>s DEF LoopAwait, LoopStep
<1>x. NextAttempt(s, g) => attempt' \in [Session -> [Goroutine -> Nat]]
  BY <1>t DEF NextAttempt, TypeOK, WorkersOK
<1>y. At(s, g, "head") /\ NextAttempt(s, g) /\ UNCHANGED <<snap, child, verify>> => WorkersOK'
  BY <1>t, <1>x, AtType DEF TypeOK, WorkersOK, LoopStep
<1>9. CASE LoopStartFailed(s, g)
  BY <1>9, <1>l, <1>s, <1>r, <1>y DEF LoopStartFailed, LoopStep, TypeOK
<1>10. CASE LoopRestop(s, g)
  BY <1>10, <1>t, <1>r, <1>y, StopType DEF LoopRestop, TypeOK
<1> QED BY <1>1, <1>2, <1>3, <1>4, <1>5, <1>6, <1>7, <1>8, <1>9, <1>10
        DEF Probing, LoopActions

LEMMA TypeStep == IInv /\ [Next]_vars => TypeOK'
<1> SUFFICES ASSUME IInv, [Next]_vars PROVE TypeOK'
  OBVIOUS
<1> USE DEF fields, world, starts, workers
<1>t. TypeOK
  BY DEF IInv
<1>1. ASSUME NEW p \in Profile, UserStart(p) PROVE TypeOK'
  BY <1>1, <1>t, BeginType DEF UserStart, TypeOK, WorkersOK
<1>2. CASE UserStop
  <2>1. FieldsOK'
    BY <1>2, <1>t, IdleStatus DEF UserStop, stopLocked, TypeOK, FieldsOK
  <2>2. WorldOK'
    BY <1>2, <1>t DEF UserStop, stopLocked, TypeOK, WorldOK, CancelContext
  <2> QED BY <1>2, <2>1, <2>2, <1>t DEF UserStop, stopLocked, TypeOK, StartsOK, WorkersOK
<1>3. ASSUME NEW s \in Session, VerifyWait(s) PROVE TypeOK'
  <2>1. verify' \in [Session -> {"off", "wait", "probing", "done"}]
    BY <1>3, <1>t DEF VerifyWait, TypeOK, WorkersOK
  <2> QED BY <1>3, <1>t, <2>1 DEF VerifyWait, TypeOK, FieldsOK, WorldOK, StartsOK, WorkersOK
<1>4. ASSUME NEW s \in Session, VerifyResult(s) PROVE TypeOK'
  <2>1. verify' \in [Session -> {"off", "wait", "probing", "done"}]
    BY <1>4, <1>t DEF VerifyResult, TypeOK, WorkersOK
  <2>2. status' \in Status
    BY <1>4, <1>t, TrafficStatus DEF VerifyResult, TypeOK, FieldsOK
  <2>3. probedBy' \in 0..MaxSessions
    BY <1>4 DEF VerifyResult, Session
  <2> QED BY <1>4, <1>t, <2>1, <2>2, <2>3
          DEF VerifyResult, TypeOK, FieldsOK, WorldOK, StartsOK, WorkersOK
<1>5. ASSUME NEW s \in Session, NEW r \in {"ssh"} \cup CtxBound, Lose(r, s) PROVE TypeOK'
  <2>1. r \in Kind
    BY DEF CtxBound, Kind
  <2>2. WorldOK'
    BY <1>5, <2>1, <1>t, SetResType DEF Lose
  <2> QED BY <1>5, <1>t, <2>2 DEF Lose, TypeOK, FieldsOK, StartsOK, WorkersOK
<1>6. CASE UNCHANGED vars
  BY <1>6, <1>t DEF vars, TypeOK, FieldsOK, WorldOK, StartsOK, WorkersOK
<1> QED BY <1>1, <1>2, <1>3, <1>4, <1>5, <1>6, StartStepType, GoroutineType DEF Next
-----------------------------------------------------------------------------
(***************************************************************************)
(* The session bookkeeping.  A step is one of four kinds for it: it tears  *)
(* down, it begins a session, it moves a Start on without leaving its side *)
(* of the commit, or it is the commit.                                     *)
(***************************************************************************)
LEMMA TearDownKeeps ==
    ASSUME IInv, stopLocked, UNCHANGED last
    PROVE  OneLiveSession' /\ StatusIsOwned'
  BY IdleStatus DEF IInv, Bookkeeping, OneLiveSession, StatusIsOwned, stopLocked, CancelContext

LEMMA BeginKeeps ==
    ASSUME IInv, NEW p \in Profile, BeginSession(p)
    PROVE  OneLiveSession' /\ StatusIsOwned'
<1>1. last + 1 \in Session /\ last' = last + 1 /\ cancel' = last + 1
  BY DEF IInv, TypeOK, StartsOK, BeginSession, Session
<1>2. ~status'.Running /\ status'.Connecting /\ status'.ProfileID = p
  BY ConnectingStatus DEF BeginSession
<1>3. cancel = 0 /\ live = {}
  BY DEF IInv, Bookkeeping, OneLiveSession, BeginSession, MayBegin
<1>4. live' = {cancel'} \ {0}
  BY <1>1, <1>3 DEF BeginSession, Session
<1>5. prof'[cancel'] = p /\ pc'[cancel'] = FirstStep(p)
  BY <1>1 DEF IInv, TypeOK, StartsOK, BeginSession
<1>6. cancel' <= last' /\ cancel' # 0
  BY <1>1 DEF Session
<1> QED BY <1>2, <1>4, <1>5, <1>6, FirstStepBeforeCommit DEF OneLiveSession, StatusIsOwned

\* Nothing but the traffic of the status and the place of one Start changes.
SameStatus ==
    /\ UNCHANGED <<cancel, live>>
    /\ status'.Running = status.Running /\ status'.Connecting = status.Connecting
    /\ status'.ProfileID = status.ProfileID

LEMMA MoveKeeps ==
    ASSUME IInv, SameStatus, NEW s \in Session, NEW l, Goto(s, l),
           \/ pc[s] \in BeforeCommit /\ l \in BeforeCommit
           \/ pc[s] \in AfterCommit /\ l \in AfterCommit
    PROVE  OneLiveSession' /\ StatusIsOwned'
  BY DEF IInv, TypeOK, FieldsOK, StartsOK, Bookkeeping, OneLiveSession, StatusIsOwned,
         SameStatus, Goto, BeforeCommit, AfterCommit

LEMMA StayKeeps ==
    ASSUME IInv, SameStatus, UNCHANGED starts
    PROVE  OneLiveSession' /\ StatusIsOwned'
  BY DEF IInv, Bookkeeping, OneLiveSession, StatusIsOwned, SameStatus, starts

\* ensureCurrent and the commit under the lock let only the owner through.
LEMMA CurrentIsOwner ==
    ASSUME IInv, NEW s \in Session, Current(s)
    PROVE  s = cancel
  BY DEF IInv, Bookkeeping, OneLiveSession, Current

LEMMA CommitKeeps ==
    ASSUME IInv, NEW s \in Session, Commit(s), Current(s)
    PROVE  OneLiveSession' /\ StatusIsOwned'
<1>1. s = cancel /\ prof[s] \in Profile
  BY CurrentIsOwner, HasProfile DEF Commit
<1>2. status'.Running /\ ~status'.Connecting /\ status'.ProfileID = prof[s]
  BY <1>1, RunningStatus DEF Commit
<1>3. pc'[s] \in AfterCommit
  BY DEF Commit, Goto, IInv, TypeOK, StartsOK, AfterCommit
<1>4. cancel' = cancel /\ live' = live /\ last' = last /\ prof' = prof
  BY DEF Commit, Goto, world
<1>5. cancel # 0
  BY <1>1 DEF Session
<1>6. OneLiveSession'
  BY <1>1, <1>2, <1>4, <1>5 DEF IInv, Bookkeeping, OneLiveSession
<1>7. StatusIsOwned'
  BY <1>1, <1>2, <1>3, <1>4 DEF StatusIsOwned
<1> QED BY <1>6, <1>7

\* Begun is about the place of the Starts and their goroutines only.
LEMMA BegunStart ==
    ASSUME IInv, NEW s \in Session, NEW l, Goto(s, l), pc[s] # "none", pc[s] # "connected",
           UNCHANGED gpc
    PROVE  Begun'
  BY DEF IInv, TypeOK, StartsOK, Bookkeeping, Begun, Goto

LEMMA BegunBegin ==
    ASSUME IInv, NEW p \in Profile, BeginSession(p), UNCHANGED gpc
    PROVE  Begun'
<1>1. last + 1 \in Session /\ pc[last + 1] = "none"
  BY DEF IInv, TypeOK, StartsOK, Bookkeeping, Begun, BeginSession, Session
<1> SUFFICES ASSUME NEW t \in Session
             PROVE  /\ pc'[t] # "none" => t <= last' /\ prof'[t] \in Profile
                    /\ pc'[t] # "connected" => \A g \in Goroutine : gpc'[t][g] = "off"
  BY DEF Begun
<1>2. CASE t = last + 1
  BY <1>1, <1>2 DEF IInv, TypeOK, StartsOK, Bookkeeping, Begun, BeginSession
<1>3. CASE t # last + 1
  <2>1. pc'[t] = pc[t] /\ prof'[t] = prof[t] /\ last' = last + 1
    BY <1>1, <1>3 DEF IInv, TypeOK, StartsOK, BeginSession
  <2> QED BY <2>1 DEF IInv, TypeOK, StartsOK, Bookkeeping, Begun, Session
<1> QED BY <1>2, <1>3

LEMMA BegunAt ==
    ASSUME IInv, NEW s \in Session, NEW g \in Goroutine, NEW l, At(s, g, l),
           gpc[s][g] # "off", UNCHANGED starts
    PROVE  Begun'
  BY DEF IInv, TypeOK, WorkersOK, Bookkeeping, Begun, At, starts

LEMMA StartStepKeeps ==
    ASSUME IInv, NEW s \in Session, StartStep(s)
    PROVE  Bookkeeping'
<1> USE DEF fields, world, workers
<1>m. /\ UNCHANGED <<status, cancel, live>> => SameStatus
      /\ BeforeCommit \cap {"none", "connected"} = {}
  BY DEF SameStatus, BeforeCommit
<1>e. Error(s) /\ pc[s] \in BeforeCommit => Bookkeeping'
  BY <1>m, MoveKeeps, BegunStart DEF Error, Bookkeeping, BeforeCommit
<1>1. CASE WriteAuth(s)
  BY <1>1, <1>m, <1>e, MoveKeeps, BegunStart DEF WriteAuth, Bookkeeping, BeforeCommit
<1>2. CASE SpawnHelper(s)
  BY <1>2, <1>m, MoveKeeps, BegunStart DEF SpawnHelper, Bookkeeping, BeforeCommit
<1>3. CASE RegisterHelper(s)
  BY <1>3, <1>m, MoveKeeps, BegunStart DEF RegisterHelper, Bookkeeping, BeforeCommit
<1>4. CASE SettleHelper(s)
  BY <1>4, <1>m, MoveKeeps, BegunStart DEF SettleHelper, Bookkeeping, BeforeCommit
<1>5. CASE DialSSH(s) \/ CheckSSH(s) \/ RegisterSSH(s)
  BY <1>5, <1>m, <1>e, MoveKeeps, BegunStart
     DEF DialSSH, CheckSSH, RegisterSSH, Bookkeeping, BeforeCommit
<1>6. CASE BindSOCKS(s) \/ RegisterSOCKS(s) \/ WaitTCP(s)
  BY <1>6, <1>m, <1>e, MoveKeeps, BegunStart
     DEF BindSOCKS, RegisterSOCKS, WaitTCP, Bookkeeping, BeforeCommit
<1>7. CASE EnsureBeforeTun(s) \/ StartTun(s)
  BY <1>7, <1>m, <1>e, MoveKeeps, BegunStart
     DEF EnsureBeforeTun, StartTun, Bookkeeping, BeforeCommit
<1>8. CASE ApplyRoutes(s) \/ RegisterRoutes(s)
  BY <1>8, <1>m, MoveKeeps, BegunStart
     DEF ApplyRoutes, RegisterRoutes, Bookkeeping, BeforeCommit
<1>9. CASE Commit(s)
  <2>1. CASE Current(s)
    BY <1>9, <2>1, CommitKeeps, BegunStart DEF Commit, Bookkeeping
  <2> QED BY <1>9, <2>1, <1>e DEF Commit, BeforeCommit
<1>10. CASE StartProxifier(s)
  BY <1>10, <1>m, MoveKeeps, BegunStart DEF StartProxifier, Bookkeeping, AfterCommit
<1>11. CASE LaunchGoroutines(s)
  <2>1. Begun'
    BY <1>11 DEF LaunchGoroutines, Goto, IInv, TypeOK, StartsOK, WorkersOK, Bookkeeping, Begun
  <2>2. OneLiveSession' /\ StatusIsOwned'
    BY <1>11, <1>m, MoveKeeps DEF LaunchGoroutines, AfterCommit
  <2> QED BY <2>1, <2>2 DEF Bookkeeping
<1>12. CASE FailStart(s)
  BY <1>12, TearDownKeeps, BegunStart DEF FailStart, Goto, Bookkeeping
<1> QED BY <1>1, <1>2, <1>3, <1>4, <1>5, <1>6, <1>7, <1>8, <1>9, <1>10, <1>11, <1>12
        DEF StartStep

LEMMA GoroutineKeeps ==
    ASSUME IInv, NEW s \in Session, NEW g \in Goroutine,
           Tick(s, g) \/ ContextDone(s, g) \/ Probing(s, g) \/ LoopActions(s, g)
    PROVE  Bookkeeping'
<1> USE DEF fields, world, starts
<1>m. UNCHANGED <<status, cancel, live>> => SameStatus
  BY DEF SameStatus
<1>q. \A l : At(s, g, l) /\ UNCHANGED <<status, cancel, live, starts>> /\ gpc[s][g] # "off"
             => Bookkeeping'
  BY <1>m, StayKeeps, BegunAt DEF Bookkeeping
<1>d. \A l : At(s, g, l) /\ stopLocked /\ UNCHANGED starts /\ gpc[s][g] # "off"
             => Bookkeeping'
  BY TearDownKeeps, BegunAt DEF Bookkeeping
<1>1. CASE Tick(s, g) \/ ContextDone(s, g) \/ ProbeOK(s, g)
  BY <1>1, <1>q DEF Tick, ContextDone, ProbeOK
<1>2. CASE ProbeFails(s, g)
  BY <1>2, <1>q, <1>d DEF ProbeFails
<1>3. CASE LoopStop(s, g) \/ LoopRestop(s, g)
  BY <1>3, <1>d DEF LoopStop, LoopRestop
<1>l. LeaveLoop(s, g) /\ gpc[s][g] # "off" => Bookkeeping'
  BY <1>q DEF LeaveLoop
<1>s. \A l : StayInLoop(s, g, l) /\ gpc[s][g] # "off" => Bookkeeping'
  BY <1>q DEF StayInLoop
<1>4. CASE LoopHead(s, g) \/ LoopWake(s, g) \/ LoopAwait(s, g)
  BY <1>4, <1>l, <1>s DEF LoopHead, LoopWake, LoopAwait
<1>5. CASE LoopStartFailed(s, g)
  BY <1>5, <1>l, <1>s, <1>q DEF LoopStartFailed
<1>6. CASE LoopStart(s, g)
  <2>1. CASE StayInLoop(s, g, "failed")
    BY <1>6, <2>1, <1>s DEF LoopStart
  <2>2. CASE BeginSession(prof[s]) /\ At(s, g, "await")
    <3>1. pc[s] = "connected" /\ prof[s] \in Profile
      BY <1>6 DEF LoopStart, IInv, Bookkeeping, Begun
    <3>2. OneLiveSession' /\ StatusIsOwned'
      BY <2>2, <3>1, BeginKeeps
    <3>3. last + 1 \in Session /\ pc[last + 1] = "none"
      BY <2>2 DEF IInv, TypeOK, StartsOK, Bookkeeping, Begun, BeginSession, Session
    <3>4. \A t \in Session : t # s => \A h \in Goroutine : gpc'[t][h] = gpc[t][h]
      BY <2>2 DEF At, IInv, TypeOK, WorkersOK
    <3>5. ASSUME NEW t \in Session
          PROVE  /\ pc'[t] # "none" => t <= last' /\ prof'[t] \in Profile
                 /\ pc'[t] # "connected" => \A h \in Goroutine : gpc'[t][h] = "off"
      <4>1. CASE t = last + 1
        BY <2>2, <3>1, <3>3, <3>4, <4>1
           DEF IInv, TypeOK, StartsOK, Bookkeeping, Begun, BeginSession
      <4>2. CASE t # last + 1
        <5>1. pc'[t] = pc[t] /\ prof'[t] = prof[t] /\ last' = last + 1
          BY <2>2, <3>3, <4>2 DEF IInv, TypeOK, StartsOK, BeginSession
        <5>2. pc[t] # "none" => t <= last + 1 /\ prof[t] \in Profile
          BY DEF IInv, TypeOK, StartsOK, Bookkeeping, Begun, Session
        <5>3. pc[t] # "connected" => \A h \in Goroutine : gpc'[t][h] = "off"
          BY <3>1, <3>4 DEF IInv, Bookkeeping, Begun
        <5> QED BY <5>1, <5>2, <5>3
      <4> QED BY <4>1, <4>2
    <3> QED BY <3>2, <3>5 DEF Bookkeeping, Begun
  <2> QED BY <1>6, <2>1, <2>2 DEF LoopStart
<1> QED BY <1>1, <1>2, <1>3, <1>4, <1>5, <1>6 DEF Probing, LoopActions

LEMMA KeepsStep == IInv /\ [Next]_vars => Bookkeeping'
<1> SUFFICES ASSUME IInv, [Next]_vars PROVE Bookkeeping'
  OBVIOUS
<1> USE DEF fields, world, starts, workers
<1>b. UNCHANGED <<starts, gpc>> => Begun'
  BY DEF IInv, Bookkeeping, Begun
<1>1. ASSUME NEW p \in Profile, UserStart(p) PROVE Bookkeeping'
  BY <1>1, BeginKeeps, BegunBegin DEF UserStart, Bookkeeping
<1>2. CASE UserStop
  BY <1>2, <1>b, TearDownKeeps DEF UserStop, Bookkeeping
<1>3. ASSUME NEW s \in Session, VerifyWait(s) \/ VerifyResult(s) PROVE Bookkeeping'
  <2>1. SameStatus
    BY <1>3, TrafficStatus DEF VerifyWait, VerifyResult, SameStatus, IInv, TypeOK, FieldsOK
  <2> QED BY <1>3, <2>1, <1>b, StayKeeps DEF VerifyWait, VerifyResult, Bookkeeping
<1>4. ASSUME NEW s \in Session, NEW r, Lose(r, s) PROVE Bookkeeping'
  BY <1>4, <1>b, StayKeeps DEF Lose, SameStatus, Bookkeeping
<1>5. CASE UNCHANGED vars
  BY <1>5, <1>b, StayKeeps DEF vars, SameStatus, Bookkeeping
<1> QED BY <1>1, <1>2, <1>3, <1>4, <1>5, StartStepKeeps, GoroutineKeeps DEF Next

\* The inductive invariant holds in every state.
LEMMA Invariance == Spec => []IInv
<1>1. IInv /\ [Next]_vars => IInv'
  BY TypeStep, KeepsStep DEF IInv
<1> QED BY InitIInv, <1>1, PTL DEF Spec

\* Manager's variables keep their types, whatever the user and the network do.
THEOREM TypeCorrect == Spec => []TypeOK
<1>1. IInv => TypeOK
  BY DEF IInv
<1> QED BY Invariance, <1>1, PTL

(***************************************************************************)
(* At most one session's context is alive; m.cancel cancels it, and it is  *)
(* there exactly while the status says connecting or running.              *)
(***************************************************************************)
THEOREM OneLiveSessionHolds == Spec => []OneLiveSession
<1>1. IInv => OneLiveSession
  BY DEF IInv, Bookkeeping
<1> QED BY Invariance, <1>1, PTL

\* Connecting and Running are said of a Start on the right side of its commit.
THEOREM StatusIsOwnedHolds == Spec => []StatusIsOwned
<1>1. IInv => StatusIsOwned
  BY DEF IInv, Bookkeeping
<1> QED BY Invariance, <1>1, PTL
-----------------------------------------------------------------------------
(***************************************************************************)
(* One reconnect loop.  A goroutine enters the loop only while the flag is *)
(* down, and whoever leaves it is the only one inside.                     *)
(***************************************************************************)
LoopInv == IInv /\ OneReconnectLoop

\* A step of the goroutines of s that keeps them all on their side of the loop.
LEMMA SameLoops ==
    ASSUME OneReconnectLoop, UNCHANGED reconnecting,
           \A s \in Session, g \in Goroutine : Looping(s, g)' <=> Looping(s, g)
    PROVE  OneReconnectLoop'
  BY DEF OneReconnectLoop

LEMMA AtLooping ==
    ASSUME IInv, NEW s \in Session, NEW g \in Goroutine, NEW l, At(s, g, l)
    PROVE  /\ Looping(s, g)' <=> l \in LoopStep
           /\ \A t \in Session, h \in Goroutine :
                 t # s \/ h # g => (Looping(t, h)' <=> Looping(t, h))
  BY DEF IInv, TypeOK, WorkersOK, At, Looping

LEMMA LoopStays ==
    ASSUME LoopInv, NEW s \in Session, NEW g \in Goroutine, NEW l, At(s, g, l),
           UNCHANGED reconnecting, l \in LoopStep <=> Looping(s, g)
    PROVE  OneReconnectLoop'
  BY AtLooping, SameLoops DEF LoopInv

LEMMA LoopLeft ==
    ASSUME LoopInv, NEW s \in Session, NEW g \in Goroutine, Looping(s, g),
           LeaveLoop(s, g)
    PROVE  OneReconnectLoop'
<1>1. "done" \notin LoopStep
  BY DEF LoopStep
<1>2. \A t \in Session, h \in Goroutine : ~Looping(t, h)'
  BY <1>1, AtLooping DEF LoopInv, OneReconnectLoop, LeaveLoop
<1> QED BY <1>2 DEF OneReconnectLoop, LeaveLoop

LEMMA LoopEntered ==
    ASSUME LoopInv, NEW s \in Session, NEW g \in Goroutine, At(s, g, "stop"),
           ~reconnecting, reconnecting' = TRUE
    PROVE  OneReconnectLoop'
<1>1. \A t \in Session, h \in Goroutine : ~Looping(t, h)
  BY DEF LoopInv, OneReconnectLoop
<1>2. Looping(s, g)' /\ \A t \in Session, h \in Goroutine : Looping(t, h)' => t = s /\ h = g
  BY <1>1, AtLooping DEF LoopInv, LoopStep
<1> QED BY <1>2 DEF OneReconnectLoop

LEMMA LoopStepKeeps == LoopInv /\ [Next]_vars => OneReconnectLoop'
<1> SUFFICES ASSUME LoopInv, [Next]_vars PROVE OneReconnectLoop'
  OBVIOUS
<1> USE DEF fields, workers
<1>u. UNCHANGED <<reconnecting, gpc>> => OneReconnectLoop'
  BY DEF LoopInv, OneReconnectLoop, Looping
<1>1. CASE (\E p \in Profile : UserStart(p)) \/ UserStop \/ UNCHANGED vars
  BY <1>1, <1>u DEF UserStart, UserStop, vars
<1>2. ASSUME NEW s \in Session, StartStep(s) PROVE OneReconnectLoop'
  <2>1. CASE LaunchGoroutines(s)
    <3>1. \A h \in Goroutine : gpc[s][h] = "off"
      BY <2>1 DEF LaunchGoroutines, LoopInv, IInv, Bookkeeping, Begun
    <3>2. \A t \in Session, h \in Goroutine : Looping(t, h)' <=> Looping(t, h)
      BY <2>1, <3>1 DEF LaunchGoroutines, Looping, LoopStep, LoopInv, IInv, TypeOK, WorkersOK
    <3> QED BY <2>1, <3>2, SameLoops DEF LaunchGoroutines, LoopInv
  <2>2. CASE ~LaunchGoroutines(s)
    <3>1. UNCHANGED <<reconnecting, gpc>>
      BY <1>2, <2>2
         DEF StartStep, WriteAuth, SpawnHelper, RegisterHelper, SettleHelper, DialSSH, CheckSSH,
             RegisterSSH, BindSOCKS, RegisterSOCKS, WaitTCP, EnsureBeforeTun, StartTun,
             ApplyRoutes, RegisterRoutes, Commit, StartProxifier, FailStart, Error
    <3> QED BY <3>1, <1>u
  <2> QED BY <2>1, <2>2
<1>3. ASSUME NEW s \in Session, VerifyWait(s) \/ VerifyResult(s) PROVE OneReconnectLoop'
  BY <1>3, <1>u DEF VerifyWait, VerifyResult
<1>4. ASSUME NEW s \in Session, NEW r, Lose(r, s) PROVE OneReconnectLoop'
  BY <1>4, <1>u DEF Lose
<1>5. ASSUME NEW s \in Session, NEW g \in Goroutine,
             Tick(s, g) \/ ContextDone(s, g) \/ ProbeOK(s, g) PROVE OneReconnectLoop'
  BY <1>5, LoopStays DEF Tick, ContextDone, ProbeOK, Looping, LoopStep
<1>6. ASSUME NEW s \in Session, NEW g \in Goroutine, ProbeFails(s, g) PROVE OneReconnectLoop'
  <2>1. CASE At(s, g, "done") /\ UNCHANGED reconnecting
    BY <1>6, <2>1, LoopStays DEF ProbeFails, Looping, LoopStep
  <2>2. CASE At(s, g, "stop") /\ ~reconnecting /\ reconnecting' = TRUE
    BY <2>2, LoopEntered
  <2> QED BY <1>6, <2>1, <2>2 DEF ProbeFails, MayReconnect
<1>7. ASSUME NEW s \in Session, NEW g \in Goroutine, LoopActions(s, g) PROVE OneReconnectLoop'
  <2>1. Looping(s, g)
    BY <1>7 DEF LoopActions, LoopStop, LoopHead, LoopWake, LoopStart, LoopAwait,
                LoopStartFailed, LoopRestop, Looping, LoopStep
  <2>2. \/ LeaveLoop(s, g)
        \/ \E l \in LoopStep : At(s, g, l) /\ UNCHANGED reconnecting
    BY <1>7 DEF LoopActions, LoopStop, LoopHead, LoopWake, LoopStart, LoopAwait,
                LoopStartFailed, LoopRestop, StayInLoop, LoopStep
  <2> QED BY <2>1, <2>2, LoopLeft, LoopStays
<1> QED BY <1>1, <1>2, <1>3, <1>4, <1>5, <1>6, <1>7 DEF Next, Probing

(***************************************************************************)
(* m.reconnecting admits at most one goroutine to reconnectLoop, and is up *)
(* exactly while one is inside.                                            *)
(***************************************************************************)
THEOREM OneReconnectLoopHolds == Spec => []OneReconnectLoop
<1>1. Init => OneReconnectLoop
  BY DEF Init, OneReconnectLoop, Looping, LoopStep
<1>2. IInv /\ OneReconnectLoop /\ [Next]_vars => OneReconnectLoop'
  BY LoopStepKeeps DEF LoopInv
<1> QED BY Invariance, <1>1, <1>2, PTL DEF Spec
-----------------------------------------------------------------------------
(***************************************************************************)
(* Manager implements TunnelStatus: to everyone who only looks at m.status *)
(* and m.cancel, every step of Start, Stop and the goroutines is a step of *)
(* the abstract tunnel or no step at all.                                  *)
(***************************************************************************)
USE DEF Tunnel!statusVars

\* The phase the refinement mapping reads off the status.
Phase == IF status.Running THEN "running"
         ELSE IF status.Connecting THEN "connecting" ELSE "idle"

Mapped == [Tunnel!StatusNext]_(Tunnel!statusVars)

\* stopLocked is TornDown, or nothing when there was no tunnel.
LEMMA TearDownMaps ==
    ASSUME IInv, stopLocked, UNCHANGED last
    PROVE  Mapped
<1>1. Phase' = "idle" /\ status'.ProfileID = NoProfile /\ cancel' = 0
  BY IdleStatus DEF stopLocked, Phase
<1>2. CASE Phase = "idle"
  <2>1. cancel = 0 /\ status.ProfileID = NoProfile
    BY <1>2 DEF IInv, Bookkeeping, OneLiveSession, Phase
  <2> QED BY <1>1, <1>2, <2>1 DEF Mapped, Phase
<1>3. CASE Phase # "idle"
  BY <1>1, <1>3 DEF Mapped, Tunnel!StatusNext, Tunnel!TornDown, Phase
<1> QED BY <1>2, <1>3

\* Start's first critical section is Connect.
LEMMA BeginMaps ==
    ASSUME IInv, NEW p \in Profile, BeginSession(p)
    PROVE  Mapped
<1>1. Phase' = "connecting" /\ status'.ProfileID = p /\ cancel' = last + 1 /\ last' = last + 1
  BY ConnectingStatus DEF BeginSession, Phase
<1>2. Phase = "idle"
  BY DEF BeginSession, Phase, MayBegin
<1> QED BY <1>1, <1>2 DEF Mapped, Tunnel!StatusNext, Tunnel!Connect, Phase

\* Its last one, if it is still current, is Established.
LEMMA CommitMaps ==
    ASSUME IInv, NEW s \in Session, Commit(s), Current(s)
    PROVE  Mapped
<1>1. s = cancel /\ prof[s] \in Profile
  BY CurrentIsOwner, HasProfile DEF Commit
<1>2. Phase' = "running" /\ status'.ProfileID = prof[s] /\ UNCHANGED <<cancel, last>>
  BY <1>1, RunningStatus DEF Commit, Goto, Phase
<1>3. Phase = "connecting" /\ status.ProfileID = prof[s]
  BY DEF Current, IInv, Bookkeeping, OneLiveSession, Phase
<1> QED BY <1>2, <1>3 DEF Mapped, Tunnel!StatusNext, Tunnel!Established, Phase

\* Everything else is invisible.
LEMMA SameMaps ==
    ASSUME SameStatus, UNCHANGED last
    PROVE  Mapped
<1>1. Phase' = Phase /\ UNCHANGED cancel /\ status'.ProfileID = status.ProfileID
  BY DEF SameStatus, Phase
<1> QED BY <1>1 DEF Mapped, Phase

LEMMA StartStepMaps ==
    ASSUME IInv, NEW s \in Session, StartStep(s)
    PROVE  Mapped
<1>1. CASE Commit(s) /\ Current(s)
  BY <1>1, CommitMaps
<1>2. CASE FailStart(s)
  BY <1>2, TearDownMaps DEF FailStart, Goto
<1>3. CASE ~(Commit(s) /\ Current(s)) /\ ~FailStart(s)
  <2>1. UNCHANGED <<status, cancel, live, last>>
    BY <1>3
       DEF StartStep, WriteAuth, SpawnHelper, RegisterHelper, SettleHelper, DialSSH, CheckSSH,
           RegisterSSH, BindSOCKS, RegisterSOCKS, WaitTCP, EnsureBeforeTun, StartTun, ApplyRoutes,
           RegisterRoutes, Commit, StartProxifier, LaunchGoroutines, Error, Goto, fields, world
  <2> QED BY <2>1, SameMaps DEF SameStatus
<1> QED BY <1>1, <1>2, <1>3

LEMMA GoroutineMaps ==
    ASSUME IInv, NEW s \in Session, NEW g \in Goroutine,
           Tick(s, g) \/ ContextDone(s, g) \/ Probing(s, g) \/ LoopActions(s, g)
    PROVE  Mapped
<1> USE DEF fields, world, starts
<1>q. UNCHANGED <<status, cancel, live, last>> => Mapped
  BY SameMaps DEF SameStatus
<1>1. CASE stopLocked /\ UNCHANGED last
  BY <1>1, TearDownMaps
<1>2. CASE LoopStart(s, g)
  <2>1. CASE BeginSession(prof[s])
    <3>1. prof[s] \in Profile
      BY <1>2 DEF LoopStart, IInv, Bookkeeping, Begun
    <3> QED BY <2>1, <3>1, BeginMaps
  <2> QED BY <1>2, <2>1, <1>q DEF LoopStart, StayInLoop
<1>3. CASE ~(stopLocked /\ UNCHANGED last) /\ ~LoopStart(s, g)
  <2>1. UNCHANGED <<status, cancel, live, last>>
    BY <1>3 DEF Tick, ContextDone, Probing, ProbeOK, ProbeFails, LoopActions, LoopStop, LoopHead,
                LoopWake, LoopAwait, LoopStartFailed, LoopRestop, LeaveLoop, StayInLoop
  <2> QED BY <2>1, <1>q
<1> QED BY <1>1, <1>2, <1>3

LEMMA NextMaps == IInv /\ [Next]_vars => Mapped
<1> SUFFICES ASSUME IInv, [Next]_vars PROVE Mapped
  OBVIOUS
<1> USE DEF fields, world, starts
<1>1. ASSUME NEW p \in Profile, UserStart(p) PROVE Mapped
  BY <1>1, BeginMaps DEF UserStart
<1>2. CASE UserStop
  BY <1>2, TearDownMaps DEF UserStop
<1>3. ASSUME NEW s \in Session, VerifyWait(s) \/ VerifyResult(s) PROVE Mapped
  <2>1. SameStatus /\ UNCHANGED last
    BY <1>3, TrafficStatus DEF VerifyWait, VerifyResult, SameStatus, IInv, TypeOK, FieldsOK
  <2> QED BY <2>1, SameMaps
<1>4. ASSUME NEW s \in Session, NEW r, Lose(r, s) PROVE Mapped
  BY <1>4, SameMaps DEF Lose, SameStatus
<1>5. CASE UNCHANGED vars
  BY <1>5, SameMaps DEF vars, SameStatus
<1> QED BY <1>1, <1>2, <1>3, <1>4, <1>5, StartStepMaps, GoroutineMaps DEF Next

(***************************************************************************)
(* Start, Stop, failing Starts, the probes and reconnectLoop implement the *)
(* abstract tunnel, for every set of profiles and number of sessions.      *)
(***************************************************************************)
THEOREM Refinement == Spec => ImplementsTunnelStatus
<1>1. Init => Tunnel!StatusInit
  BY IdleStatus DEF Init, Tunnel!StatusInit
<1>2. IInv /\ [Next]_vars => [Tunnel!StatusNext]_(Tunnel!statusVars)
  BY NextMaps DEF Mapped
<1> QED BY Invariance, <1>1, <1>2, PTL DEF Spec, ImplementsTunnelStatus, Tunnel!StatusSpec
-----------------------------------------------------------------------------
(***************************************************************************)
(* The rest is about a user who connects only when nothing is in flight    *)
(* and timers that leave runnable goroutines the time to run: the setting  *)
(* in which nothing leaks.  Without the first a Start overtakes another,   *)
(* without the second a goroutine of the last tunnel probes the next one.  *)
(* startProxifier runs after the last check of Start and leaks even then,  *)
(* so no profile launches it.                                              *)
(***************************************************************************)
Calm ==
    /\ Patient /\ Timely
    /\ \A p \in Profile : Proxifier[p] => Mode[p] = "openvpn"

\* The steps of Start that each mode takes.
ModeSteps ==
    \A s \in Session :
        /\ pc[s] = "auth" => Helper(s) = "openvpn"
        /\ pc[s] \in {"spawn", "register", "settle"} => Helper(s) # "ssh"
        /\ pc[s] \in {"dial", "checkSSH", "regSSH"} => Helper(s) \in {"ssh", "dnstt"}
        /\ pc[s] # "proxifier"

\* One Start at a time, and it is the owner's if there is one.
OneStart ==
    \A s, t \in Session : InFlight(s) /\ (InFlight(t) \/ t = cancel) => s = t

\* Neither running nor about to.
Resting(s, g) == gpc[s][g] \in {"off", "done"}

(***************************************************************************)
(* While a Start is in flight no goroutine runs but the loop that waits    *)
(* for it; a goroutine that runs while a tunnel is up is one of that       *)
(* tunnel's; a loop between two Starts has no tunnel, and one about to     *)
(* start the next has no other goroutine beside it.                        *)
(***************************************************************************)
SoloAt(s, g) ==
    /\ gpc[s][g] \notin {"off", "done", "await"} =>
          cancel \in {0, s} /\ \A t \in Session : ~InFlight(t)
    /\ gpc[s][g] = "await" =>
          /\ child[s][g] \in Session /\ cancel \in {0, child[s][g]}
          /\ \A t \in Session : InFlight(t) => t = child[s][g]
          /\ pc[child[s][g]] = "failed" => cancel = 0
    /\ gpc[s][g] \in {"head", "delay", "start", "failed", "restop"} => cancel = 0
    /\ gpc[s][g] = "start" =>
          \A t \in Session, h \in Goroutine : (t = s /\ h = g) \/ Resting(t, h)

Solo == \A s \in Session, g \in Goroutine : SoloAt(s, g)

(***************************************************************************)
(* A resource that exists is one the next stopLocked takes away, or one    *)
(* its Start, still in flight, has yet to register.                        *)
(***************************************************************************)
Unregistered(r, s) ==
    \/ r = "ssh" /\ pc[s] \in {"checkSSH", "regSSH"}
    \/ r = "socks" /\ pc[s] = "regSOCKS"
    \/ r = "routes" /\ pc[s] = "regRoutes"

Stoppable(r, s) ==
    \/ r \in CtxBound /\ s = cancel
    \/ r \in StoppedFields /\ ref[r] = s /\ (s = cancel \/ pc[s] \in BeforeCommit)

Owned ==
    \A r \in Kind, s \in Session :
        res[r][s] \in {"up", "down"} => Stoppable(r, s) \/ Unregistered(r, s)

\* What is registered, about to be, or probed was created.
RefsCreated == \A r \in Kind : ref[r] # 0 => res[r][ref[r]] # "none"

StartsCreated ==
    \A s \in Session :
        /\ pc[s] = "register" => res[Helper(s)][s] # "none"
        /\ pc[s] \in {"checkSSH", "regSSH"} => res["ssh"][s] # "none"
        /\ pc[s] = "regSOCKS" => res["socks"][s] # "none"
        /\ pc[s] = "regRoutes" => res["routes"][s] # "none"

ProbesCreated ==
    \A s \in Session, g \in Goroutine :
        gpc[s][g] = "probe" => snap[s][g].of # 0 /\ ProbeState(s, g) # "none"

Created == RefsCreated /\ StartsCreated /\ ProbesCreated

\* Steps at which a session's credentials are in authRef's care.
Registered == (BeforeCommit \cup AfterCommit) \ {"auth", "spawn", "register"}

\* authRef names a file only for a Start or a tunnel that is still there.
AuthHeld ==
    authRef # NoProfile =>
       \E s \in Session : pc[s] \in Registered /\ (s = cancel \/ pc[s] \in BeforeCommit)

\* A credential file is the one authRef names, or its Start has yet to say so.
FileOwned(p) ==
    \/ p = authRef
    \/ \E s \in Session : /\ pc[s] \in {"spawn", "register"} /\ Helper(s) = "openvpn"
                          /\ prof[s] = p /\ TempAuth[p]

AuthOwned == AuthHeld /\ \A p \in authFiles : FileOwned(p)

(***************************************************************************)
(* What the probes find in the fields: a resource of the running tunnel,   *)
(* except that m.openvpn may still be an earlier session's.                *)
(***************************************************************************)
Targets ==
    \A r \in {"xray", "openvpn", "ssh"} :
        ref[r] # 0 =>
           /\ pc[ref[r]] # "none"
           /\ IF r = "ssh" THEN Helper(ref[r]) \in {"ssh", "dnstt"} ELSE Helper(ref[r]) = r
           /\ r # "openvpn" => ref[r] = cancel \/ pc[ref[r]] \in BeforeCommit

(***************************************************************************)
(* While a tunnel runs, what a goroutine probes or has found lost is what  *)
(* that tunnel hangs on, or the process m.openvpn points to.               *)
(***************************************************************************)
TellingAt(s, g) ==
    gpc[s][g] \in {"probe", "stop"} /\ cancel # 0 =>
        FoundLost(s, g) \/ snap[s][g].kind = "openvpn"

Telling == \A s \in Session, g \in Goroutine : TellingAt(s, g)

CalmInv ==
    /\ IInv /\ OneReconnectLoop
    /\ ModeSteps /\ OneStart /\ Solo
    /\ Owned /\ Created /\ AuthOwned
    /\ Targets /\ Telling

\* A step of Start moves one session and leaves the profiles alone.
LEMMA GotoMoves ==
    ASSUME IInv, NEW s \in Session, NEW l, Goto(s, l)
    PROVE  /\ pc'[s] = l /\ UNCHANGED <<prof, last>>
           /\ \A t \in Session : t # s => pc'[t] = pc[t]
  BY DEF IInv, TypeOK, StartsOK, Goto

\* A session begins from scratch, with no other context alive.
LEMMA BeginFacts ==
    ASSUME IInv, NEW p \in Profile, BeginSession(p)
    PROVE  LET n == last + 1
           IN  /\ n \in Session /\ pc[n] = "none" /\ cancel = 0 /\ live = {} /\ cancel' = n
               /\ pc'[n] = FirstStep(p) /\ prof'[n] = p
               /\ \A g \in Goroutine : gpc[n][g] = "off"
               /\ \A t \in Session : t # n => pc'[t] = pc[t] /\ prof'[t] = prof[t]
<1>1. last + 1 \in Session /\ pc[last + 1] = "none"
  BY DEF IInv, TypeOK, StartsOK, Bookkeeping, Begun, BeginSession, Session
<1>2. cancel = 0 /\ live = {}
  BY DEF IInv, Bookkeeping, OneLiveSession, BeginSession, MayBegin
<1>3. \A g \in Goroutine : gpc[last + 1][g] = "off"
  BY <1>1 DEF IInv, Bookkeeping, Begun
<1> QED BY <1>1, <1>2, <1>3 DEF BeginSession, IInv, TypeOK, StartsOK

\* A goroutine's step moves that goroutine only.
LEMMA AtMoves ==
    ASSUME IInv, NEW s \in Session, NEW g \in Goroutine, NEW l, At(s, g, l)
    PROVE  /\ gpc'[s][g] = l
           /\ \A t \in Session, h \in Goroutine : t # s \/ h # g => gpc'[t][h] = gpc[t][h]
  BY DEF IInv, TypeOK, WorkersOK, At

(***************************************************************************)
(* When no Start is in flight, there is no tunnel and time passes, every   *)
(* goroutine outside the loop rests: a waiting one would have seen its     *)
(* context end, and a probing one its connection closed.                   *)
(***************************************************************************)
LEMMA AllRest ==
    ASSUME CalmInv, Calm, TimePasses, cancel = 0, \A t \in Session : ~InFlight(t),
           NEW s \in Session, NEW g \in Goroutine, ~Looping(s, g)
    PROVE  Resting(s, g)
<1>1. ~Runnable /\ live = {}
  BY DEF TimePasses, Calm, CalmInv, IInv, Bookkeeping, OneLiveSession
<1>2. gpc[s][g] # "tick"
  BY <1>1 DEF Runnable
<1>3. gpc[s][g] # "probe"
  <2> SUFFICES ASSUME gpc[s][g] = "probe" PROVE FALSE
    OBVIOUS
  <2> DEFINE r == snap[s][g].kind
             o == snap[s][g].of
  <2>1. r \in Kind /\ o \in Session
    BY DEF CalmInv, Created, ProbesCreated, IInv, TypeOK, WorkersOK, Session
  <2>2. res[r][o] # "released" /\ res[r][o] # "none"
    BY <1>1 DEF Runnable, ProbeState, CalmInv, Created, ProbesCreated
  <2>3. res[r][o] \in {"up", "down"}
    BY <2>1, <2>2 DEF CalmInv, IInv, TypeOK, WorldOK
  <2>4. Stoppable(r, o) \/ Unregistered(r, o)
    BY <2>1, <2>3 DEF CalmInv, Owned
  <2>5. pc[o] \notin BeforeCommit /\ o # cancel
    BY <2>1 DEF InFlight, Session
  <2> QED BY <2>4, <2>5 DEF Stoppable, Unregistered, BeforeCommit
<1>4. gpc[s][g] \in {"off", "tick", "probe", "done"} \cup LoopStep
  BY DEF CalmInv, IInv, TypeOK, WorkersOK
<1> QED BY <1>2, <1>3, <1>4 DEF Looping, Resting
-----------------------------------------------------------------------------
(***************************************************************************)
(* Control: which Start and which goroutines run beside each other.        *)
(***************************************************************************)
Control == ModeSteps /\ OneStart /\ Solo

\* A Start that goes on changes nothing about who runs.
LEMMA MoveControl ==
    ASSUME CalmInv, NEW s \in Session, NEW l \in BeforeCommit \cup {"goroutines"}, Goto(s, l),
           InFlight(s), UNCHANGED <<cancel, gpc, child>>
    PROVE  OneStart' /\ Solo'
<1>1. pc'[s] = l /\ \A t \in Session : t # s => pc'[t] = pc[t]
  BY GotoMoves DEF CalmInv
<1>2. \A t \in Session : InFlight(t)' <=> InFlight(t)
  BY <1>1 DEF InFlight
<1>3. OneStart'
  BY <1>2 DEF CalmInv, OneStart
<1>4. ASSUME NEW t \in Session, NEW h \in Goroutine PROVE SoloAt(t, h)'
  <2>1. SoloAt(t, h)
    BY DEF CalmInv, Solo
  <2>2. \A u \in Session : pc'[u] = "failed" => pc[u] = "failed"
    BY <1>1 DEF BeforeCommit
  <2> QED BY <1>2, <2>1, <2>2 DEF SoloAt, Resting
<1> QED BY <1>3, <1>4 DEF Solo

\* Neither does a stop: without an owner everything about the owner holds.
LEMMA StopControl ==
    ASSUME CalmInv, cancel' = 0, UNCHANGED <<gpc, child>>,
           \A t \in Session : (InFlight(t)' => InFlight(t)) /\ (pc[t] = "none" => pc'[t] = "none")
    PROVE  OneStart' /\ Solo'
<1>1. OneStart'
  BY DEF CalmInv, OneStart, Session
<1>2. ASSUME NEW t \in Session, NEW h \in Goroutine PROVE SoloAt(t, h)'
  <2>1. SoloAt(t, h)
    BY DEF CalmInv, Solo
  <2> QED BY <2>1 DEF SoloAt, Resting
<1> QED BY <1>1, <1>2 DEF Solo

\* The places of Start that ModeSteps speaks of.
LEMMA ModeMove ==
    ASSUME CalmInv, NEW s \in Session, NEW l, Goto(s, l),
           /\ l = "auth" => Helper(s) = "openvpn"
           /\ l \in {"spawn", "register", "settle"} => Helper(s) # "ssh"
           /\ l \in {"dial", "checkSSH", "regSSH"} => Helper(s) \in {"ssh", "dnstt"}
           /\ l # "proxifier"
    PROVE  ModeSteps'
  BY GotoMoves DEF CalmInv, ModeSteps, Helper

LEMMA StartStepControl ==
    ASSUME CalmInv, Calm, NEW s \in Session, StartStep(s)
    PROVE  Control'
<1> USE DEF fields, world, workers
<1>i. IInv /\ ModeSteps
  BY DEF CalmInv
<1>m. ASSUME NEW l \in BeforeCommit \cup {"goroutines"}, Goto(s, l),
             UNCHANGED <<cancel, gpc, child>>, pc[s] \in BeforeCommit,
             l \notin {"auth", "spawn", "register", "settle", "dial", "checkSSH", "regSSH"}
      PROVE  Control'
  <2>1. InFlight(s)
    BY <1>m DEF InFlight
  <2>2. ModeSteps'
    BY <1>m, ModeMove DEF BeforeCommit
  <2> QED BY <1>m, <2>1, <2>2, MoveControl DEF Control
<1>e. Error(s) /\ pc[s] \in BeforeCommit => Control'
  BY <1>m DEF Error, BeforeCommit
<1>n. ASSUME NEW l \in {"spawn", "register", "settle", "dial", "checkSSH", "regSSH"}, Goto(s, l),
             UNCHANGED <<cancel, gpc, child>>, pc[s] \in BeforeCommit,
             /\ l \in {"spawn", "register", "settle"} => Helper(s) # "ssh"
             /\ l \in {"dial", "checkSSH", "regSSH"} => Helper(s) \in {"ssh", "dnstt"}
      PROVE  Control'
  <2>1. InFlight(s) /\ l \in BeforeCommit
    BY <1>n DEF InFlight, BeforeCommit
  <2>2. ModeSteps'
    BY <1>n, ModeMove
  <2> QED BY <1>n, <2>1, <2>2, MoveControl DEF Control
<1>1. CASE WriteAuth(s)
  BY <1>1, <1>i, <1>e, <1>n DEF WriteAuth, BeforeCommit, ModeSteps
<1>2. CASE SpawnHelper(s)
  BY <1>2, <1>i, <1>m, <1>n DEF SpawnHelper, BeforeCommit, ModeSteps
<1>3. CASE RegisterHelper(s)
  BY <1>3, <1>i, <1>n DEF RegisterHelper, BeforeCommit, ModeSteps
<1>4. CASE SettleHelper(s)
  BY <1>4, <1>m, <1>n DEF SettleHelper, BeforeCommit
<1>5. CASE DialSSH(s) \/ CheckSSH(s) \/ RegisterSSH(s)
  BY <1>5, <1>i, <1>e, <1>m, <1>n DEF DialSSH, CheckSSH, RegisterSSH, BeforeCommit, ModeSteps
<1>6. CASE BindSOCKS(s) \/ RegisterSOCKS(s) \/ WaitTCP(s) \/ EnsureBeforeTun(s)
  BY <1>6, <1>e, <1>m DEF BindSOCKS, RegisterSOCKS, WaitTCP, EnsureBeforeTun, BeforeCommit
<1>7. CASE StartTun(s) \/ ApplyRoutes(s) \/ RegisterRoutes(s)
  BY <1>7, <1>e, <1>m DEF StartTun, ApplyRoutes, RegisterRoutes, BeforeCommit
<1>8. CASE Commit(s)
  <2>1. ~(Proxifier[prof[s]] /\ Mode[prof[s]] # "openvpn")
    BY <1>8, <1>i, HasProfile DEF Calm, Commit
  <2> QED BY <1>8, <2>1, <1>e, <1>m DEF Commit, BeforeCommit
<1>9. CASE StartProxifier(s)
  BY <1>9, <1>i DEF StartProxifier, ModeSteps
<1>10. CASE LaunchGoroutines(s)
  <2>1. InFlight(s) /\ ~InFlight(s)'
    BY <1>10, <1>i, GotoMoves DEF LaunchGoroutines, InFlight, BeforeCommit
  <2>2. \A t \in Session : t # s => ~InFlight(t) /\ ~InFlight(t)' /\ pc'[t] = pc[t]
    BY <1>10, <1>i, <2>1, GotoMoves DEF LaunchGoroutines, InFlight, CalmInv, OneStart
  <2>3. OneStart'
    BY <2>1, <2>2 DEF OneStart
  <2>4. cancel \in {0, s} /\ cancel' = cancel
    BY <1>10, <2>1 DEF LaunchGoroutines, CalmInv, OneStart, IInv, TypeOK, FieldsOK, Session
  <2>5. ModeSteps'
    BY <1>10, ModeMove DEF LaunchGoroutines
  <2>6. /\ \A h \in Goroutine : gpc'[s][h] \in {"tick", "off"}
        /\ \A t \in Session, h \in Goroutine : t # s => gpc'[t][h] = gpc[t][h]
    BY <1>10, <1>i DEF LaunchGoroutines, IInv, TypeOK, WorkersOK
  <2>7. ASSUME NEW t \in Session, NEW h \in Goroutine PROVE SoloAt(t, h)'
    <3>1. CASE t = s
      BY <2>1, <2>2, <2>4, <2>6, <3>1 DEF SoloAt
    <3>2. CASE t # s
      <4>1. gpc'[t][h] \in {"off", "done", "await"} /\ gpc'[t][h] = gpc[t][h]
        BY <2>1, <2>6, <3>2 DEF CalmInv, Solo, SoloAt
      <4>2. CASE gpc[t][h] = "await"
        <5>1. child'[t][h] = child[t][h]
          BY <1>10 DEF LaunchGoroutines
        <5>2. child[t][h] = s
          BY <2>1, <4>2 DEF CalmInv, Solo, SoloAt
        <5>3. pc'[s] # "failed"
          BY <1>10, <1>i, GotoMoves DEF LaunchGoroutines
        <5> QED BY <2>1, <2>2, <2>4, <4>1, <4>2, <5>1, <5>2, <5>3 DEF SoloAt
      <4> QED BY <4>1, <4>2 DEF SoloAt
    <3> QED BY <3>1, <3>2
  <2> QED BY <2>3, <2>5, <2>7 DEF Control, Solo
<1>11. CASE FailStart(s)
  <2>1. pc'[s] = "failed" /\ \A t \in Session : t # s => pc'[t] = pc[t]
    BY <1>11, <1>i, GotoMoves DEF FailStart
  <2>2. OneStart' /\ Solo'
    BY <1>11, <2>1, StopControl DEF FailStart, stopLocked, InFlight, BeforeCommit
  <2> QED BY <1>11, <2>2, ModeMove DEF FailStart, Control
<1> QED BY <1>1, <1>2, <1>3, <1>4, <1>5, <1>6, <1>7, <1>8, <1>9, <1>10, <1>11 DEF StartStep

\* A session that begins while everything rests is alone.
LEMMA BeginControl ==
    ASSUME CalmInv, NEW p \in Profile, BeginSession(p), \A t \in Session : ~InFlight(t)
    PROVE  ModeSteps' /\ OneStart' /\ \A t \in Session : InFlight(t)' <=> t = last + 1
<1>b. IInv
  BY DEF CalmInv
<1>1. \A t \in Session : InFlight(t)' <=> t = last + 1
  BY <1>b, BeginFacts, FirstStepBeforeCommit DEF InFlight
<1>2. OneStart'
  BY <1>1, <1>b, BeginFacts DEF OneStart
<1>3. ModeSteps'
  <2> SUFFICES ASSUME NEW t \in Session
               PROVE  /\ pc'[t] = "auth" => Mode[prof'[t]] = "openvpn"
                      /\ pc'[t] \in {"spawn", "register", "settle"} => Mode[prof'[t]] # "ssh"
                      /\ pc'[t] \in {"dial", "checkSSH", "regSSH"} =>
                            Mode[prof'[t]] \in {"ssh", "dnstt"}
                      /\ pc'[t] # "proxifier"
    BY DEF ModeSteps, Helper
  <2>1. CASE t = last + 1
    BY <2>1, <1>b, BeginFacts DEF FirstStep
  <2>2. CASE t # last + 1
    BY <2>2, <1>b, BeginFacts DEF CalmInv, ModeSteps, Helper
  <2> QED BY <2>1, <2>2
<1> QED BY <1>1, <1>2, <1>3

\* A goroutine that moves on with the Starts where they are.
LEMMA AtControl ==
    ASSUME CalmInv, NEW s \in Session, NEW g \in Goroutine, NEW l, At(s, g, l),
           UNCHANGED <<starts, child>>, cancel' \in {0, cancel}, SoloAt(s, g)',
           gpc[s][g] # "off", gpc[s][g] # "done"
    PROVE  Control'
<1>1. ModeSteps' /\ OneStart'
  BY DEF CalmInv, ModeSteps, OneStart, Helper, InFlight, Session, starts
<1>2. ASSUME NEW t \in Session, NEW h \in Goroutine PROVE SoloAt(t, h)'
  <2>1. CASE t = s /\ h = g
    BY <2>1
  <2>2. CASE t # s \/ h # g
    <3>1. gpc'[t][h] = gpc[t][h] /\ SoloAt(t, h)
      BY <2>2, AtMoves DEF CalmInv, Solo
    <3>2. gpc[t][h] # "start"
      BY <2>2, <3>1 DEF SoloAt, Resting
    <3> QED BY <3>1, <3>2 DEF SoloAt, InFlight, starts
  <2> QED BY <2>1, <2>2
<1> QED BY <1>1, <1>2 DEF Control, Solo

LEMMA GoroutineControl ==
    ASSUME CalmInv, Calm, NEW s \in Session, NEW g \in Goroutine,
           Tick(s, g) \/ ContextDone(s, g) \/ Probing(s, g) \/ LoopActions(s, g)
    PROVE  Control'
<1> USE DEF fields
<1>i. IInv /\ SoloAt(s, g)
  BY DEF CalmInv, Solo
<1>d. At(s, g, "done") => SoloAt(s, g)'
  BY <1>i, AtMoves DEF SoloAt
<1>l. LeaveLoop(s, g) /\ gpc[s][g] \notin {"off", "done"} => Control'
  BY <1>d, AtControl DEF LeaveLoop
<1>1. CASE Tick(s, g) \/ ContextDone(s, g) \/ ProbeOK(s, g) \/ ProbeFails(s, g)
  <2>1. cancel \in {0, s} /\ \A t \in Session : ~InFlight(t)
    BY <1>1, <1>i DEF Tick, ContextDone, ProbeOK, ProbeFails, SoloAt
  <2>2. UNCHANGED <<starts, child>> /\ cancel' \in {0, cancel}
    BY <1>1 DEF Tick, ContextDone, ProbeOK, ProbeFails, stopLocked
  <2>3. \A t \in Session : ~InFlight(t)'
    BY <2>1, <2>2 DEF InFlight, starts
  <2>4. PICK l \in {"done", "tick", "probe", "stop"} : At(s, g, l)
    BY <1>1 DEF Tick, ContextDone, ProbeOK, ProbeFails
  <2>5. gpc'[s][g] = l
    BY <1>i, <2>4, AtMoves
  <2>6. SoloAt(s, g)'
    BY <2>1, <2>2, <2>3, <2>5 DEF SoloAt
  <2> QED BY <1>1, <2>2, <2>4, <2>6, AtControl DEF Tick, ContextDone, ProbeOK, ProbeFails
<1>k. ASSUME NEW l \in {"head", "delay", "failed", "restop"}, At(s, g, l),
             UNCHANGED <<starts, child>>, cancel' = 0, Looping(s, g),
             \A t \in Session : ~InFlight(t)
      PROVE  Control'
  <2>1. gpc'[s][g] = l /\ \A t \in Session : ~InFlight(t)'
    BY <1>k, <1>i, AtMoves DEF InFlight, starts
  <2>2. SoloAt(s, g)'
    BY <1>k, <2>1 DEF SoloAt
  <2> QED BY <1>k, <2>2, AtControl DEF Looping, LoopStep
<1>2. CASE LoopStop(s, g) \/ LoopRestop(s, g)
  BY <1>2, <1>i, <1>k DEF LoopStop, LoopRestop, stopLocked, SoloAt, Looping, LoopStep
<1>3. CASE LoopHead(s, g) \/ LoopStartFailed(s, g)
  BY <1>3, <1>i, <1>k, <1>l
     DEF LoopHead, LoopStartFailed, StayInLoop, SoloAt, Looping, LoopStep
<1>4. CASE LoopWake(s, g)
  <2>1. CASE StayInLoop(s, g, "start")
    <3>1. cancel = 0 /\ \A t \in Session : ~InFlight(t)
      BY <1>4, <1>i DEF LoopWake, SoloAt
    <3>2. \A t \in Session, h \in Goroutine : t # s \/ h # g => Resting(t, h)
      <4>1. Looping(s, g) /\ TimePasses
        BY <1>4 DEF LoopWake, Looping, LoopStep
      <4>2. \A t \in Session, h \in Goroutine : t # s \/ h # g => ~Looping(t, h)
        BY <4>1 DEF CalmInv, OneReconnectLoop
      <4> QED BY <3>1, <4>1, <4>2, AllRest
    <3>3. /\ gpc'[s][g] = "start"
          /\ \A t \in Session, h \in Goroutine : t # s \/ h # g => gpc'[t][h] = gpc[t][h]
      BY <1>i, <2>1, AtMoves DEF StayInLoop
    <3>4. cancel' = 0 /\ \A t \in Session : ~InFlight(t)'
      BY <2>1, <3>1 DEF StayInLoop, InFlight, starts
    <3>5. SoloAt(s, g)'
      BY <3>2, <3>3, <3>4 DEF SoloAt, Resting
    <3> QED BY <1>4, <2>1, <3>5, AtControl DEF LoopWake, StayInLoop
  <2> QED BY <1>4, <2>1, <1>l DEF LoopWake
<1>5. CASE LoopStart(s, g)
  <2>1. cancel = 0 /\ \A t \in Session : ~InFlight(t)
    BY <1>5, <1>i DEF LoopStart, SoloAt
  <2>2. BeginSession(prof[s]) /\ child' = [child EXCEPT ![s][g] = last + 1] /\ At(s, g, "await")
    BY <1>5, <2>1, <1>i DEF LoopStart, IInv, Bookkeeping, OneLiveSession
  <2>3. prof[s] \in Profile
    BY <1>5, <1>i DEF LoopStart, IInv, Bookkeeping, Begun
  <2>4. ModeSteps' /\ OneStart' /\ \A t \in Session : InFlight(t)' <=> t = last + 1
    BY <2>1, <2>2, <2>3, BeginControl
  <2>5. /\ gpc'[s][g] = "await"
        /\ \A t \in Session, h \in Goroutine : t # s \/ h # g => gpc'[t][h] \in {"off", "done"}
    BY <1>5, <1>i, <2>2, AtMoves DEF LoopStart, SoloAt, Resting
  <2>6. child'[s][g] = last + 1 /\ last + 1 \in Session /\ cancel' = last + 1
    BY <1>i, <2>2, <2>3, BeginFacts DEF IInv, TypeOK, WorkersOK
  <2>7. pc'[last + 1] # "failed"
    BY <1>i, <2>2, <2>3, BeginFacts, FirstStepBeforeCommit DEF BeforeCommit
  <2>8. ASSUME NEW t \in Session, NEW h \in Goroutine PROVE SoloAt(t, h)'
    BY <2>4, <2>5, <2>6, <2>7 DEF SoloAt
  <2> QED BY <2>4, <2>8 DEF Control, Solo
<1>6. CASE LoopAwait(s, g)
  <2>1. CASE pc[child[s][g]] = "failed" /\ StayInLoop(s, g, "failed")
    <3>1. cancel = 0 /\ \A t \in Session : ~InFlight(t)
      BY <1>6, <1>i, <2>1 DEF LoopAwait, SoloAt, InFlight, BeforeCommit
    <3> QED BY <1>6, <2>1, <3>1, <1>k DEF LoopAwait, StayInLoop, Looping, LoopStep
  <2> QED BY <1>6, <2>1, <1>l DEF LoopAwait
<1> QED BY <1>1, <1>2, <1>3, <1>4, <1>5, <1>6 DEF Probing, LoopActions

LEMMA ControlStep == CalmInv /\ Calm /\ [Next]_vars => Control'
<1> SUFFICES ASSUME CalmInv, Calm, [Next]_vars PROVE Control'
  OBVIOUS
<1> USE DEF fields, workers, starts
<1>u. UNCHANGED <<cancel, starts, gpc, child>> => Control'
  BY DEF CalmInv, Control, ModeSteps, OneStart, Solo, SoloAt, Resting, InFlight, Helper
<1>1. ASSUME NEW p \in Profile, UserStart(p) PROVE Control'
  <2>1. \A t \in Session : ~InFlight(t)
    BY <1>1 DEF UserStart, Calm, Quiet
  <2>2. cancel = 0 /\ cancel' = last + 1
    BY <1>1, BeginFacts DEF UserStart, CalmInv
  <2>3. \A t \in Session, h \in Goroutine : Resting(t, h)
    BY <1>1, <2>1, <2>2, AllRest DEF UserStart, Calm, Quiet
  <2>4. \A t \in Session, h \in Goroutine : gpc'[t][h] \in {"off", "done"}
    BY <1>1, <2>3 DEF UserStart, Resting
  <2> QED BY <1>1, <2>1, <2>4, BeginControl DEF UserStart, Control, Solo, SoloAt
<1>2. CASE UserStop
  <2>1. OneStart' /\ Solo'
    BY <1>2, StopControl DEF UserStop, stopLocked, InFlight
  <2> QED BY <1>2, <2>1 DEF UserStop, Control, CalmInv, ModeSteps, Helper
<1>3. ASSUME NEW s \in Session, VerifyWait(s) \/ VerifyResult(s) PROVE Control'
  BY <1>3, <1>u DEF VerifyWait, VerifyResult
<1>4. ASSUME NEW s \in Session, NEW r, Lose(r, s) PROVE Control'
  BY <1>4, <1>u DEF Lose
<1>5. CASE UNCHANGED vars
  BY <1>5, <1>u DEF vars
<1> QED BY <1>1, <1>2, <1>3, <1>4, <1>5, StartStepControl, GoroutineControl DEF Next
-----------------------------------------------------------------------------
(***************************************************************************)
(* Resources: what exists is about to be registered or will be stopped.    *)
(***************************************************************************)
Resources == Owned /\ Created

\* stopLocked takes away all but what is yet to be registered.
LEMMA StopOwned ==
    ASSUME CalmInv, stopLocked, \A s \in Session : pc'[s] = pc[s] \/ pc[s] = "fail"
    PROVE  Owned'
<1> SUFFICES ASSUME NEW r \in Kind, NEW s \in Session, res'[r][s] \in {"up", "down"}
             PROVE  Unregistered(r, s)'
  BY DEF Owned
<1>1. res[r][s] \in {"up", "down"} /\ ~TornDownBy(r, s)
  BY DEF stopLocked
<1>2. Unregistered(r, s)
  BY <1>1 DEF CalmInv, Owned, Stoppable, TornDownBy
<1> QED BY <1>2 DEF Unregistered

\* Nothing is ever uncreated.
Grows == \A r \in Kind, s \in Session : res[r][s] # "none" => res'[r][s] # "none"

LEMMA StopGrows ==
    ASSUME CalmInv, stopLocked
    PROVE  Grows /\ \A r \in Kind : ref'[r] \in {0, ref[r]}
  BY DEF stopLocked, Grows

LEMMA SetResGrows ==
    ASSUME CalmInv, NEW r \in Kind, NEW s \in Session, NEW v, v # "none", SetRes(r, s, v)
    PROVE  /\ Grows /\ res'[r][s] = v
           /\ \A q \in Kind, t \in Session : q # r \/ t # s => res'[q][t] = res[q][t]
  BY DEF SetRes, Grows, CalmInv, IInv, TypeOK, WorldOK

LEMMA GrowsRefs ==
    ASSUME CalmInv, Grows, \A r \in Kind : ref'[r] \in {0, ref[r]}
    PROVE  RefsCreated'
  BY DEF CalmInv, Created, RefsCreated, Grows, IInv, TypeOK, FieldsOK, Session

LEMMA GrowsStarts ==
    ASSUME CalmInv, Grows,
           \A s \in Session : \/ pc'[s] = pc[s] /\ prof'[s] = prof[s]
                              \/ pc'[s] \notin {"register", "checkSSH", "regSSH",
                                                "regSOCKS", "regRoutes"}
    PROVE  StartsCreated'
<1> SUFFICES ASSUME NEW s \in Session, pc'[s] = pc[s], prof'[s] = prof[s],
                    pc[s] \in {"register", "checkSSH", "regSSH", "regSOCKS", "regRoutes"}
             PROVE  /\ pc[s] = "register" => res'[Mode[prof[s]]][s] # "none"
                    /\ pc[s] \in {"checkSSH", "regSSH"} => res'["ssh"][s] # "none"
                    /\ pc[s] = "regSOCKS" => res'["socks"][s] # "none"
                    /\ pc[s] = "regRoutes" => res'["routes"][s] # "none"
  BY DEF StartsCreated, Helper
<1>1. Mode[prof[s]] \in Kind
  BY HasProfile, HelperIsKind DEF CalmInv, Helper
<1> QED BY <1>1 DEF CalmInv, Created, StartsCreated, Grows, Helper, Kind

LEMMA GrowsProbes ==
    ASSUME CalmInv, Grows,
           \A s \in Session, g \in Goroutine :
              gpc'[s][g] = "probe" => gpc[s][g] = "probe" /\ snap'[s][g] = snap[s][g]
    PROVE  ProbesCreated'
<1> SUFFICES ASSUME NEW s \in Session, NEW g \in Goroutine, gpc[s][g] = "probe",
                    snap'[s][g] = snap[s][g]
             PROVE  snap[s][g].of # 0 /\ res'[snap[s][g].kind][snap[s][g].of] # "none"
  BY DEF ProbesCreated, ProbeState
<1>1. snap[s][g].of # 0 /\ res[snap[s][g].kind][snap[s][g].of] # "none"
  BY DEF CalmInv, Created, ProbesCreated, ProbeState
<1>2. snap[s][g].kind \in Kind /\ snap[s][g].of \in Session
  <2>1. snap[s][g] \in [kind : Kind, of : 0..MaxSessions]
    BY DEF CalmInv, IInv, TypeOK, WorkersOK
  <2> QED BY <1>1, <2>1 DEF Session
<1> QED BY <1>1, <1>2 DEF Grows

\* A Start goes on without touching the fields; it may have created one resource.
LEMMA MoveOwned ==
    ASSUME CalmInv, NEW s \in Session, NEW l, Goto(s, l), UNCHANGED <<ref, cancel>>,
           pc[s] \in BeforeCommit => l \in BeforeCommit \/ s = cancel,
           \A r \in Kind, t \in Session :
              res'[r][t] \in {"up", "down"} =>
                 \/ res[r][t] \in {"up", "down"} /\ (t = s /\ Unregistered(r, s) => Unregistered(r, s)')
                 \/ t = s /\ (Unregistered(r, s)' \/ (r \in CtxBound /\ s = cancel))
    PROVE  Owned'
<1> SUFFICES ASSUME NEW r \in Kind, NEW t \in Session, res'[r][t] \in {"up", "down"}
             PROVE  Stoppable(r, t)' \/ Unregistered(r, t)'
  BY DEF Owned
<1>1. pc'[s] = l /\ \A u \in Session : u # s => pc'[u] = pc[u]
  BY GotoMoves DEF CalmInv
<1>2. CASE res[r][t] \in {"up", "down"} /\ (t = s /\ Unregistered(r, s) => Unregistered(r, s)')
  <2>1. Stoppable(r, t) \/ Unregistered(r, t)
    BY <1>2 DEF CalmInv, Owned
  <2>2. Stoppable(r, t) => Stoppable(r, t)'
    BY <1>1 DEF Stoppable
  <2>3. t # s => (Unregistered(r, t) => Unregistered(r, t)')
    BY <1>1 DEF Unregistered
  <2> QED BY <1>2, <2>1, <2>2, <2>3
<1>3. CASE t = s /\ (Unregistered(r, s)' \/ (r \in CtxBound /\ s = cancel))
  BY <1>3 DEF Stoppable
<1> QED BY <1>2, <1>3

\* A Start puts what it created into its field: whatever was there is stopped already.
LEMMA RegisterOwned ==
    ASSUME CalmInv, NEW s \in Session, NEW l \in BeforeCommit, Goto(s, l), InFlight(s),
           NEW r \in Kind \ {"proxifier"}, ref' = [ref EXCEPT ![r] = s], UNCHANGED <<cancel, res>>,
           \A q \in Kind : Unregistered(q, s) => q = r
    PROVE  Owned'
<1>1. pc'[s] = l /\ \A u \in Session : u # s => pc'[u] = pc[u]
  BY GotoMoves DEF CalmInv
<1>r. ref'[r] = s /\ \A q \in Kind : q # r => ref'[q] = ref[q]
  BY DEF CalmInv, IInv, TypeOK, FieldsOK
<1> SUFFICES ASSUME NEW q \in Kind, NEW t \in Session, res[q][t] \in {"up", "down"}
             PROVE  Stoppable(q, t)' \/ Unregistered(q, t)'
  BY DEF Owned
<1>2. Stoppable(q, t) \/ Unregistered(q, t)
  BY DEF CalmInv, Owned
<1>3. CASE Unregistered(q, t)
  <2>1. CASE t = s
    <3>1. q = r /\ r \in StoppedFields
      BY <1>3, <2>1 DEF StoppedFields, Unregistered, Kind
    <3> QED BY <2>1, <3>1, <1>1, <1>r DEF Stoppable
  <2>2. CASE t # s
    BY <1>1, <1>3, <2>2 DEF Unregistered
  <2> QED BY <2>1, <2>2
<1>4. CASE q \in CtxBound /\ t = cancel
  BY <1>4 DEF Stoppable
<1>5. CASE q \in StoppedFields /\ ref[q] = t /\ (t = cancel \/ pc[t] \in BeforeCommit)
  <2>1. t = s
    BY <1>5 DEF CalmInv, OneStart, InFlight
  <2> QED BY <1>1, <1>5, <1>r, <2>1 DEF Stoppable
<1> QED BY <1>2, <1>3, <1>4, <1>5 DEF Stoppable

LEMMA StartStepOwned ==
    ASSUME CalmInv, NEW s \in Session, StartStep(s)
    PROVE  Owned'
<1> USE DEF fields, world
<1>i. IInv /\ ModeSteps
  BY DEF CalmInv
<1>g. ASSUME NEW l, Goto(s, l) PROVE pc'[s] = l
  BY <1>g, <1>i, GotoMoves
<1>x. ASSUME NEW q \in Kind, NEW v, v # "none", SetRes(q, s, v)
      PROVE  /\ res'[q][s] = v
             /\ \A r \in Kind, t \in Session : r # q \/ t # s => res'[r][t] = res[r][t]
  BY <1>x, SetResGrows
<1>n. ASSUME pc[s] \notin {"checkSSH", "regSSH", "regSOCKS", "regRoutes"}
      PROVE  \A r \in Kind : ~Unregistered(r, s)
  BY <1>n DEF Unregistered
<1>m. ASSUME NEW l \in BeforeCommit, Goto(s, l), UNCHANGED <<ref, cancel, res>>,
             pc[s] \notin {"checkSSH", "regSSH", "regSOCKS", "regRoutes"}
      PROVE  Owned'
  BY <1>m, <1>n, MoveOwned
<1>e. Error(s) /\ pc[s] \notin {"checkSSH", "regSSH", "regSOCKS", "regRoutes"} => Owned'
  BY <1>m DEF Error, BeforeCommit
<1>d. ASSUME NEW q \in Kind, SetRes(q, s, "released"), Goto(s, "fail"), UNCHANGED <<ref, cancel>>,
             \A r \in Kind : Unregistered(r, s) => r = q
      PROVE  Owned'
  <2>1. \A r \in Kind, t \in Session : res'[r][t] \in {"up", "down"} =>
           res[r][t] \in {"up", "down"} /\ (t = s => ~Unregistered(r, s))
    BY <1>d, <1>x
  <2> QED BY <1>d, <2>1, MoveOwned DEF BeforeCommit
<1>c. ASSUME NEW q \in Kind, SetRes(q, s, "up"), NEW l \in BeforeCommit, Goto(s, l),
             UNCHANGED <<ref, cancel>>, Unregistered(q, s)' \/ (q \in CtxBound /\ s = cancel),
             \A r \in Kind : ~Unregistered(r, s)
      PROVE  Owned'
  <2>1. \A r \in Kind, t \in Session : res'[r][t] \in {"up", "down"} =>
           res[r][t] \in {"up", "down"} \/ (r = q /\ t = s)
    BY <1>c, <1>x
  <2> QED BY <1>c, <2>1, MoveOwned
<1>1. CASE WriteAuth(s)
  BY <1>1, <1>m, <1>e DEF WriteAuth, BeforeCommit
<1>2. CASE SpawnHelper(s)
  <2>1. Helper(s) \in Kind /\ Helper(s) \in CtxBound
    BY <1>2, <1>i, HasProfile DEF SpawnHelper, ModeSteps, Helper, Modes, CtxBound, Kind
  <2>2. CASE SetRes(Helper(s), s, "up") /\ Goto(s, "register") /\ s \in live
    <3>1. s = cancel
      BY <1>i, <2>2 DEF IInv, Bookkeeping, OneLiveSession
    <3> QED BY <1>2, <2>1, <2>2, <3>1, <1>c, <1>n DEF SpawnHelper, BeforeCommit
  <2>3. CASE SetRes(Helper(s), s, "released") /\ Goto(s, "register")
    <3>1. \A r \in Kind, t \in Session : res'[r][t] \in {"up", "down"} => res[r][t] \in {"up", "down"}
      BY <2>1, <2>3, <1>x
    <3> QED BY <1>2, <2>3, <3>1, <1>n, MoveOwned DEF SpawnHelper, BeforeCommit
  <2> QED BY <1>2, <2>2, <2>3, <1>m DEF SpawnHelper, BeforeCommit
<1>3. CASE RegisterHelper(s)
  <2>1. Helper(s) \in Kind \ {"proxifier"}
    BY <1>3, <1>i, HasProfile DEF RegisterHelper, Helper, Modes, Kind
  <2> QED BY <1>3, <2>1, <1>n, RegisterOwned DEF RegisterHelper, InFlight, BeforeCommit
<1>4. CASE SettleHelper(s)
  <2>1. Helper(s) \in Kind
    BY <1>4, <1>i, HasProfile, HelperIsKind DEF SettleHelper
  <2> QED BY <1>4, <2>1, <1>m, <1>d, <1>n DEF SettleHelper, BeforeCommit
<1>5. CASE DialSSH(s)
  <2>1. CASE SetRes("ssh", s, "up") /\ Goto(s, "checkSSH") /\ UNCHANGED <<ref, cancel>>
    BY <1>5, <2>1, <1>g, <1>c, <1>n DEF DialSSH, Unregistered, Kind, BeforeCommit
  <2> QED BY <1>5, <2>1, <1>e DEF DialSSH
<1>6. CASE CheckSSH(s)
  <2>1. CASE Goto(s, "regSSH") /\ UNCHANGED <<res, ref, cancel>>
    <3>1. \A r \in Kind : Unregistered(r, s) => Unregistered(r, s)'
      BY <1>6, <2>1, <1>g DEF CheckSSH, Unregistered
    <3> QED BY <2>1, <3>1, MoveOwned DEF BeforeCommit
  <2>2. CASE Goto(s, "fail") /\ SetRes("ssh", s, "released")
    BY <1>6, <2>2, <1>d DEF CheckSSH, Unregistered, Kind
  <2> QED BY <1>6, <2>1, <2>2 DEF CheckSSH
<1>7. CASE RegisterSSH(s)
  BY <1>7, RegisterOwned DEF RegisterSSH, Unregistered, InFlight, BeforeCommit, Kind
<1>8. CASE BindSOCKS(s)
  <2>1. CASE SetRes("socks", s, "up") /\ Goto(s, "regSOCKS") /\ UNCHANGED <<ref, cancel>>
    BY <1>8, <2>1, <1>g, <1>c, <1>n DEF BindSOCKS, Unregistered, Kind, BeforeCommit
  <2> QED BY <1>8, <2>1, <1>e DEF BindSOCKS
<1>9. CASE RegisterSOCKS(s)
  BY <1>9, RegisterOwned DEF RegisterSOCKS, Unregistered, InFlight, BeforeCommit, Kind
<1>10. CASE WaitTCP(s) \/ EnsureBeforeTun(s)
  BY <1>10, <1>m, <1>e DEF WaitTCP, EnsureBeforeTun, BeforeCommit
<1>11. CASE StartTun(s)
  <2>1. CASE ref["tun"] = 0 /\ ref' = [ref EXCEPT !["tun"] = s] /\ SetRes("tun", s, "up")
             /\ Goto(s, "applyRoutes") /\ UNCHANGED cancel
    <3> SUFFICES ASSUME NEW r \in Kind, NEW t \in Session, res'[r][t] \in {"up", "down"}
                 PROVE  Stoppable(r, t)' \/ Unregistered(r, t)'
      BY DEF Owned
    <3>1. pc'[s] = "applyRoutes" /\ \A u \in Session : u # s => pc'[u] = pc[u]
      BY <1>i, <2>1, GotoMoves
    <3>2. ref'["tun"] = s /\ \A q \in Kind : q # "tun" => ref'[q] = ref[q]
      BY <1>i, <2>1 DEF IInv, TypeOK, FieldsOK, Kind
    <3>3. CASE r = "tun" /\ t = s
      BY <3>1, <3>2, <3>3 DEF Stoppable, StoppedFields, BeforeCommit, Kind
    <3>4. CASE r # "tun" \/ t # s
      <4>1. Stoppable(r, t) \/ Unregistered(r, t)
        BY <2>1, <3>4, <1>x DEF CalmInv, Owned, Kind
      <4>2. ~Unregistered(r, s)
        BY <1>11, <1>n DEF StartTun
      <4>3. Unregistered(r, t) => Unregistered(r, t)'
        BY <3>1, <4>2 DEF Unregistered
      <4>4. Stoppable(r, t) => Stoppable(r, t)'
        BY <2>1, <3>1, <3>2 DEF Stoppable, BeforeCommit, Session
      <4> QED BY <4>1, <4>3, <4>4
    <3> QED BY <3>3, <3>4
  <2> QED BY <1>11, <2>1, <1>e DEF StartTun
<1>12. CASE ApplyRoutes(s)
  BY <1>12, <1>g, <1>c, <1>n DEF ApplyRoutes, Unregistered, Kind, BeforeCommit
<1>13. CASE RegisterRoutes(s)
  BY <1>13, RegisterOwned DEF RegisterRoutes, Unregistered, InFlight, BeforeCommit, Kind
<1>14. CASE Commit(s)
  <2>1. CASE Current(s)
    BY <1>14, <2>1, <1>i, <1>n, CurrentIsOwner, MoveOwned DEF Commit
  <2> QED BY <1>14, <2>1, <1>e DEF Commit
<1>15. CASE StartProxifier(s)
  BY <1>15, <1>i DEF StartProxifier, ModeSteps
<1>16. CASE LaunchGoroutines(s)
  BY <1>16, <1>n, MoveOwned DEF LaunchGoroutines, BeforeCommit
<1>17. CASE FailStart(s)
  BY <1>17, <1>i, GotoMoves, StopOwned DEF FailStart
<1> QED BY <1>1, <1>2, <1>3, <1>4, <1>5, <1>6, <1>7, <1>8, <1>9, <1>10, <1>11, <1>12,
           <1>13, <1>14, <1>15, <1>16, <1>17 DEF StartStep

LEMMA StartStepCreated ==
    ASSUME CalmInv, NEW s \in Session, StartStep(s)
    PROVE  Created'
<1> USE DEF fields, world, workers
<1>i. IInv /\ ModeSteps /\ RefsCreated /\ StartsCreated
  BY DEF CalmInv, Created
<1>k. pc[s] \in {"spawn", "register", "settle"} => Helper(s) \in Kind
  BY <1>i, HasProfile, HelperIsKind
<1>1. Grows
  <2>1. CASE UNCHANGED res
    BY <2>1 DEF Grows
  <2>2. CASE stopLocked
    BY <2>2, StopGrows
  <2>3. CASE SpawnHelper(s) \/ SettleHelper(s)
    BY <2>1, <2>3, <1>k, SetResGrows DEF SpawnHelper, SettleHelper
  <2>4. CASE \E q \in {"ssh", "socks", "tun", "routes"}, v \in {"up", "released"} : SetRes(q, s, v)
    BY <2>4, SetResGrows DEF Kind
  <2> QED BY <2>1, <2>2, <2>3, <2>4, <1>i
          DEF StartStep, WriteAuth, RegisterHelper, DialSSH, CheckSSH, RegisterSSH, BindSOCKS,
              RegisterSOCKS, WaitTCP, EnsureBeforeTun, StartTun, ApplyRoutes, RegisterRoutes,
              Commit, StartProxifier, LaunchGoroutines, FailStart, Error, ModeSteps
<1>2. RefsCreated'
  <2>f. ASSUME NEW r \in Kind, ref' = [ref EXCEPT ![r] = s], res'[r][s] # "none"
        PROVE  RefsCreated'
    <3>1. ref'[r] = s /\ \A q \in Kind : q # r => ref'[q] = ref[q]
      BY <2>f, <1>i DEF IInv, TypeOK, FieldsOK
    <3> SUFFICES ASSUME NEW q \in Kind, ref'[q] # 0 PROVE res'[q][ref'[q]] # "none"
      BY DEF RefsCreated
    <3>2. CASE q = r
      BY <2>f, <3>1, <3>2
    <3>3. CASE q # r
      BY <1>1, <1>i, <3>1, <3>3 DEF RefsCreated, Grows, IInv, TypeOK, FieldsOK, Session
    <3> QED BY <3>2, <3>3
  <2>1. CASE RegisterHelper(s)
    BY <2>1, <2>f, <1>i, <1>k DEF RegisterHelper, StartsCreated
  <2>2. CASE RegisterSSH(s) \/ RegisterSOCKS(s) \/ RegisterRoutes(s)
    BY <2>2, <2>f, <1>i DEF RegisterSSH, RegisterSOCKS, RegisterRoutes, StartsCreated, Kind
  <2>3. CASE StartTun(s)
    <3>1. CASE ref' = [ref EXCEPT !["tun"] = s] /\ SetRes("tun", s, "up")
      BY <3>1, <2>f, SetResGrows DEF Kind
    <3> QED BY <2>3, <3>1, <1>1, GrowsRefs DEF StartTun, Error
  <2>4. CASE UNCHANGED ref \/ stopLocked
    BY <2>4, <1>1, StopGrows, GrowsRefs
  <2> QED BY <2>1, <2>2, <2>3, <2>4, <1>i
          DEF StartStep, WriteAuth, SpawnHelper, SettleHelper, DialSSH, CheckSSH, BindSOCKS,
              WaitTCP, EnsureBeforeTun, ApplyRoutes, Commit, StartProxifier, LaunchGoroutines,
              FailStart, Error, ModeSteps
<1>3. StartsCreated'
  <2>m. ASSUME NEW l, Goto(s, l),
               /\ l = "register" => res'[Helper(s)][s] # "none"
               /\ l \in {"checkSSH", "regSSH"} => res'["ssh"][s] # "none"
               /\ l = "regSOCKS" => res'["socks"][s] # "none"
               /\ l = "regRoutes" => res'["routes"][s] # "none"
        PROVE  StartsCreated'
    <3> SUFFICES ASSUME NEW t \in Session
                 PROVE  /\ pc'[t] = "register" => res'[Mode[prof'[t]]][t] # "none"
                        /\ pc'[t] \in {"checkSSH", "regSSH"} => res'["ssh"][t] # "none"
                        /\ pc'[t] = "regSOCKS" => res'["socks"][t] # "none"
                        /\ pc'[t] = "regRoutes" => res'["routes"][t] # "none"
      BY DEF StartsCreated, Helper
    <3>1. pc'[s] = l /\ UNCHANGED prof /\ \A u \in Session : u # s => pc'[u] = pc[u]
      BY <2>m, <1>i, GotoMoves
    <3>2. CASE t = s
      BY <2>m, <3>1, <3>2 DEF Helper
    <3>3. CASE t # s
      <4>1. pc[t] = "register" => Helper(t) \in Kind
        BY <1>i, HasProfile, HelperIsKind
      <4> QED BY <1>1, <1>i, <3>1, <3>3, <4>1 DEF StartsCreated, Grows, Helper, Kind
    <3> QED BY <3>2, <3>3
  <2>n. ASSUME NEW l, Goto(s, l), l \notin {"register", "checkSSH", "regSSH", "regSOCKS", "regRoutes"}
        PROVE  StartsCreated'
    BY <2>n, <2>m
  <2>1. CASE SpawnHelper(s)
    BY <2>1, <2>m, <2>n, <1>k, SetResGrows DEF SpawnHelper
  <2>2. CASE DialSSH(s)
    BY <2>2, <2>m, <2>n, SetResGrows DEF DialSSH, Error, Kind
  <2>3. CASE CheckSSH(s)
    BY <2>3, <2>m, <2>n, <1>i DEF CheckSSH, StartsCreated
  <2>4. CASE BindSOCKS(s)
    BY <2>4, <2>m, <2>n, SetResGrows DEF BindSOCKS, Error, Kind
  <2>5. CASE ApplyRoutes(s)
    BY <2>5, <2>m, SetResGrows DEF ApplyRoutes, Kind
  <2> QED BY <2>1, <2>2, <2>3, <2>4, <2>5, <2>n
          DEF StartStep, WriteAuth, RegisterHelper, SettleHelper, RegisterSSH, RegisterSOCKS,
              WaitTCP, EnsureBeforeTun, StartTun, RegisterRoutes, Commit, StartProxifier,
              LaunchGoroutines, FailStart, Error
<1>4. ProbesCreated'
  <2>1. CASE UNCHANGED <<gpc, snap>>
    BY <1>1, <2>1, GrowsProbes
  <2>2. CASE LaunchGoroutines(s)
    <3>1. \A t \in Session, h \in Goroutine : gpc'[t][h] = "probe" => gpc[t][h] = "probe"
      BY <2>2, <1>i DEF LaunchGoroutines, IInv, TypeOK, WorkersOK
    <3> QED BY <1>1, <2>2, <3>1, GrowsProbes DEF LaunchGoroutines
  <2> QED BY <2>1, <2>2
          DEF StartStep, WriteAuth, SpawnHelper, RegisterHelper, SettleHelper, DialSSH, CheckSSH,
              RegisterSSH, BindSOCKS, RegisterSOCKS, WaitTCP, EnsureBeforeTun, StartTun,
              ApplyRoutes, RegisterRoutes, Commit, StartProxifier, FailStart, Error
<1> QED BY <1>2, <1>3, <1>4 DEF Created

LEMMA BeginResources ==
    ASSUME CalmInv, NEW p \in Profile, BeginSession(p), UNCHANGED <<ref, res, snap>>,
           \A s \in Session, g \in Goroutine : gpc'[s][g] = "probe" => gpc[s][g] = "probe"
    PROVE  Resources'
<1>i. IInv
  BY DEF CalmInv
<1>1. Owned'
  <2> SUFFICES ASSUME NEW r \in Kind, NEW t \in Session, res[r][t] \in {"up", "down"}
               PROVE  Stoppable(r, t)' \/ Unregistered(r, t)'
    BY DEF Owned
  <2>1. Stoppable(r, t) \/ Unregistered(r, t)
    BY DEF CalmInv, Owned
  <2>2. t # cancel
    BY <1>i, BeginFacts DEF Session
  <2>3. pc'[t] = pc[t]
    BY <1>i, <2>1, <2>2, BeginFacts DEF Stoppable, Unregistered, BeforeCommit
  <2> QED BY <2>1, <2>2, <2>3 DEF Stoppable, Unregistered
<1>2. Grows
  BY DEF Grows
<1>3. StartsCreated'
  <2>1. FirstStep(p) \notin {"register", "checkSSH", "regSSH", "regSOCKS", "regRoutes"}
    BY DEF FirstStep
  <2> QED BY <1>i, <1>2, <2>1, BeginFacts, GrowsStarts
<1> QED BY <1>1, <1>2, <1>3, GrowsRefs, GrowsProbes DEF Resources, Created

\* A stop by the user or a goroutine.
LEMMA StopResources ==
    ASSUME CalmInv, stopLocked, UNCHANGED starts,
           \A s \in Session, g \in Goroutine :
              gpc'[s][g] = "probe" => gpc[s][g] = "probe" /\ snap'[s][g] = snap[s][g]
    PROVE  Resources'
<1>1. Owned'
  BY StopOwned DEF starts
<1>2. StartsCreated'
  BY StopGrows, GrowsStarts DEF starts
<1> QED BY <1>1, <1>2, StopGrows, GrowsRefs, GrowsProbes DEF Resources, Created

\* A step that leaves the fields, the resources and the Starts alone.
LEMMA SameResources ==
    ASSUME CalmInv, UNCHANGED <<ref, cancel, res, starts>>, ProbesCreated'
    PROVE  Resources'
<1>1. Owned'
  BY DEF CalmInv, Owned, Stoppable, Unregistered, starts
<1>2. Grows
  BY DEF Grows
<1>3. StartsCreated'
  BY <1>2, GrowsStarts DEF starts
<1> QED BY <1>1, <1>2, <1>3, GrowsRefs DEF Resources, Created

LEMMA GoroutineResources ==
    ASSUME CalmInv, NEW s \in Session, NEW g \in Goroutine,
           Tick(s, g) \/ ContextDone(s, g) \/ Probing(s, g) \/ LoopActions(s, g)
    PROVE  Resources'
<1> USE DEF fields, world
<1>i. IInv
  BY DEF CalmInv
<1>a. ASSUME NEW l, At(s, g, l), l # "probe",
             UNCHANGED snap \/ snap' = [snap EXCEPT ![s][g] = NoTarget]
      PROVE  \A t \in Session, h \in Goroutine :
                gpc'[t][h] = "probe" => gpc[t][h] = "probe" /\ snap'[t][h] = snap[t][h]
  <2>1. \A t \in Session, h \in Goroutine : t # s \/ h # g => snap'[t][h] = snap[t][h]
    BY <1>a, <1>i DEF IInv, TypeOK, WorkersOK
  <2>2. \A t \in Session, h \in Goroutine :
           gpc'[t][h] = "probe" => gpc[t][h] = "probe" /\ (t # s \/ h # g)
    BY <1>a, <1>i, AtMoves
  <2> QED BY <2>1, <2>2
<1>g. Grows /\ (\A t \in Session, h \in Goroutine :
                   gpc'[t][h] = "probe" => gpc[t][h] = "probe" /\ snap'[t][h] = snap[t][h])
      => ProbesCreated'
  BY GrowsProbes
<1>s. ASSUME NEW l, At(s, g, l), l # "probe",
             UNCHANGED snap \/ snap' = [snap EXCEPT ![s][g] = NoTarget],
             UNCHANGED <<ref, cancel, res, starts>>
      PROVE  Resources'
  <2>1. Grows
    BY <1>s DEF Grows
  <2> QED BY <1>s, <1>a, <1>g, <2>1, SameResources
<1>t. ASSUME NEW l, At(s, g, l), l # "probe",
             UNCHANGED snap \/ snap' = [snap EXCEPT ![s][g] = NoTarget],
             stopLocked, UNCHANGED starts
      PROVE  Resources'
  BY <1>t, <1>a, StopResources
<1>1. CASE Tick(s, g)
  <2>1. CASE /\ ProbeTarget(g).of # 0 /\ snap' = [snap EXCEPT ![s][g] = ProbeTarget(g)]
             /\ At(s, g, "probe") /\ UNCHANGED <<fields, world, starts>>
    <3>1. /\ ProbeTarget(g).kind \in Kind
          /\ res[ProbeTarget(g).kind][ProbeTarget(g).of] # "none"
      BY <2>1 DEF ProbeTarget, MonitorTarget, NoTarget, CalmInv, Created, RefsCreated, Kind
    <3>2. snap'[s][g] = ProbeTarget(g)
          /\ \A t \in Session, h \in Goroutine : t # s \/ h # g => snap'[t][h] = snap[t][h]
      BY <1>i, <2>1 DEF IInv, TypeOK, WorkersOK
    <3>3. ASSUME NEW t \in Session, NEW h \in Goroutine, gpc'[t][h] = "probe"
          PROVE  snap'[t][h].of # 0 /\ res[snap'[t][h].kind][snap'[t][h].of] # "none"
      <4>1. CASE t = s /\ h = g
        BY <2>1, <3>1, <3>2, <4>1
      <4>2. CASE t # s \/ h # g
        <5>1. gpc[t][h] = "probe" /\ snap'[t][h] = snap[t][h]
          BY <1>i, <2>1, <3>2, <3>3, <4>2, AtMoves
        <5> QED BY <5>1 DEF CalmInv, Created, ProbesCreated, ProbeState
      <4> QED BY <4>1, <4>2
    <3>4. ProbesCreated'
      BY <2>1, <3>3 DEF ProbesCreated, ProbeState
    <3> QED BY <2>1, <3>4, SameResources
  <2> QED BY <1>1, <2>1, <1>s DEF Tick
<1>2. CASE ContextDone(s, g) \/ ProbeOK(s, g)
  BY <1>2, <1>s DEF ContextDone, ProbeOK, Forget
<1>3. CASE ProbeFails(s, g)
  BY <1>3, <1>s, <1>t DEF ProbeFails, Forget
<1>4. CASE LoopStop(s, g) \/ LoopRestop(s, g)
  BY <1>4, <1>t DEF LoopStop, LoopRestop, Forget
<1>5. CASE LoopHead(s, g) \/ LoopWake(s, g) \/ LoopAwait(s, g) \/ LoopStartFailed(s, g)
  BY <1>5, <1>s DEF LoopHead, LoopWake, LoopAwait, LoopStartFailed, LeaveLoop, StayInLoop
<1>6. CASE LoopStart(s, g)
  <2>1. CASE BeginSession(prof[s]) /\ At(s, g, "await") /\ UNCHANGED <<ref, res, snap>>
    <3>1. prof[s] \in Profile
      BY <1>6, <1>i DEF LoopStart, IInv, Bookkeeping, Begun
    <3> QED BY <2>1, <3>1, <1>a, BeginResources
  <2> QED BY <1>6, <2>1, <1>s DEF LoopStart, StayInLoop
<1> QED BY <1>1, <1>2, <1>3, <1>4, <1>5, <1>6 DEF Probing, LoopActions

LEMMA ResourcesStep == CalmInv /\ [Next]_vars => Resources'
<1> SUFFICES ASSUME CalmInv, [Next]_vars PROVE Resources'
  OBVIOUS
<1> USE DEF fields, world, workers
<1>u. UNCHANGED <<ref, cancel, res, starts, gpc, snap>> => Resources'
  BY SameResources DEF CalmInv, Created, ProbesCreated, ProbeState
<1>1. ASSUME NEW p \in Profile, UserStart(p) PROVE Resources'
  BY <1>1, BeginResources DEF UserStart
<1>2. CASE UserStop
  BY <1>2, StopResources DEF UserStop
<1>3. ASSUME NEW s \in Session, VerifyWait(s) \/ VerifyResult(s) PROVE Resources'
  BY <1>3, <1>u DEF VerifyWait, VerifyResult
<1>4. ASSUME NEW s \in Session, NEW r \in {"ssh"} \cup CtxBound, Lose(r, s) PROVE Resources'
  <2>1. r \in Kind
    BY DEF CtxBound, Kind
  <2>2. Grows /\ \A q \in Kind, t \in Session :
                    res'[q][t] \in {"up", "down"} => res[q][t] \in {"up", "down"}
    BY <1>4, <2>1, SetResGrows DEF Lose
  <2>3. Owned'
    BY <1>4, <2>2 DEF Lose, CalmInv, Owned, Stoppable, Unregistered, starts
  <2>4. StartsCreated'
    BY <1>4, <2>2, GrowsStarts DEF Lose, starts
  <2> QED BY <1>4, <2>2, <2>3, <2>4, GrowsRefs, GrowsProbes DEF Lose, Resources, Created
<1>5. ASSUME NEW s \in Session, StartStep(s) PROVE Resources'
  BY <1>5, StartStepOwned, StartStepCreated DEF Resources
<1>6. CASE UNCHANGED vars
  BY <1>6, <1>u DEF vars
<1> QED BY <1>1, <1>2, <1>3, <1>4, <1>5, <1>6, GoroutineResources DEF Next
-----------------------------------------------------------------------------
(***************************************************************************)
(* The credential files.                                                   *)
(***************************************************************************)
LEMMA StopAuth ==
    ASSUME CalmInv, stopLocked, UNCHANGED prof,
           \A s \in Session : pc'[s] = pc[s] \/ pc[s] = "fail"
    PROVE  AuthOwned'
<1>1. AuthHeld'
  BY DEF stopLocked, AuthHeld
<1>2. ASSUME NEW p \in authFiles' PROVE FileOwned(p)'
  <2>1. p \in authFiles /\ p # authRef
    BY <1>2 DEF stopLocked
  <2>2. PICK s \in Session : /\ pc[s] \in {"spawn", "register"} /\ Helper(s) = "openvpn"
                             /\ prof[s] = p /\ TempAuth[p]
    BY <2>1 DEF CalmInv, AuthOwned, FileOwned
  <2>3. pc'[s] = pc[s]
    BY <2>2
  <2> QED BY <2>2, <2>3 DEF FileOwned, Helper
<1> QED BY <1>1, <1>2 DEF AuthOwned

LEMMA BeginAuth ==
    ASSUME CalmInv, NEW p \in Profile, BeginSession(p), UNCHANGED <<authRef, authFiles>>
    PROVE  AuthOwned'
<1>i. IInv
  BY DEF CalmInv
<1>1. AuthHeld'
  <2> SUFFICES ASSUME authRef # NoProfile
               PROVE  \E s \in Session : pc'[s] \in Registered /\ pc'[s] \in BeforeCommit
    BY DEF AuthHeld
  <2>1. PICK s \in Session : pc[s] \in Registered /\ (s = cancel \/ pc[s] \in BeforeCommit)
    BY DEF CalmInv, AuthOwned, AuthHeld
  <2>2. s # cancel
    BY <1>i, BeginFacts DEF Session
  <2>3. pc'[s] = pc[s]
    BY <1>i, <2>1, <2>2, BeginFacts DEF BeforeCommit
  <2> QED BY <2>1, <2>2, <2>3
<1>2. ASSUME NEW q \in authFiles, q # authRef PROVE FileOwned(q)'
  <2>1. PICK s \in Session : /\ pc[s] \in {"spawn", "register"} /\ Helper(s) = "openvpn"
                             /\ prof[s] = q /\ TempAuth[q]
    BY <1>2 DEF CalmInv, AuthOwned, FileOwned
  <2>2. pc'[s] = pc[s] /\ prof'[s] = prof[s]
    BY <1>i, <2>1, BeginFacts
  <2> QED BY <2>1, <2>2 DEF FileOwned, Helper
<1>3. authRef \in authFiles => FileOwned(authRef)'
  BY DEF FileOwned
<1> QED BY <1>1, <1>2, <1>3 DEF AuthOwned, FileOwned

LEMMA SameAuth ==
    ASSUME CalmInv, UNCHANGED <<cancel, authRef, authFiles, pc, prof>>
    PROVE  AuthOwned'
  BY DEF CalmInv, AuthOwned, AuthHeld, FileOwned, Helper

\* A Start past its registration, or one without a file, goes on.
LEMMA MoveAuth ==
    ASSUME CalmInv, NEW s \in Session, NEW l \in Registered, Goto(s, l),
           l \in BeforeCommit \/ s = cancel, UNCHANGED <<cancel, authRef>>,
           authFiles' \subseteq authFiles,
           pc[s] \in {"spawn", "register"} /\ Helper(s) = "openvpn" /\ TempAuth[prof[s]] =>
              prof[s] \notin authFiles'
    PROVE  AuthOwned'
<1>g. /\ pc'[s] = l /\ UNCHANGED prof
      /\ \A t \in Session : t # s => pc'[t] = pc[t]
  BY GotoMoves DEF CalmInv
<1>1. AuthHeld'
  BY <1>g DEF CalmInv, AuthOwned, AuthHeld
<1>2. ASSUME NEW q \in authFiles', q # authRef PROVE FileOwned(q)'
  <2>1. PICK t \in Session : /\ pc[t] \in {"spawn", "register"} /\ Helper(t) = "openvpn"
                             /\ prof[t] = q /\ TempAuth[q]
    BY <1>2 DEF CalmInv, AuthOwned, FileOwned
  <2>2. t # s
    BY <1>2, <2>1
  <2> QED BY <1>g, <2>1, <2>2 DEF FileOwned, Helper
<1> QED BY <1>1, <1>2 DEF AuthOwned, FileOwned

LEMMA StartStepAuth ==
    ASSUME CalmInv, NEW s \in Session, StartStep(s)
    PROVE  AuthOwned'
<1> USE DEF fields, world
<1>i. IInv /\ ModeSteps
  BY DEF CalmInv
<1>g. ASSUME NEW l, Goto(s, l)
      PROVE  /\ pc'[s] = l /\ UNCHANGED prof
             /\ \A t \in Session : t # s => pc'[t] = pc[t]
  BY <1>g, <1>i, GotoMoves
<1>m. ASSUME NEW l \in BeforeCommit \ {"auth", "spawn", "register"}, Goto(s, l),
             UNCHANGED <<cancel, authRef, authFiles>>, pc[s] \notin {"spawn", "register"}
      PROVE  AuthOwned'
  BY <1>m, MoveAuth DEF Registered
<1>e. Error(s) /\ pc[s] \notin {"spawn", "register"} => AuthOwned'
  BY <1>m DEF Error, BeforeCommit
<1>1. CASE WriteAuth(s)
  <2>1. CASE /\ authFiles' = IF TempAuth[prof[s]] THEN authFiles \cup {prof[s]} ELSE authFiles
             /\ Goto(s, "spawn") /\ UNCHANGED <<authRef, cancel>>
    <3>1. AuthHeld'
      BY <1>1, <1>g, <2>1 DEF WriteAuth, Registered, CalmInv, AuthOwned, AuthHeld
    <3>2. ASSUME NEW q \in authFiles PROVE FileOwned(q)'
      BY <1>1, <1>g, <2>1 DEF WriteAuth, CalmInv, AuthOwned, FileOwned, Helper
    <3>3. TempAuth[prof[s]] => FileOwned(prof[s])'
      BY <1>1, <1>i, <1>g, <2>1 DEF WriteAuth, ModeSteps, FileOwned, Helper
    <3>4. ASSUME NEW q \in authFiles' PROVE FileOwned(q)'
      <4>1. q \in authFiles \/ (TempAuth[prof[s]] /\ q = prof[s])
        BY <2>1, <3>4
      <4> QED BY <4>1, <3>2, <3>3, <1>g, <2>1 DEF FileOwned
    <3> QED BY <3>1, <3>4 DEF AuthOwned
  <2> QED BY <1>1, <2>1, <1>e DEF WriteAuth
<1>2. CASE SpawnHelper(s)
  <2>1. CASE Goto(s, "register") /\ UNCHANGED <<authFiles, authRef, cancel>>
    <3>1. AuthHeld'
      BY <1>2, <1>g, <2>1 DEF SpawnHelper, Registered, CalmInv, AuthOwned, AuthHeld
    <3>2. ASSUME NEW q \in authFiles PROVE FileOwned(q)'
      BY <1>2, <1>g, <2>1 DEF SpawnHelper, CalmInv, AuthOwned, FileOwned, Helper
    <3> QED BY <2>1, <3>1, <3>2 DEF AuthOwned
  <2>2. CASE Goto(s, "fail") /\ authFiles' = AuthRemoved(s) /\ UNCHANGED <<authRef, cancel>>
    <3>1. authFiles' \subseteq authFiles
          /\ (Helper(s) = "openvpn" /\ TempAuth[prof[s]] => prof[s] \notin authFiles')
      BY <2>2 DEF AuthRemoved
    <3> QED BY <2>2, <3>1, MoveAuth DEF Registered, BeforeCommit
  <2> QED BY <1>2, <2>1, <2>2 DEF SpawnHelper
<1>3. CASE RegisterHelper(s)
  <2>1. CASE Helper(s) # "openvpn"
    BY <1>3, <2>1, MoveAuth DEF RegisterHelper, Registered, BeforeCommit
  <2>2. CASE Helper(s) = "openvpn"
    <3>1. InFlight(s)
      BY <1>3 DEF RegisterHelper, InFlight, BeforeCommit
    <3>2. AuthHeld'
      BY <1>3, <1>g DEF RegisterHelper, Registered, BeforeCommit, AuthHeld
    <3>3. authRef = NoProfile
      <4> SUFFICES ASSUME authRef # NoProfile PROVE FALSE
        OBVIOUS
      <4>1. PICK t \in Session : pc[t] \in Registered /\ (t = cancel \/ pc[t] \in BeforeCommit)
        BY DEF CalmInv, AuthOwned, AuthHeld
      <4>2. t = s
        BY <3>1, <4>1 DEF CalmInv, OneStart, InFlight
      <4> QED BY <1>3, <4>1, <4>2 DEF RegisterHelper, Registered
    <3>4. ASSUME NEW q \in authFiles PROVE q = authRef'
      <4>1. q # authRef
        BY <1>i, <3>3, <3>4 DEF IInv, TypeOK, WorldOK
      <4>2. PICK t \in Session : pc[t] \in {"spawn", "register"} /\ prof[t] = q /\ TempAuth[q]
        BY <3>4, <4>1 DEF CalmInv, AuthOwned, FileOwned
      <4>3. t = s
        BY <3>1, <4>2 DEF CalmInv, OneStart, InFlight, BeforeCommit
      <4> QED BY <1>3, <2>2, <4>2, <4>3 DEF RegisterHelper
    <3> QED BY <1>3, <3>2, <3>4 DEF RegisterHelper, AuthOwned, FileOwned
  <2> QED BY <2>1, <2>2
<1>4. CASE SettleHelper(s) \/ DialSSH(s) \/ CheckSSH(s) \/ RegisterSSH(s)
  BY <1>4, <1>m, <1>e DEF SettleHelper, DialSSH, CheckSSH, RegisterSSH, BeforeCommit
<1>5. CASE BindSOCKS(s) \/ RegisterSOCKS(s) \/ WaitTCP(s) \/ EnsureBeforeTun(s)
  BY <1>5, <1>m, <1>e DEF BindSOCKS, RegisterSOCKS, WaitTCP, EnsureBeforeTun, BeforeCommit
<1>6. CASE StartTun(s) \/ ApplyRoutes(s) \/ RegisterRoutes(s)
  BY <1>6, <1>m, <1>e DEF StartTun, ApplyRoutes, RegisterRoutes, BeforeCommit
<1>7. CASE Commit(s)
  <2>1. CASE Current(s)
    BY <1>7, <2>1, <1>i, CurrentIsOwner, MoveAuth DEF Commit, Registered, AfterCommit
  <2> QED BY <1>7, <2>1, <1>e DEF Commit
<1>8. CASE StartProxifier(s)
  BY <1>8, <1>i DEF StartProxifier, ModeSteps
<1>9. CASE LaunchGoroutines(s)
  <2>1. CASE s = cancel
    BY <1>9, <2>1, MoveAuth DEF LaunchGoroutines, Registered, AfterCommit
  <2>2. CASE s # cancel
    <3>1. AuthHeld'
      BY <1>9, <2>2, <1>g
         DEF LaunchGoroutines, BeforeCommit, CalmInv, AuthOwned, AuthHeld
    <3>2. ASSUME NEW q \in authFiles PROVE FileOwned(q)'
      BY <1>9, <1>g DEF LaunchGoroutines, CalmInv, AuthOwned, FileOwned, Helper
    <3> QED BY <1>9, <3>1, <3>2 DEF LaunchGoroutines, AuthOwned
  <2> QED BY <2>1, <2>2
<1>10. CASE FailStart(s)
  BY <1>10, <1>g, StopAuth DEF FailStart
<1> QED BY <1>1, <1>2, <1>3, <1>4, <1>5, <1>6, <1>7, <1>8, <1>9, <1>10 DEF StartStep

LEMMA AuthStep == CalmInv /\ [Next]_vars => AuthOwned'
<1> SUFFICES ASSUME CalmInv, [Next]_vars PROVE AuthOwned'
  OBVIOUS
<1> USE DEF fields, world, starts
<1>1. ASSUME NEW p \in Profile, UserStart(p) PROVE AuthOwned'
  BY <1>1, BeginAuth DEF UserStart
<1>2. CASE UserStop
  BY <1>2, StopAuth DEF UserStop
<1>3. ASSUME NEW s \in Session, VerifyWait(s) \/ VerifyResult(s) PROVE AuthOwned'
  BY <1>3, SameAuth DEF VerifyWait, VerifyResult
<1>4. ASSUME NEW s \in Session, NEW r, Lose(r, s) PROVE AuthOwned'
  BY <1>4, SameAuth DEF Lose
<1>5. ASSUME NEW s \in Session, NEW g \in Goroutine,
             Tick(s, g) \/ ContextDone(s, g) \/ Probing(s, g) \/ LoopActions(s, g)
      PROVE  AuthOwned'
  <2>1. CASE stopLocked /\ UNCHANGED starts
    BY <2>1, StopAuth
  <2>2. CASE LoopStart(s, g)
    <3>1. prof[s] \in Profile
      BY <2>2 DEF LoopStart, CalmInv, IInv, Bookkeeping, Begun
    <3> QED BY <2>2, <3>1, BeginAuth, SameAuth DEF LoopStart, StayInLoop
  <2>3. CASE ~(stopLocked /\ UNCHANGED starts) /\ ~LoopStart(s, g)
    BY <1>5, <2>3, SameAuth
       DEF Tick, ContextDone, Probing, ProbeOK, ProbeFails, LoopActions, LoopStop, LoopHead,
           LoopWake, LoopAwait, LoopStartFailed, LoopRestop, LeaveLoop, StayInLoop
  <2> QED BY <2>1, <2>2, <2>3
<1>6. CASE UNCHANGED vars
  BY <1>6, SameAuth DEF vars
<1> QED BY <1>1, <1>2, <1>3, <1>4, <1>5, <1>6, StartStepAuth DEF Next
-----------------------------------------------------------------------------
(***************************************************************************)
(* What the probes look at.                                                *)
(***************************************************************************)
Probes == Targets /\ Telling

Probed == {"xray", "openvpn", "ssh"}

LEMMA StopTargets ==
    ASSUME CalmInv, stopLocked, UNCHANGED prof, \A s \in Session : pc[s] # "none" => pc'[s] # "none"
    PROVE  Targets'
<1> SUFFICES ASSUME NEW r \in Probed, ref'[r] # 0
             PROVE  /\ pc'[ref'[r]] # "none"
                    /\ IF r = "ssh" THEN Mode[prof'[ref'[r]]] \in {"ssh", "dnstt"}
                       ELSE Mode[prof'[ref'[r]]] = r
                    /\ r # "openvpn" => ref'[r] = cancel' \/ pc'[ref'[r]] \in BeforeCommit
  BY DEF Targets, Helper, Probed
<1>1. r = "openvpn" /\ ref'[r] = ref[r] /\ ref[r] \in Session
  BY DEF stopLocked, StoppedFields, Probed, Kind, CalmInv, IInv, TypeOK, FieldsOK, Session
<1> QED BY <1>1 DEF CalmInv, Targets, Helper

LEMMA BeginTargets ==
    ASSUME CalmInv, NEW p \in Profile, BeginSession(p), UNCHANGED ref
    PROVE  Targets'
<1> SUFFICES ASSUME NEW r \in Probed, ref[r] # 0
             PROVE  /\ pc'[ref[r]] # "none"
                    /\ IF r = "ssh" THEN Mode[prof'[ref[r]]] \in {"ssh", "dnstt"}
                       ELSE Mode[prof'[ref[r]]] = r
                    /\ r # "openvpn" => ref[r] = cancel' \/ pc'[ref[r]] \in BeforeCommit
  BY DEF Targets, Helper, Probed
<1>1. ref[r] \in Session /\ ref[r] # cancel
  BY BeginFacts DEF CalmInv, IInv, TypeOK, FieldsOK, Probed, Kind, Session
<1>2. pc[ref[r]] # "none"
  BY DEF CalmInv, Targets, Probed
<1>3. pc'[ref[r]] = pc[ref[r]] /\ prof'[ref[r]] = prof[ref[r]]
  BY <1>1, <1>2, BeginFacts DEF CalmInv
<1> QED BY <1>1, <1>3 DEF CalmInv, Targets, Helper, Probed

LEMMA MoveTargets ==
    ASSUME CalmInv, NEW s \in Session, NEW l, Goto(s, l), l # "none",
           pc[s] \in BeforeCommit => l \in BeforeCommit \/ s = cancel, UNCHANGED cancel,
           \A r \in Probed : \/ ref'[r] = ref[r]
                             \/ /\ ref'[r] = s /\ l \in BeforeCommit
                                /\ IF r = "ssh" THEN Helper(s) \in {"ssh", "dnstt"}
                                   ELSE Helper(s) = r
    PROVE  Targets'
<1>g. pc'[s] = l /\ UNCHANGED prof /\ \A t \in Session : t # s => pc'[t] = pc[t]
  BY GotoMoves DEF CalmInv
<1> SUFFICES ASSUME NEW r \in Probed, ref'[r] # 0
             PROVE  /\ pc'[ref'[r]] # "none"
                    /\ IF r = "ssh" THEN Mode[prof[ref'[r]]] \in {"ssh", "dnstt"}
                       ELSE Mode[prof[ref'[r]]] = r
                    /\ r # "openvpn" => ref'[r] = cancel \/ pc'[ref'[r]] \in BeforeCommit
  BY <1>g DEF Targets, Helper, Probed
<1>1. CASE ref'[r] = ref[r]
  <2>1. ref[r] \in Session
    BY <1>1 DEF CalmInv, IInv, TypeOK, FieldsOK, Probed, Kind, Session
  <2> QED BY <1>1, <1>g, <2>1 DEF CalmInv, Targets, Helper, Probed
<1>2. CASE ref'[r] # ref[r]
  BY <1>2, <1>g DEF Helper
<1> QED BY <1>1, <1>2

LEMMA StartStepTargets ==
    ASSUME CalmInv, NEW s \in Session, StartStep(s)
    PROVE  Targets'
<1> USE DEF fields, world
<1>i. IInv /\ ModeSteps
  BY DEF CalmInv
<1>m. ASSUME NEW l \in BeforeCommit, Goto(s, l), UNCHANGED cancel,
             \A r \in Probed : ref'[r] = ref[r]
      PROVE  Targets'
  BY <1>m, MoveTargets DEF BeforeCommit
<1>e. Error(s) => Targets'
  BY <1>m DEF Error, BeforeCommit
<1>f. ASSUME NEW r \in Kind, ref' = [ref EXCEPT ![r] = s]
      PROVE  ref'[r] = s /\ \A q \in Kind : q # r => ref'[q] = ref[q]
  BY <1>f, <1>i DEF IInv, TypeOK, FieldsOK
<1>1. CASE RegisterHelper(s)
  <2>1. Helper(s) \in Kind
    BY <1>1, <1>i, HasProfile, HelperIsKind DEF RegisterHelper
  <2>2. \A r \in Probed : ref'[r] = ref[r] \/ (ref'[r] = s /\ Helper(s) = r /\ r # "ssh")
    BY <1>1, <1>i, <1>f, <2>1 DEF RegisterHelper, ModeSteps, Probed, Kind
  <2> QED BY <1>1, <2>2, MoveTargets DEF RegisterHelper, BeforeCommit
<1>2. CASE RegisterSSH(s)
  <2>1. \A r \in Probed : ref'[r] = ref[r] \/ (ref'[r] = s /\ r = "ssh")
    BY <1>2, <1>f DEF RegisterSSH, Probed, Kind
  <2>2. Helper(s) \in {"ssh", "dnstt"}
    BY <1>2, <1>i DEF RegisterSSH, ModeSteps
  <2> QED BY <1>2, <2>1, <2>2, MoveTargets DEF RegisterSSH, BeforeCommit
<1>3. CASE RegisterSOCKS(s) \/ RegisterRoutes(s) \/ StartTun(s)
  <2>1. \A r \in Probed : ref'[r] = ref[r]
    BY <1>3, <1>f DEF RegisterSOCKS, RegisterRoutes, StartTun, Error, Probed, Kind
  <2> QED BY <1>3, <2>1, <1>m, <1>e DEF RegisterSOCKS, RegisterRoutes, StartTun, BeforeCommit
<1>4. CASE WriteAuth(s) \/ SpawnHelper(s) \/ SettleHelper(s) \/ DialSSH(s) \/ CheckSSH(s)
  BY <1>4, <1>m, <1>e DEF WriteAuth, SpawnHelper, SettleHelper, DialSSH, CheckSSH, BeforeCommit
<1>5. CASE BindSOCKS(s) \/ WaitTCP(s) \/ EnsureBeforeTun(s) \/ ApplyRoutes(s)
  BY <1>5, <1>m, <1>e DEF BindSOCKS, WaitTCP, EnsureBeforeTun, ApplyRoutes, BeforeCommit
<1>6. CASE Commit(s)
  <2>1. CASE Current(s)
    BY <1>6, <2>1, <1>i, CurrentIsOwner, MoveTargets DEF Commit
  <2> QED BY <1>6, <2>1, <1>e DEF Commit
<1>7. CASE StartProxifier(s)
  BY <1>7, <1>i DEF StartProxifier, ModeSteps
<1>8. CASE LaunchGoroutines(s)
  BY <1>8, MoveTargets DEF LaunchGoroutines, BeforeCommit
<1>9. CASE FailStart(s)
  BY <1>9, <1>i, GotoMoves, StopTargets DEF FailStart
<1> QED BY <1>1, <1>2, <1>3, <1>4, <1>5, <1>6, <1>7, <1>8, <1>9 DEF StartStep

LEMMA SameTargets ==
    ASSUME CalmInv, UNCHANGED <<ref, cancel, pc, prof>>
    PROVE  Targets'
  BY DEF CalmInv, Targets, Helper

LEMMA TargetsStep == CalmInv /\ [Next]_vars => Targets'
<1> SUFFICES ASSUME CalmInv, [Next]_vars PROVE Targets'
  OBVIOUS
<1> USE DEF fields, world, starts
<1>1. ASSUME NEW p \in Profile, UserStart(p) PROVE Targets'
  BY <1>1, BeginTargets DEF UserStart
<1>2. CASE UserStop
  BY <1>2, StopTargets DEF UserStop
<1>3. ASSUME NEW s \in Session, VerifyWait(s) \/ VerifyResult(s) PROVE Targets'
  BY <1>3, SameTargets DEF VerifyWait, VerifyResult
<1>4. ASSUME NEW s \in Session, NEW r, Lose(r, s) PROVE Targets'
  BY <1>4, SameTargets DEF Lose
<1>5. ASSUME NEW s \in Session, NEW g \in Goroutine,
             Tick(s, g) \/ ContextDone(s, g) \/ Probing(s, g) \/ LoopActions(s, g)
      PROVE  Targets'
  <2>1. CASE stopLocked /\ UNCHANGED starts
    BY <2>1, StopTargets
  <2>2. CASE LoopStart(s, g)
    <3>1. prof[s] \in Profile
      BY <2>2 DEF LoopStart, CalmInv, IInv, Bookkeeping, Begun
    <3> QED BY <2>2, <3>1, BeginTargets, SameTargets DEF LoopStart, StayInLoop
  <2>3. CASE ~(stopLocked /\ UNCHANGED starts) /\ ~LoopStart(s, g)
    BY <1>5, <2>3, SameTargets
       DEF Tick, ContextDone, Probing, ProbeOK, ProbeFails, LoopActions, LoopStop, LoopHead,
           LoopWake, LoopAwait, LoopStartFailed, LoopRestop, LeaveLoop, StayInLoop
  <2> QED BY <2>1, <2>2, <2>3
<1>6. CASE UNCHANGED vars
  BY <1>6, SameTargets DEF vars
<1> QED BY <1>1, <1>2, <1>3, <1>4, <1>5, <1>6, StartStepTargets DEF Next

(***************************************************************************)
(* While a Start is in flight no goroutine probes or is about to stop, so  *)
(* Telling says nothing; the same without an owner.                        *)
(***************************************************************************)
LEMMA NothingToTell ==
    ASSUME \/ cancel' = 0
           \/ \A t \in Session, h \in Goroutine : gpc'[t][h] \notin {"probe", "stop"}
    PROVE  Telling'
  BY DEF Telling, TellingAt, Session

LEMMA StartStepTelling ==
    ASSUME CalmInv, NEW s \in Session, StartStep(s)
    PROVE  Telling'
<1>1. InFlight(s)
  BY DEF StartStep, WriteAuth, SpawnHelper, RegisterHelper, SettleHelper, DialSSH, CheckSSH,
         RegisterSSH, BindSOCKS, RegisterSOCKS, WaitTCP, EnsureBeforeTun, StartTun, ApplyRoutes,
         RegisterRoutes, Commit, StartProxifier, LaunchGoroutines, FailStart, InFlight, BeforeCommit
<1>2. \A t \in Session, h \in Goroutine : gpc[t][h] \notin {"probe", "stop"}
  BY <1>1 DEF CalmInv, Solo, SoloAt
<1>3. CASE LaunchGoroutines(s)
  <2>1. \A t \in Session, h \in Goroutine :
           gpc'[t][h] = gpc[t][h] \/ gpc'[t][h] \in {"tick", "off"}
    BY <1>3 DEF LaunchGoroutines, CalmInv, IInv, TypeOK, WorkersOK
  <2> QED BY <1>2, <2>1, NothingToTell
<1>4. CASE UNCHANGED gpc
  BY <1>2, <1>4, NothingToTell
<1> QED BY <1>3, <1>4
        DEF StartStep, WriteAuth, SpawnHelper, RegisterHelper, SettleHelper, DialSSH, CheckSSH,
            RegisterSSH, BindSOCKS, RegisterSOCKS, WaitTCP, EnsureBeforeTun, StartTun, ApplyRoutes,
            RegisterRoutes, Commit, StartProxifier, FailStart, Error, workers

\* A step that leaves the fields and the goroutines that tell alone.
LEMMA SameTelling ==
    ASSUME CalmInv, UNCHANGED <<cancel, prof>>,
           \A t \in Session, h \in Goroutine :
              \/ TellingAt(t, h)'
              \/ gpc'[t][h] = gpc[t][h] /\ snap'[t][h] = snap[t][h]
    PROVE  Telling'
<1> SUFFICES ASSUME NEW t \in Session, NEW h \in Goroutine,
                    gpc'[t][h] = gpc[t][h], snap'[t][h] = snap[t][h]
             PROVE  TellingAt(t, h)'
  BY DEF Telling
<1>1. TellingAt(t, h)
  BY DEF CalmInv, Telling
<1> QED BY <1>1 DEF TellingAt, FoundLost, Carrier

\* What a goroutine asks while a tunnel runs is that tunnel's.
LEMMA TickTells ==
    ASSUME CalmInv, NEW s \in Session, NEW g \in Goroutine, cancel # 0, gpc[s][g] = "tick",
           ProbeTarget(g).of # 0
    PROVE  \/ ProbeTarget(g) = [kind |-> Carrier(prof[cancel]), of |-> cancel]
           \/ ProbeTarget(g).kind = "openvpn"
<1>1. \A t \in Session : pc[t] \notin BeforeCommit
  BY DEF CalmInv, Solo, SoloAt, InFlight
<1>2. \A r \in {"xray", "ssh"} : ref[r] # 0 => ref[r] = cancel
  <2>1. ASSUME NEW r \in {"xray", "ssh"}, ref[r] # 0 PROVE ref[r] = cancel
    <3>1. ref[r] \in Session
      BY <2>1 DEF CalmInv, IInv, TypeOK, FieldsOK, Session, Kind
    <3> QED BY <1>1, <2>1, <3>1 DEF CalmInv, Targets
  <2> QED BY <2>1
<1>3. /\ ref["xray"] # 0 => Carrier(prof[cancel]) = "xray"
      /\ ref["ssh"] # 0 => Carrier(prof[cancel]) = "ssh"
  BY <1>2 DEF CalmInv, Targets, Helper, Carrier
<1>4. CASE g = "monitor"
  <2>1. status.Running
    BY <1>4 DEF ProbeTarget, MonitorTarget, NoTarget
  <2> QED BY <1>2, <1>3, <1>4, <2>1 DEF ProbeTarget, MonitorTarget
<1>5. CASE g # "monitor"
  BY <1>2, <1>3, <1>5 DEF ProbeTarget
<1> QED BY <1>4, <1>5

LEMMA GoroutineTelling ==
    ASSUME CalmInv, Calm, NEW s \in Session, NEW g \in Goroutine,
           Tick(s, g) \/ ContextDone(s, g) \/ Probing(s, g) \/ LoopActions(s, g)
    PROVE  Telling'
<1> USE DEF fields, world, starts
<1>i. IInv
  BY DEF CalmInv
<1>s. ASSUME NEW l, At(s, g, l), TellingAt(s, g)', UNCHANGED <<cancel, prof>>,
             UNCHANGED snap \/ \E x : snap' = [snap EXCEPT ![s][g] = x]
      PROVE  Telling'
  <2>1. \A t \in Session, h \in Goroutine : t # s \/ h # g => snap'[t][h] = snap[t][h]
    BY <1>s, <1>i DEF IInv, TypeOK, WorkersOK
  <2>2. \A t \in Session, h \in Goroutine :
           TellingAt(t, h)' \/ (gpc'[t][h] = gpc[t][h] /\ snap'[t][h] = snap[t][h])
    BY <1>s, <1>i, <2>1, AtMoves
  <2> QED BY <1>s, <2>2, SameTelling
<1>q. ASSUME NEW l, At(s, g, l), l \notin {"probe", "stop"}, UNCHANGED <<cancel, prof>>,
             UNCHANGED snap \/ \E x : snap' = [snap EXCEPT ![s][g] = x]
      PROVE  Telling'
  <2>1. TellingAt(s, g)'
    BY <1>q, <1>i, AtMoves DEF TellingAt
  <2> QED BY <1>q, <1>s, <2>1
<1>1. CASE Tick(s, g)
  <2>1. CASE /\ ProbeTarget(g).of # 0 /\ snap' = [snap EXCEPT ![s][g] = ProbeTarget(g)]
             /\ At(s, g, "probe") /\ UNCHANGED <<fields, world, starts>>
    <3>1. snap'[s][g] = ProbeTarget(g) /\ gpc'[s][g] = "probe"
      BY <1>i, <2>1, AtMoves DEF IInv, TypeOK, WorkersOK
    <3>2. cancel # 0 => \/ ProbeTarget(g) = [kind |-> Carrier(prof[cancel]), of |-> cancel]
                        \/ ProbeTarget(g).kind = "openvpn"
      BY <1>1, <2>1, TickTells DEF Tick
    <3>3. UNCHANGED <<cancel, prof>>
      BY <2>1
    <3>4. TellingAt(s, g)'
      BY <3>1, <3>2, <3>3 DEF TellingAt, FoundLost, Carrier
    <3> QED BY <2>1, <3>4, <1>s
  <2> QED BY <1>1, <2>1, <1>q DEF Tick
<1>2. CASE ContextDone(s, g) \/ ProbeOK(s, g)
  BY <1>2, <1>q DEF ContextDone, ProbeOK, Forget
<1>3. CASE ProbeFails(s, g)
  <2>1. CASE At(s, g, "stop") /\ UNCHANGED <<cancel, prof, snap>>
    <3>1. TellingAt(s, g)
      BY DEF CalmInv, Telling
    <3>2. TellingAt(s, g)'
      BY <1>3, <1>i, <2>1, <3>1, AtMoves DEF ProbeFails, TellingAt, FoundLost, Carrier
    <3> QED BY <2>1, <3>2, <1>s
  <2>2. CASE stopLocked
    BY <2>2, NothingToTell DEF stopLocked
  <2> QED BY <1>3, <2>1, <2>2, <1>q DEF ProbeFails, Forget
<1>4. CASE LoopStop(s, g) \/ LoopRestop(s, g)
  BY <1>4, NothingToTell DEF LoopStop, LoopRestop, stopLocked
<1>5. CASE LoopHead(s, g) \/ LoopWake(s, g) \/ LoopAwait(s, g) \/ LoopStartFailed(s, g)
  BY <1>5, <1>q DEF LoopHead, LoopWake, LoopAwait, LoopStartFailed, LeaveLoop, StayInLoop
<1>6. CASE LoopStart(s, g)
  <2>1. CASE At(s, g, "await")
    <3>1. \A t \in Session, h \in Goroutine : (t = s /\ h = g) \/ gpc[t][h] \in {"off", "done"}
      BY <1>6 DEF LoopStart, CalmInv, Solo, SoloAt, Resting
    <3>2. \A t \in Session, h \in Goroutine : gpc'[t][h] \notin {"probe", "stop"}
      BY <1>i, <2>1, <3>1, AtMoves
    <3> QED BY <3>2, NothingToTell
  <2> QED BY <1>6, <2>1, <1>q DEF LoopStart, StayInLoop
<1> QED BY <1>1, <1>2, <1>3, <1>4, <1>5, <1>6 DEF Probing, LoopActions

LEMMA TellingStep == CalmInv /\ Calm /\ [Next]_vars => Telling'
<1> SUFFICES ASSUME CalmInv, Calm, [Next]_vars PROVE Telling'
  OBVIOUS
<1> USE DEF fields, world, starts, workers
<1>u. UNCHANGED <<cancel, prof, gpc, snap>> => Telling'
  BY SameTelling
<1>1. ASSUME NEW p \in Profile, UserStart(p) PROVE Telling'
  <2>1. cancel = 0 /\ \A t \in Session : ~InFlight(t)
    BY <1>1, BeginFacts DEF UserStart, CalmInv, Calm, Quiet
  <2>2. \A t \in Session, h \in Goroutine : Resting(t, h)
    BY <1>1, <2>1, AllRest DEF UserStart, Calm, Quiet
  <2> QED BY <1>1, <2>2, NothingToTell DEF UserStart, Resting
<1>2. CASE UserStop
  BY <1>2, NothingToTell DEF UserStop, stopLocked
<1>3. ASSUME NEW s \in Session, VerifyWait(s) \/ VerifyResult(s) PROVE Telling'
  BY <1>3, <1>u DEF VerifyWait, VerifyResult
<1>4. ASSUME NEW s \in Session, NEW r, Lose(r, s) PROVE Telling'
  BY <1>4, <1>u DEF Lose
<1>5. CASE UNCHANGED vars
  BY <1>5, <1>u DEF vars
<1> QED BY <1>1, <1>2, <1>3, <1>4, <1>5, StartStepTelling, GoroutineTelling DEF Next
-----------------------------------------------------------------------------
LEMMA InitCalm == Init => CalmInv
<1> SUFFICES ASSUME Init PROVE CalmInv
  OBVIOUS
<1>1. IInv
  BY InitIInv
<1>2. \A s \in Session : pc[s] = "none" /\ \A g \in Goroutine : gpc[s][g] = "off"
  BY DEF Init
<1>3. OneReconnectLoop
  BY <1>2 DEF Init, OneReconnectLoop, Looping, LoopStep
<1>4. ModeSteps /\ OneStart /\ Solo
  BY <1>2 DEF ModeSteps, OneStart, Solo, SoloAt, InFlight, BeforeCommit
<1>5. Owned /\ Created
  BY <1>2 DEF Init, Owned, Created, RefsCreated, StartsCreated, ProbesCreated
<1>6. AuthOwned
  BY DEF Init, AuthOwned, AuthHeld
<1>7. Targets /\ Telling
  BY <1>2 DEF Init, Targets, Telling, TellingAt, Kind
<1> QED BY <1>1, <1>3, <1>4, <1>5, <1>6, <1>7 DEF CalmInv

LEMMA CalmInvariance == ASSUME Calm PROVE Spec => []CalmInv
<1>1. IInv /\ [Next]_vars => IInv'
  BY TypeStep, KeepsStep DEF IInv
<1>2. CalmInv /\ [Next]_vars => CalmInv'
  BY <1>1, LoopStepKeeps, ControlStep, ResourcesStep, AuthStep, TargetsStep, TellingStep
     DEF CalmInv, LoopInv, Control, Resources
<1> QED BY InitCalm, <1>2, PTL DEF Spec

(***************************************************************************)
(* With a user who waits, goroutines that get to run and no proxifier,     *)
(* nothing of an earlier session is left once everything has come to rest: *)
(* no connection, listener, process, adapter or route, and with no tunnel  *)
(* no credential file, whatever step of Start failed and however often the *)
(* reconnect loop went round.                                              *)
(***************************************************************************)
THEOREM NothingLeaksWhenCalm == ASSUME Calm PROVE Spec => []NothingLeaks
<1>1. CalmInv => NothingLeaks
  <2> SUFFICES ASSUME CalmInv, Quiet
               PROVE  /\ \A r \in Kind, s \in Session : Held(r, s) => s = cancel
                      /\ cancel = 0 => authFiles = {}
    BY DEF NothingLeaks
  <2>1. \A s \in Session : pc[s] \notin BeforeCommit
    BY DEF Quiet, InFlight
  <2>2. ASSUME NEW r \in Kind, NEW s \in Session, Held(r, s) PROVE s = cancel
    <3>1. Stoppable(r, s) \/ Unregistered(r, s)
      BY <2>2 DEF Held, CalmInv, Owned
    <3> QED BY <2>1, <3>1 DEF Stoppable, Unregistered, BeforeCommit
  <2>3. ASSUME cancel = 0, NEW p \in authFiles PROVE FALSE
    <3>1. authRef = NoProfile
      BY <2>1, <2>3 DEF CalmInv, AuthOwned, AuthHeld, Session
    <3>2. p # NoProfile
      BY <2>3 DEF CalmInv, IInv, TypeOK, WorldOK
    <3> QED BY <2>1, <2>3, <3>1, <3>2 DEF CalmInv, AuthOwned, FileOwned, BeforeCommit
  <2> QED BY <2>2, <2>3
<1> QED BY CalmInvariance, <1>1, PTL

(***************************************************************************)
(* In the same setting the keepalive and reconnectLoop stop a running      *)
(* tunnel only after their own probe of what that tunnel hangs on failed,  *)
(* or found gone the process m.openvpn points to, which may be an earlier  *)
(* session's.                                                              *)
(***************************************************************************)
THEOREM OnlyLostTunnelsReconnectWhenCalm == ASSUME Calm PROVE Spec => OnlyLostTunnelsReconnect
<1> DEFINE Lost(s, g) == FoundLost(s, g) \/ snap[s][g].kind = "openvpn"
<1>1. CalmInv /\ [Next]_vars =>
         [\A s \in Session, g \in Goroutine : TearsDown(s, g) => Lost(s, g)]_vars
  <2> SUFFICES ASSUME CalmInv, Next, NEW u \in Session, NEW h \in Goroutine, TearsDown(u, h)
               PROVE  Lost(u, h)
    OBVIOUS
  <2> USE DEF fields, starts, workers
  <2>0. /\ cancel # 0 /\ cancel' = 0 /\ status.Running /\ ~UNCHANGED gpc
        /\ gpc[u][h] \in {"stop", "restop", "probe"} /\ gpc'[u][h] # gpc[u][h]
    BY DEF TearsDown
  <2>1. ASSUME NEW p \in Profile, UserStart(p) PROVE FALSE
    BY <2>0, <2>1 DEF UserStart
  <2>2. CASE UserStop
    BY <2>0, <2>2 DEF UserStop
  <2>3. ASSUME NEW s \in Session, StartStep(s) PROVE FALSE
    BY <2>0, <2>3
       DEF StartStep, WriteAuth, SpawnHelper, RegisterHelper, SettleHelper, DialSSH, CheckSSH,
           RegisterSSH, BindSOCKS, RegisterSOCKS, WaitTCP, EnsureBeforeTun, StartTun, ApplyRoutes,
           RegisterRoutes, Commit, StartProxifier, LaunchGoroutines, FailStart, Error
  <2>4. ASSUME NEW s \in Session, VerifyWait(s) \/ VerifyResult(s) PROVE FALSE
    BY <2>0, <2>4 DEF VerifyWait, VerifyResult
  <2>5. ASSUME NEW s \in Session, NEW r, Lose(r, s) PROVE FALSE
    BY <2>0, <2>5 DEF Lose
  <2>6. ASSUME NEW s \in Session, NEW g \in Goroutine, ProbeFails(s, g) \/ LoopStop(s, g)
        PROVE  Lost(u, h)
    <3>1. TellingAt(u, h) /\ SoloAt(u, h)
      BY DEF CalmInv, Telling, Solo
    <3>2. gpc[u][h] # "restop"
      BY <2>0, <3>1 DEF SoloAt
    <3> QED BY <2>0, <3>1, <3>2 DEF TellingAt
  <2>7. ASSUME NEW s \in Session, NEW g \in Goroutine, LoopRestop(s, g) PROVE FALSE
    BY <2>0, <2>7 DEF LoopRestop, CalmInv, Solo, SoloAt
  <2>8. ASSUME NEW s \in Session, NEW g \in Goroutine, LoopStart(s, g) PROVE FALSE
    BY <2>0, <2>8 DEF LoopStart, BeginSession, MayBegin, StayInLoop
  <2>9. ASSUME NEW s \in Session, NEW g \in Goroutine,
                \/ Tick(s, g) \/ ContextDone(s, g) \/ ProbeOK(s, g) \/ LoopHead(s, g)
                \/ LoopWake(s, g) \/ LoopAwait(s, g) \/ LoopStartFailed(s, g)
         PROVE  FALSE
    BY <2>0, <2>9 DEF Tick, ContextDone, ProbeOK, LoopHead, LoopWake, LoopAwait,
                       LoopStartFailed, LeaveLoop, StayInLoop
  <2> QED BY <2>1, <2>2, <2>3, <2>4, <2>5, <2>6, <2>7, <2>8, <2>9
          DEF Next, Probing, LoopActions
<1> QED BY CalmInvariance, <1>1, PTL DEF Spec, OnlyLostTunnelsReconnect
=============================================================================
