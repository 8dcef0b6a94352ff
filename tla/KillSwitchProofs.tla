-------------------------- MODULE KillSwitchProofs --------------------------
(***************************************************************************)
(* Proofs about KillSwitch, for any profiles, hosts and address families:  *)
(* the switch holds, no route is orphaned, and switching off restores what *)
(* the machine had, until the program is restarted.                        *)
(***************************************************************************)
EXTENDS KillSwitch, TLAPS

USE KillSwitchAssumption

\* The block's cleanup k restores the default routes that table t lacks.
DefaultsOK(t, k) ==
    /\ t.default \cup k.restore = Uplink
    /\ t.default \cap k.restore = {}

(***************************************************************************)
(* Every host route of t is the block's or one of those in B, which the    *)
(* tunnels own, and of no other; the routes into the TUN are among S.      *)
(***************************************************************************)
HostsOK(t, k, B, S) ==
    /\ \A f \in Family : /\ t.bypass[f] = k.bypass[f] \cup B[f]
                         /\ k.bypass[f] \cap B[f] = {}
    /\ t.split \subseteq S

\* What the tunnels own: cleanup c, and the cleanups m in the hands of Starts.
HandHosts(m, f) == UNION {m[s].bypass[f] : s \in Start}
HandSplit(m) == UNION {m[s].split : s \in Start}
OwnedHosts(c, m) == [f \in Family |-> c.bypass[f] \cup HandHosts(m, f)]
OwnedSplit(c, m) == c.split \cup HandSplit(m)

\* What a cleanup of the kill switch looks like next to a table.
SwitchOK(t, k) ==
    /\ t \in Table /\ k \in Cleanup
    /\ k.split = {}
    /\ k.set => t.default = {}
    /\ ~k.set => k = NoCleanup

\* What a cleanup of the TUN routes looks like.
TunOK(c) ==
    /\ c \in Cleanup
    /\ c.restore = {}
    /\ ~c.set => c = NoCleanup
-----------------------------------------------------------------------------
(***************************************************************************)
(* The operators of internal/routes.                                       *)
(***************************************************************************)
LEMMA NoCleanupType == NoCleanup \in Cleanup /\ ~NoCleanup.set /\ NoCleanup.restore = {}
                       /\ NoCleanup.split = {} /\ \A f \in Family : NoCleanup.bypass[f] = {}
  BY DEF NoCleanup, Cleanup, NoHosts

LEMMA OriginalType == Original \in Table /\ Original.default = Uplink /\ Original.split = {}
                      /\ \A f \in Family : Original.bypass[f] = {}
  BY DEF Original, Table, NoHosts

\* A table is determined by what it holds.
LEMMA TableEquality ==
    ASSUME NEW t \in Table, t.default = Uplink, t.split = {}, \A f \in Family : t.bypass[f] = {}
    PROVE  t = Original
<1>1. t.bypass = NoHosts
  BY DEF Table, NoHosts
<1> QED BY <1>1 DEF Table, Original

LEMMA RunType ==
    ASSUME NEW t \in Table, NEW c \in Cleanup
    PROVE  /\ Run(t, c) \in Table
           /\ Run(t, c).default = t.default \cup c.restore
           /\ Run(t, c).split = t.split \ c.split
           /\ \A f \in Family : Run(t, c).bypass[f] = t.bypass[f] \ c.bypass[f]
  BY DEF Run, Table, Cleanup

LEMMA ResolvedType ==
    ASSUME NEW hosts \in SUBSET Host, NEW f \in Family
    PROVE  Resolved(hosts, f) \subseteq Host
  BY DEF Resolved

LEMMA BlockType ==
    ASSUME NEW t \in Table, NEW hosts \in SUBSET Host
    PROVE  /\ BlockTable(t, hosts) \in Table
           /\ BlockCleanup(t, hosts) \in Cleanup
           /\ BlockTable(t, hosts).default = {} /\ BlockTable(t, hosts).split = t.split
           /\ BlockCleanup(t, hosts).set /\ BlockCleanup(t, hosts).restore = t.default
           /\ BlockCleanup(t, hosts).split = {}
           /\ \A f \in Family :
                 /\ BlockTable(t, hosts).bypass[f]
                       = t.bypass[f] \cup BlockCleanup(t, hosts).bypass[f]
                 /\ BlockCleanup(t, hosts).bypass[f] \cap t.bypass[f] = {}
  BY ResolvedType DEF BlockTable, BlockCleanup, Table, Cleanup

\* The host routes of family g, when those to hosts are new in family f.
New(g, f, hosts) == IF g = f THEN hosts ELSE {}

\* What a Start adds is not in the table yet.
LEMMA BypassType ==
    ASSUME NEW t \in Table, NEW p, NEW hosts \in SUBSET Host, NEW f \in Family, NEW found
    PROVE  /\ TunBypass(t, p, hosts, f, found) \in SUBSET Host
           /\ TunBypass(t, p, hosts, f, found) \cap t.bypass[f] = {}
  BY DEF TunBypass, Table

\* With one Start at work, what Starts have in hand is what it has in hand.
LEMMA HandOfOne ==
    ASSUME NEW m \in [Start -> Cleanup], NEW n \in Start,
           \A s \in Start : s # n => m[s] = NoCleanup
    PROVE  /\ \A f \in Family : HandHosts(m, f) = m[n].bypass[f]
           /\ HandSplit(m) = m[n].split
<1>1. ASSUME NEW f \in Family PROVE HandHosts(m, f) = m[n].bypass[f]
  <2>1. \A s \in Start : s # n => m[s].bypass[f] = {}
    BY NoCleanupType
  <2> QED BY <2>1 DEF HandHosts
<1>2. HandSplit(m) = m[n].split
  <2>1. \A s \in Start : s # n => m[s].split = {}
    BY NoCleanupType
  <2> QED BY <2>1 DEF HandSplit
<1> QED BY <1>1, <1>2

LEMMA HandOfNone ==
    ASSUME NEW m \in [Start -> Cleanup], \A s \in Start : m[s] = NoCleanup
    PROVE  /\ \A f \in Family : HandHosts(m, f) = {}
           /\ HandSplit(m) = {}
<1>1. ASSUME NEW f \in Family PROVE HandHosts(m, f) = {}
  <2>1. \A s \in Start : m[s].bypass[f] = {}
    BY NoCleanupType
  <2> QED BY <2>1 DEF HandHosts
<1>2. HandSplit(m) = {}
  <2>1. \A s \in Start : m[s].split = {}
    BY NoCleanupType
  <2> QED BY <2>1 DEF HandSplit
<1> QED BY <1>1, <1>2
-----------------------------------------------------------------------------
(***************************************************************************)
(* The accounts, operation by operation.                                   *)
(***************************************************************************)
LEMMA ReleaseAccounts ==
    ASSUME NEW t, NEW k, SwitchOK(t, k)
    PROVE  /\ DefaultsOK(t, k) => DefaultsOK(Run(t, k), NoCleanup)
           /\ \A B, S : HostsOK(t, k, B, S) => HostsOK(Run(t, k), NoCleanup, B, S)
<1>a. t \in Table /\ k \in Cleanup /\ k.split = {}
  BY NoCleanupType DEF SwitchOK
<1>b. /\ Run(t, k).default = t.default \cup k.restore
      /\ Run(t, k).split = t.split \ k.split
      /\ \A f \in Family : Run(t, k).bypass[f] = t.bypass[f] \ k.bypass[f]
  BY <1>a, RunType
<1>c. NoCleanup.restore = {} /\ NoCleanup.split = {} /\ \A f \in Family : NoCleanup.bypass[f] = {}
  BY NoCleanupType
<1>1. DefaultsOK(t, k) => DefaultsOK(Run(t, k), NoCleanup)
  BY <1>b, <1>c DEF DefaultsOK
<1>2. ASSUME NEW B, NEW S, HostsOK(t, k, B, S) PROVE HostsOK(Run(t, k), NoCleanup, B, S)
  <2>1. Run(t, k).split \subseteq S
    BY <1>2, <1>b DEF HostsOK
  <2>2. ASSUME NEW f \in Family
        PROVE  /\ Run(t, k).bypass[f] = NoCleanup.bypass[f] \cup B[f]
               /\ NoCleanup.bypass[f] \cap B[f] = {}
    BY <1>2, <1>b, <1>c DEF HostsOK
  <2> QED BY <2>1, <2>2 DEF HostsOK
<1> QED BY <1>1, <1>2

LEMMA BlockAccounts ==
    ASSUME NEW t, NEW hosts \in SUBSET Host, SwitchOK(t, NoCleanup)
    PROVE  /\ DefaultsOK(t, NoCleanup) =>
                  DefaultsOK(BlockTable(t, hosts), BlockCleanup(t, hosts))
           /\ \A B, S : HostsOK(t, NoCleanup, B, S) =>
                  HostsOK(BlockTable(t, hosts), BlockCleanup(t, hosts), B, S)
<1>a. t \in Table
  BY DEF SwitchOK
<1>b. /\ BlockTable(t, hosts).default = {} /\ BlockTable(t, hosts).split = t.split
      /\ BlockCleanup(t, hosts).restore = t.default
      /\ \A f \in Family :
            /\ BlockTable(t, hosts).bypass[f] = t.bypass[f] \cup BlockCleanup(t, hosts).bypass[f]
            /\ BlockCleanup(t, hosts).bypass[f] \cap t.bypass[f] = {}
  BY <1>a, BlockType
<1>c. NoCleanup.restore = {} /\ \A f \in Family : NoCleanup.bypass[f] = {}
  BY NoCleanupType
<1>1. DefaultsOK(t, NoCleanup) => DefaultsOK(BlockTable(t, hosts), BlockCleanup(t, hosts))
  BY <1>b, <1>c DEF DefaultsOK
<1>2. ASSUME NEW B, NEW S, HostsOK(t, NoCleanup, B, S)
      PROVE  HostsOK(BlockTable(t, hosts), BlockCleanup(t, hosts), B, S)
  <2>1. ASSUME NEW f \in Family
        PROVE  /\ BlockTable(t, hosts).bypass[f] = BlockCleanup(t, hosts).bypass[f] \cup B[f]
               /\ BlockCleanup(t, hosts).bypass[f] \cap B[f] = {}
    BY <1>2, <1>b, <1>c DEF HostsOK
  <2> QED BY <1>2, <1>b, <2>1 DEF HostsOK
<1> QED BY <1>1, <1>2

(***************************************************************************)
(* syncKillSwitchLocked on a table it may be called with: afterwards the   *)
(* block is on exactly if it should be (or about to be), and the accounts  *)
(* still add up.                                                           *)
(***************************************************************************)
LEMMA SyncKeeps ==
    ASSUME NEW t, NEW ks \in BOOLEAN, NEW owns \in BOOLEAN, NEW hosts \in SUBSET Host,
           SwitchOK(t, ksCleanup), ksApplied \subseteq Host, Sync(t, ks, owns, hosts)
    PROVE  /\ SwitchOK(table', ksCleanup') /\ ksApplied' \subseteq Host
           /\ reblock' \in BOOLEAN
           /\ reblock' => ks /\ ~ksCleanup'.set
           /\ ~ks \/ owns => ~ksCleanup'.set /\ ~reblock'
           /\ ks /\ ~owns /\ ~reblock' => table'.default = {}
           /\ DefaultsOK(t, ksCleanup) => DefaultsOK(table', ksCleanup')
           /\ \A B, S : HostsOK(t, ksCleanup, B, S) => HostsOK(table', ksCleanup', B, S)
<1>r. Release(t) =>
         /\ SwitchOK(table', ksCleanup') /\ ksApplied' \subseteq Host /\ ~ksCleanup'.set
         /\ DefaultsOK(t, ksCleanup) => DefaultsOK(table', ksCleanup')
         /\ \A B, S : HostsOK(t, ksCleanup, B, S) => HostsOK(table', ksCleanup', B, S)
  BY RunType, NoCleanupType, ReleaseAccounts DEF Release, SwitchOK
<1>b. Block(t, hosts) /\ ~ksCleanup.set =>
         /\ SwitchOK(table', ksCleanup') /\ ksApplied' \subseteq Host /\ table'.default = {}
         /\ DefaultsOK(t, ksCleanup) => DefaultsOK(table', ksCleanup')
         /\ \A B, S : HostsOK(t, ksCleanup, B, S) => HostsOK(table', ksCleanup', B, S)
  BY BlockType, BlockAccounts DEF Block, SwitchOK
<1>1. CASE ~ks \/ owns
  BY <1>1, <1>r DEF Sync
<1>2. CASE ks /\ ~owns /\ ksCleanup.set /\ ksApplied = hosts
  BY <1>2 DEF Sync, SwitchOK
<1>3. CASE ks /\ ~owns /\ ksCleanup.set /\ ksApplied # hosts
  BY <1>3, <1>r DEF Sync
<1>4. CASE ks /\ ~owns /\ ~ksCleanup.set
  BY <1>4, <1>b DEF Sync, Block
<1> QED BY <1>1, <1>2, <1>3, <1>4
-----------------------------------------------------------------------------
(***************************************************************************)
(* The inductive invariant.                                                *)
(***************************************************************************)
\* The block is on only where it should be, and off outside the program.
BlockWanted ==
    /\ SwitchOK(table, ksCleanup)
    /\ ksCleanup.set => killSwitch
    /\ killSwitch => up
    /\ reblock => killSwitch /\ ~ksCleanup.set
    /\ KillSwitchHolds

\* The cleanups of tunnel routes, and the calls of Start that hold them.
StartsWanted ==
    /\ TunOK(routeCleanup)
    /\ \A s \in Start : TunOK(made[s])
    /\ \A s \in Start : at[s] \notin {"apply", "adding"} => made[s] = NoCleanup
    /\ \A s \in Start : at[s] \in {"apply", "adding"} => made[s].set
    /\ \A s \in Start : at[s] # "over" => s <= last
    /\ phase = "idle" <=> profile = NoProfile
    /\ phase # "idle" => owner = last
    /\ ~up => phase = "idle" /\ \A s \in Start : at[s] = "over"

\* One Start at a time: it is the last one, and the stored cleanup is its own.
OneAtATime ==
    ~overlapped =>
        /\ \A s \in Start : at[s] # "over" => s = last /\ phase # "running"
        /\ routeCleanup.set => phase = "running" \/ (last \in Start /\ at[last] = "stored")

KInv == TypeOK /\ BlockWanted /\ StartsWanted /\ OneAtATime /\ NoOrphanRoutes

\* NoOrphanRoutes in the terms of the lemmas.
LEMMA HostsOKMeans ==
    ASSUME NEW t, NEW k, NEW c, NEW m
    PROVE  HostsOK(t, k, OwnedHosts(c, m), OwnedSplit(c, m)) <=>
             /\ \A f \in Family :
                   LET inHand == UNION {m[s].bypass[f] : s \in Start}
                   IN  /\ t.bypass[f] = k.bypass[f] \cup c.bypass[f] \cup inHand
                       /\ k.bypass[f] \cap (c.bypass[f] \cup inHand) = {}
             /\ t.split \subseteq c.split \cup UNION {m[s].split : s \in Start}
<1> DEFINE B == OwnedHosts(c, m)
<1>1. ASSUME NEW f \in Family
      PROVE  (t.bypass[f] = k.bypass[f] \cup B[f] /\ k.bypass[f] \cap B[f] = {})
             <=> LET inHand == UNION {m[s].bypass[f] : s \in Start}
                 IN  /\ t.bypass[f] = k.bypass[f] \cup c.bypass[f] \cup inHand
                     /\ k.bypass[f] \cap (c.bypass[f] \cup inHand) = {}
  <2> DEFINE H == UNION {m[s].bypass[f] : s \in Start}
  <2>1. B[f] = c.bypass[f] \cup H
    BY DEF OwnedHosts, HandHosts
  <2> HIDE DEF H, B
  <2>2. (t.bypass[f] = k.bypass[f] \cup B[f] /\ k.bypass[f] \cap B[f] = {})
           <=> (/\ t.bypass[f] = k.bypass[f] \cup c.bypass[f] \cup H
                /\ k.bypass[f] \cap (c.bypass[f] \cup H) = {})
    BY <2>1
  <2> QED BY <2>2 DEF H, B
<1>2. OwnedSplit(c, m) = c.split \cup UNION {m[s].split : s \in Start}
  BY DEF OwnedSplit, HandSplit
<1> QED BY <1>1, <1>2 DEF HostsOK

LEMMA OrphanAccounts ==
    NoOrphanRoutes <=>
        (up /\ restarts = 0 =>
            /\ DefaultsOK(table, ksCleanup)
            /\ ~overlapped => HostsOK(table, ksCleanup, OwnedHosts(routeCleanup, made),
                                      OwnedSplit(routeCleanup, made)))
  BY HostsOKMeans DEF NoOrphanRoutes, DefaultsOK

LEMMA OrphanAccountsNext ==
    NoOrphanRoutes' <=>
        (up' /\ restarts' = 0 =>
            /\ DefaultsOK(table', ksCleanup')
            /\ ~overlapped' => HostsOK(table', ksCleanup', OwnedHosts(routeCleanup', made'),
                                       OwnedSplit(routeCleanup', made')))
  BY HostsOKMeans DEF NoOrphanRoutes, DefaultsOK

LEMMA InitKInv == Init => KInv
<1> SUFFICES ASSUME Init PROVE KInv
  OBVIOUS
<1> USE DEF StartsInit
<1>1. TypeOK
  BY NoCleanupType, OriginalType DEF Init, StatusInit, TypeOK, StatusTypeOK, Stage
<1>2. BlockWanted
  BY NoCleanupType, OriginalType DEF Init, BlockWanted, SwitchOK, KillSwitchHolds
<1>3. StartsWanted /\ OneAtATime
  BY NoCleanupType DEF Init, StatusInit, StartsWanted, OneAtATime, TunOK
<1>4. NoOrphanRoutes
  <2>1. made \in [Start -> Cleanup] /\ \A s \in Start : made[s] = NoCleanup
    BY NoCleanupType DEF Init
  <2>2. /\ \A f \in Family : OwnedHosts(routeCleanup, made)[f] = {}
        /\ OwnedSplit(routeCleanup, made) = {}
    BY <2>1, HandOfNone, NoCleanupType DEF Init, OwnedHosts, OwnedSplit
  <2>3. HostsOK(table, ksCleanup, OwnedHosts(routeCleanup, made), OwnedSplit(routeCleanup, made))
    BY <2>2, NoCleanupType, OriginalType DEF Init, HostsOK
  <2>4. DefaultsOK(table, ksCleanup)
    BY NoCleanupType, OriginalType DEF Init, DefaultsOK
  <2> QED BY <2>3, <2>4, OrphanAccounts
<1> QED BY <1>1, <1>2, <1>3, <1>4 DEF KInv

(***************************************************************************)
(* Any handler that ends in syncKillSwitchLocked with the right arguments  *)
(* keeps the part of the invariant that is about the block.                *)
(***************************************************************************)
LEMMA SyncStep ==
    ASSUME KInv, NEW t, NEW hosts \in SUBSET Host,
           SwitchOK(t, ksCleanup), killSwitch' \in BOOLEAN,
           Sync(t, killSwitch', OwnsRouting(phase', profile'), hosts),
           up, UNCHANGED <<up, restarts>>,
           restarts = 0 =>
               /\ DefaultsOK(t, ksCleanup)
               /\ ~overlapped' => HostsOK(t, ksCleanup, OwnedHosts(routeCleanup', made'),
                                          OwnedSplit(routeCleanup', made'))
    PROVE  /\ BlockWanted' /\ NoOrphanRoutes'
           /\ table' \in Table /\ ksCleanup' \in Cleanup
           /\ ksApplied' \subseteq Host /\ reblock' \in BOOLEAN
<1>1. OwnsRouting(phase', profile') \in BOOLEAN /\ ksApplied \subseteq Host
  BY DEF OwnsRouting, KInv, TypeOK
<1>2. /\ SwitchOK(table', ksCleanup') /\ ksApplied' \subseteq Host
      /\ reblock' \in BOOLEAN
      /\ reblock' => killSwitch' /\ ~ksCleanup'.set
      /\ ~killSwitch' \/ OwnsRouting(phase', profile') => ~ksCleanup'.set /\ ~reblock'
      /\ killSwitch' /\ ~OwnsRouting(phase', profile') /\ ~reblock' => table'.default = {}
      /\ DefaultsOK(t, ksCleanup) => DefaultsOK(table', ksCleanup')
      /\ \A B, S : HostsOK(t, ksCleanup, B, S) => HostsOK(table', ksCleanup', B, S)
  BY <1>1, SyncKeeps
<1>3. BlockWanted'
  BY <1>2 DEF BlockWanted, KillSwitchHolds, Unlocked, OwnsRouting
<1>4. restarts' = 0 =>
         /\ DefaultsOK(table', ksCleanup')
         /\ ~overlapped' => HostsOK(table', ksCleanup', OwnedHosts(routeCleanup', made'),
                                    OwnedSplit(routeCleanup', made'))
  BY <1>2
<1>5. NoOrphanRoutes'
  BY <1>4, OrphanAccountsNext
<1> QED BY <1>2, <1>3, <1>5 DEF SwitchOK

\* A step that leaves table, cleanups and hands alone keeps the accounts.
LEMMA AccountsStay ==
    ASSUME KInv, UNCHANGED <<table, ksCleanup, routeCleanup, made, overlapped, up, restarts>>
    PROVE  NoOrphanRoutes'
  BY DEF KInv, NoOrphanRoutes

\* The accounts the handlers start from.
LEMMA AccountsNow ==
    ASSUME KInv, up
    PROVE  restarts = 0 =>
              /\ DefaultsOK(table, ksCleanup)
              /\ ~overlapped => HostsOK(table, ksCleanup, OwnedHosts(routeCleanup, made),
                                        OwnedSplit(routeCleanup, made))
  BY OrphanAccounts DEF KInv

LEMMA StartTunnelKeeps ==
    ASSUME KInv, NEW p \in Profile, StartTunnel(p)
    PROVE  KInv'
<1>1. /\ phase' = "connecting" /\ profile' = p /\ owner' = last + 1 /\ last' = last + 1
      /\ phase = "idle" /\ up /\ last \in Nat /\ last + 1 \in Start
  BY DEF StartTunnel, Connect, Unlocked, KInv, TypeOK, StatusTypeOK, Start
<1>2. ControlHosts(p) \in SUBSET Host /\ ~OwnsRouting(phase', profile')
  BY <1>1 DEF ControlHosts, OwnsRouting
<1>3. BlockWanted' /\ NoOrphanRoutes' /\ table' \in Table /\ ksCleanup' \in Cleanup
      /\ ksApplied' \subseteq Host /\ reblock' \in BOOLEAN
  <2>1. killSwitch' \in BOOLEAN /\ UNCHANGED <<up, restarts, killSwitch, routeCleanup, made>>
    BY DEF StartTunnel, appVars, KInv, TypeOK
  <2>2. Sync(table, killSwitch', OwnsRouting(phase', profile'), ControlHosts(p))
    BY <1>2, <2>1 DEF StartTunnel, OwnsRouting
  <2>3. SwitchOK(table, ksCleanup)
    BY DEF KInv, BlockWanted
  <2>4. ~overlapped' => ~overlapped
    BY DEF StartTunnel, KInv, TypeOK
  <2> QED BY <1>1, <1>2, <2>1, <2>2, <2>3, <2>4, AccountsNow, SyncStep
<1>4. /\ at' = [at EXCEPT ![last + 1] = "dialling"] /\ of' = [of EXCEPT ![last + 1] = p]
      /\ overlapped' = (overlapped \/ \E s \in Start : at[s] # "over")
      /\ UNCHANGED <<routeCleanup, made, bypass, todo, gateway, tun, up, closing, boot, unsaved,
                     settings, restarts, killSwitch>>
      /\ ksHosts' = ControlHosts(p) /\ lastProfile' = p
  BY DEF StartTunnel, appVars
<1>5. TypeOK'
  <2>1. StatusTypeOK'
    BY <1>1 DEF StatusTypeOK
  <2>2. at' \in [Start -> Stage] /\ of' \in [Start -> Profile \cup {NoProfile}]
        /\ overlapped' \in BOOLEAN
    BY <1>1, <1>4 DEF KInv, TypeOK, Stage
  <2> QED BY <1>2, <1>3, <1>4, <2>1, <2>2 DEF KInv, TypeOK
<1>6. StartsWanted'
  <2>1. \A s \in Start : at'[s] = IF s = last + 1 THEN "dialling" ELSE at[s]
    BY <1>4 DEF KInv, TypeOK
  <2>2. at[last + 1] = "over"
    BY <1>1 DEF KInv, StartsWanted
  <2>3. \A s \in Start : at'[s] # "over" => s <= last'
    BY <1>1, <2>1 DEF KInv, StartsWanted, Start
  <2>4. \A s \in Start : at'[s] \notin {"apply", "adding"} => made'[s] = NoCleanup
    BY <1>4, <2>1, <2>2 DEF KInv, StartsWanted
  <2>5. \A s \in Start : at'[s] \in {"apply", "adding"} => made'[s].set
    BY <1>4, <2>1 DEF KInv, StartsWanted
  <2> QED BY <1>1, <1>4, <2>3, <2>4, <2>5 DEF KInv, StartsWanted
<1>7. OneAtATime'
  <2> SUFFICES ASSUME ~overlapped'
               PROVE  /\ \A s \in Start : at'[s] # "over" => s = last' /\ phase' # "running"
                      /\ routeCleanup'.set => phase' = "running" \/ (last' \in Start /\ at'[last'] = "stored")
    BY DEF OneAtATime
  <2>1. ~overlapped /\ \A s \in Start : at[s] = "over"
    BY <1>4 DEF KInv, TypeOK
  <2>2. ~routeCleanup'.set
    BY <1>1, <1>4, <2>1 DEF KInv, OneAtATime
  <2>3. \A s \in Start : at'[s] # "over" => s = last'
    BY <1>1, <1>4, <2>1 DEF KInv, TypeOK
  <2> QED BY <1>1, <2>2, <2>3
<1> QED BY <1>3, <1>5, <1>6, <1>7 DEF KInv

(***************************************************************************)
(* A step of Start s that changes neither the routing table nor what is    *)
(* recorded: it moves from one stage short of the store to another.        *)
(***************************************************************************)
LEMMA StageKeeps ==
    ASSUME KInv, up, NEW s \in Start, NEW stage,
           \/ at[s] = "dialling" /\ stage = "checked"
           \/ at[s] \in {"apply", "adding"} /\ stage \in {"apply", "adding"},
           at' = [at EXCEPT ![s] = stage],
           UNCHANGED <<statusVars, table, switchVars, routeCleanup, of, made, overlapped, appVars>>,
           bypass' \in [Start -> SUBSET Host], todo' \in [Start -> SUBSET Family],
           gateway' \in [Start -> BOOLEAN], tun' \in BOOLEAN
    PROVE  KInv'
<1> USE DEF statusVars, switchVars, appVars
<1>1. \A r \in Start : at'[r] = IF r = s THEN stage ELSE at[r]
  BY DEF KInv, TypeOK
<1>2. TypeOK'
  <2>1. at' \in [Start -> Stage]
    BY DEF KInv, TypeOK, Stage
  <2> QED BY <2>1 DEF KInv, TypeOK, StatusTypeOK
<1>3. BlockWanted'
  BY DEF KInv, BlockWanted, SwitchOK, KillSwitchHolds, Unlocked
<1>4. StartsWanted'
  <2>1. \A r \in Start : at'[r] # "over" => r <= last'
    BY <1>1 DEF KInv, StartsWanted
  <2>2. \A r \in Start : at'[r] \notin {"apply", "adding"} => made'[r] = NoCleanup
    BY <1>1 DEF KInv, StartsWanted
  <2>3. \A r \in Start : at'[r] \in {"apply", "adding"} => made'[r].set
    BY <1>1 DEF KInv, StartsWanted
  <2> QED BY <2>1, <2>2, <2>3 DEF KInv, StartsWanted
<1>5. OneAtATime'
  BY <1>1 DEF KInv, OneAtATime
<1>6. NoOrphanRoutes'
  BY AccountsStay
<1> QED BY <1>2, <1>3, <1>4, <1>5, <1>6 DEF KInv

LEMMA DialKeeps ==
    ASSUME KInv, NEW s \in Start, NEW hosts \in SUBSET Host, Dial(s, hosts)
    PROVE  KInv'
<1>1. bypass' \in [Start -> SUBSET Host] /\ UNCHANGED <<todo, gateway, tun>>
  BY DEF Dial, KInv, TypeOK
<1> QED BY <1>1, StageKeeps DEF Dial, Unlocked, KInv, TypeOK

LEMMA FindGatewayKeeps ==
    ASSUME KInv, NEW s \in Start, FindGateway(s)
    PROVE  KInv'
<1>1. gateway' \in [Start -> BOOLEAN] /\ UNCHANGED <<todo, bypass, tun>>
  BY DEF FindGateway, KInv, TypeOK
<1> QED BY <1>1, StageKeeps DEF FindGateway, KInv, TypeOK

LEMMA AdapterGoneKeeps ==
    ASSUME KInv, NEW s \in Start, AdapterGone(s)
    PROVE  KInv'
<1>1. todo' \in [Start -> SUBSET Family] /\ UNCHANGED <<gateway, bypass, tun>>
  BY DEF AdapterGone, KInv, TypeOK
<1> QED BY <1>1, StageKeeps DEF AdapterGone, KInv, TypeOK

(***************************************************************************)
(* A step of Start s that changes what it has in hand.                     *)
(***************************************************************************)
LEMMA TunStartKeeps ==
    ASSUME KInv, NEW s \in Start, TunStart(s)
    PROVE  KInv'
<1> USE DEF statusVars, switchVars, appVars
<1> DEFINE c == [NoCleanup EXCEPT !.set = TRUE]
<1>1. c \in Cleanup /\ c.set /\ c.restore = {} /\ c.split = {} /\ \A f \in Family : c.bypass[f] = {}
  BY NoCleanupType DEF Cleanup
<1>2. /\ at' = [at EXCEPT ![s] = "apply"] /\ made' = [made EXCEPT ![s] = c]
      /\ tun' = TRUE /\ at[s] = "checked" /\ up
      /\ todo' = [todo EXCEPT ![s] = IF of[s] \in TunAll THEN TunFamilies(of[s]) ELSE {}]
      /\ UNCHANGED <<statusVars, table, switchVars, routeCleanup, of, bypass, gateway, overlapped, appVars>>
  BY DEF TunStart
<1> HIDE DEF c
<1>3. made[s] = NoCleanup
  BY <1>2 DEF KInv, StartsWanted
<1>4. /\ \A r \in Start : at'[r] = IF r = s THEN "apply" ELSE at[r]
      /\ \A r \in Start : made'[r] = IF r = s THEN c ELSE made[r]
  BY <1>2 DEF KInv, TypeOK
<1>5. TypeOK'
  <2>1. todo' \in [Start -> SUBSET Family]
    BY <1>2 DEF KInv, TypeOK, TunFamilies, Family
  <2>2. at' \in [Start -> Stage] /\ made' \in [Start -> Cleanup]
    BY <1>1, <1>2 DEF KInv, TypeOK, Stage
  <2> QED BY <1>2, <2>1, <2>2 DEF KInv, TypeOK, StatusTypeOK
<1>6. BlockWanted'
  BY <1>2 DEF KInv, BlockWanted, SwitchOK, KillSwitchHolds, Unlocked
<1>7. StartsWanted'
  <2>1. \A r \in Start : TunOK(made'[r])
    BY <1>1, <1>4 DEF KInv, StartsWanted, TunOK
  <2>2. \A r \in Start : at'[r] # "over" => r <= last'
    BY <1>2, <1>4 DEF KInv, StartsWanted
  <2>3. \A r \in Start : at'[r] \notin {"apply", "adding"} => made'[r] = NoCleanup
    BY <1>4 DEF KInv, StartsWanted
  <2>4. \A r \in Start : at'[r] \in {"apply", "adding"} => made'[r].set
    BY <1>1, <1>4 DEF KInv, StartsWanted
  <2> QED BY <1>2, <2>1, <2>2, <2>3, <2>4 DEF KInv, StartsWanted
<1>8. OneAtATime'
  BY <1>2, <1>4 DEF KInv, OneAtATime
<1>9. NoOrphanRoutes'
  <2>1. ASSUME NEW f \in Family PROVE HandHosts(made', f) = HandHosts(made, f)
    <3>1. \A r \in Start : made'[r].bypass[f] = made[r].bypass[f]
      BY <1>1, <1>3, <1>4, NoCleanupType
    <3> QED BY <3>1 DEF HandHosts
  <2>2. HandSplit(made') = HandSplit(made)
    <3>1. \A r \in Start : made'[r].split = made[r].split
      BY <1>1, <1>3, <1>4, NoCleanupType
    <3> QED BY <3>1 DEF HandSplit
  <2>3. OwnedHosts(routeCleanup', made') = OwnedHosts(routeCleanup, made)
        /\ OwnedSplit(routeCleanup', made') = OwnedSplit(routeCleanup, made)
    BY <1>2, <2>1, <2>2 DEF OwnedHosts, OwnedSplit
  <2>4. restarts' = 0 =>
           /\ DefaultsOK(table', ksCleanup')
           /\ ~overlapped' => HostsOK(table', ksCleanup', OwnedHosts(routeCleanup', made'),
                                      OwnedSplit(routeCleanup', made'))
    BY <1>2, <2>3, AccountsNow
  <2> QED BY <2>4, OrphanAccountsNext
<1> QED BY <1>5, <1>6, <1>7, <1>8, <1>9 DEF KInv

LEMMA AddRoutesKeeps ==
    ASSUME KInv, NEW s \in Start, AddRoutes(s)
    PROVE  KInv'
<1> USE DEF statusVars, switchVars, appVars
<1>t. table \in Table /\ bypass[s] \in SUBSET Host /\ made[s] \in Cleanup
  BY DEF KInv, TypeOK
<1>p. PICK f \in Family, hosts \in SUBSET Host, split \in SUBSET Family :
         /\ hosts \cap table.bypass[f] = {}
         /\ table' = ApplyTable(table, f, hosts, split)
         /\ made' = [made EXCEPT ![s] = ApplyCleanup(made[s], f, hosts, split)]
         /\ todo' = [todo EXCEPT ![s] = todo[s] \ {f}]
  <2> DEFINE f == NextFamily(s)
             hosts == TunBypass(table, of[s], bypass[s], f, gateway[s])
             split == IF tun THEN {f} ELSE {}
  <2>1. f \in Family /\ split \in SUBSET Family
    BY DEF NextFamily, Family
  <2>2. hosts \in SUBSET Host /\ hosts \cap table.bypass[f] = {}
    <3> HIDE DEF f
    <3> QED BY <2>1, <1>t, BypassType
  <2>3. /\ table' = ApplyTable(table, f, hosts, split)
        /\ made' = [made EXCEPT ![s] = ApplyCleanup(made[s], f, hosts, split)]
        /\ todo' = [todo EXCEPT ![s] = todo[s] \ {f}]
    BY DEF AddRoutes
  <2> HIDE DEF f, hosts, split
  <2> QED BY <2>1, <2>2, <2>3
<1>1. /\ at' = [at EXCEPT ![s] = "apply"] /\ at[s] = "adding" /\ up
      /\ UNCHANGED <<statusVars, switchVars, routeCleanup, of, bypass, gateway, tun, overlapped, appVars>>
  BY DEF AddRoutes
<1>h. hosts \cap table.bypass[f] = {}
  BY <1>p
<1> DEFINE c == ApplyCleanup(made[s], f, hosts, split)
<1>c. made' = [made EXCEPT ![s] = c]
  BY <1>p
<1>2. /\ table' \in Table /\ c \in Cleanup
      /\ table'.default = table.default
      /\ table'.split = table.split \cup split
      /\ c.split = made[s].split \cup split
      /\ c.set = made[s].set /\ c.restore = made[s].restore
      /\ \A g \in Family :
            /\ table'.bypass[g] = table.bypass[g] \cup New(g, f, hosts)
            /\ c.bypass[g] = made[s].bypass[g] \cup New(g, f, hosts)
  <2>1. /\ table' \in Table /\ table'.default = table.default
        /\ table'.split = table.split \cup split
        /\ \A g \in Family : table'.bypass[g] = table.bypass[g] \cup New(g, f, hosts)
    BY <1>t, <1>p DEF ApplyTable, New, Table
  <2>2. /\ c \in Cleanup /\ c.split = made[s].split \cup split
        /\ c.set = made[s].set /\ c.restore = made[s].restore
        /\ \A g \in Family : c.bypass[g] = made[s].bypass[g] \cup New(g, f, hosts)
    BY <1>t DEF ApplyCleanup, New, Cleanup
  <2> QED BY <2>1, <2>2
<1> HIDE DEF c
<1>3. /\ \A r \in Start : at'[r] = IF r = s THEN "apply" ELSE at[r]
      /\ \A r \in Start : made'[r] = IF r = s THEN c ELSE made[r]
  BY <1>1, <1>c DEF KInv, TypeOK
<1>o. restarts = 0 =>
         /\ DefaultsOK(table, ksCleanup)
         /\ ~overlapped => HostsOK(table, ksCleanup, OwnedHosts(routeCleanup, made),
                                   OwnedSplit(routeCleanup, made))
  BY <1>1, AccountsNow
<1>4. NoOrphanRoutes'
  <2>1. DefaultsOK(table, ksCleanup) => DefaultsOK(table', ksCleanup')
    BY <1>1, <1>2 DEF DefaultsOK
  <2>2. ASSUME ~overlapped', restarts = 0
        PROVE  HostsOK(table', ksCleanup', OwnedHosts(routeCleanup', made'), OwnedSplit(routeCleanup', made'))
    <3>1. \A r \in Start : r # s => made[r] = NoCleanup
      BY <2>2, <1>1 DEF KInv, StartsWanted, OneAtATime
    <3>2. made \in [Start -> Cleanup] /\ made' \in [Start -> Cleanup]
      BY <1>c, <1>2 DEF KInv, TypeOK
    <3>3. /\ \A g \in Family : HandHosts(made, g) = made[s].bypass[g]
          /\ HandSplit(made) = made[s].split
      BY <3>1, <3>2, HandOfOne
    <3>4. /\ \A g \in Family : HandHosts(made', g) = c.bypass[g]
          /\ HandSplit(made') = c.split
      <4>1. \A r \in Start : r # s => made'[r] = NoCleanup
        BY <3>1, <1>3
      <4>2. made'[s] = c
        BY <1>3
      <4> QED BY <3>2, <4>1, <4>2, HandOfOne
    <3>5. HostsOK(table, ksCleanup, OwnedHosts(routeCleanup, made), OwnedSplit(routeCleanup, made))
      BY <1>o, <1>1, <2>2
    <3>6. ASSUME NEW g \in Family
          PROVE  /\ table'.bypass[g] = ksCleanup'.bypass[g] \cup OwnedHosts(routeCleanup', made')[g]
                 /\ ksCleanup'.bypass[g] \cap OwnedHosts(routeCleanup', made')[g] = {}
      <4> DEFINE N == New(g, f, hosts)
      <4>1. OwnedHosts(routeCleanup, made)[g] = routeCleanup.bypass[g] \cup made[s].bypass[g]
        BY <3>3 DEF OwnedHosts
      <4>2. OwnedHosts(routeCleanup', made')[g] = routeCleanup.bypass[g] \cup made[s].bypass[g] \cup N
        BY <3>4, <1>1, <1>2 DEF OwnedHosts
      <4>3. table'.bypass[g] = table.bypass[g] \cup N /\ N \cap table.bypass[g] = {}
        <5>1. CASE g = f
          BY <5>1, <1>2, <1>h DEF New
        <5>2. CASE g # f
          BY <5>2, <1>2 DEF New
        <5> QED BY <5>1, <5>2
      <4>4. /\ table.bypass[g] = ksCleanup.bypass[g] \cup OwnedHosts(routeCleanup, made)[g]
            /\ ksCleanup.bypass[g] \cap OwnedHosts(routeCleanup, made)[g] = {}
        BY <3>5 DEF HostsOK
      <4> HIDE DEF N
      <4> QED BY <4>1, <4>2, <4>3, <4>4, <1>1
    <3>7. table'.split \subseteq OwnedSplit(routeCleanup', made')
      BY <3>3, <3>4, <3>5, <1>1, <1>2 DEF HostsOK, OwnedSplit
    <3> QED BY <3>6, <3>7 DEF HostsOK
  <2>3. restarts' = 0 =>
           /\ DefaultsOK(table', ksCleanup')
           /\ ~overlapped' => HostsOK(table', ksCleanup', OwnedHosts(routeCleanup', made'),
                                      OwnedSplit(routeCleanup', made'))
    BY <1>1, <1>o, <2>1, <2>2
  <2> QED BY <2>3, OrphanAccountsNext
<1>5. TypeOK'
  <2>1. at' \in [Start -> Stage] /\ made' \in [Start -> Cleanup] /\ todo' \in [Start -> SUBSET Family]
    BY <1>1, <1>2, <1>c, <1>p DEF KInv, TypeOK, Stage
  <2> QED BY <1>1, <1>2, <2>1 DEF KInv, TypeOK, StatusTypeOK
<1>6. BlockWanted'
  BY <1>1, <1>2 DEF KInv, BlockWanted, SwitchOK, KillSwitchHolds, Unlocked
<1>7. StartsWanted'
  <2>1. \A r \in Start : TunOK(made'[r])
    <3>1. made[s].set /\ made[s].restore = {}
      BY <1>1 DEF KInv, StartsWanted, TunOK
    <3> QED BY <3>1, <1>2, <1>3 DEF KInv, StartsWanted, TunOK
  <2>2. \A r \in Start : at'[r] # "over" => r <= last'
    BY <1>1, <1>3 DEF KInv, StartsWanted
  <2>3. \A r \in Start : at'[r] \notin {"apply", "adding"} => made'[r] = NoCleanup
    BY <1>3 DEF KInv, StartsWanted
  <2>4. \A r \in Start : at'[r] \in {"apply", "adding"} => made'[r].set
    BY <1>1, <1>2, <1>3 DEF KInv, StartsWanted
  <2> QED BY <1>1, <2>1, <2>2, <2>3, <2>4 DEF KInv, StartsWanted
<1>8. OneAtATime'
  BY <1>1, <1>3 DEF KInv, OneAtATime
<1> QED BY <1>4, <1>5, <1>6, <1>7, <1>8 DEF KInv

\* Nobody else holds tunnel routes while a stored cleanup does.
LEMMA StoredMeansFreeHands ==
    ASSUME KInv, ~overlapped, routeCleanup.set
    PROVE  \A s \in Start : made[s] = NoCleanup
  BY DEF KInv, StartsWanted, OneAtATime

LEMMA StoreCleanupKeeps ==
    ASSUME KInv, NEW s \in Start, StoreCleanup(s)
    PROVE  KInv'
<1> USE DEF statusVars, switchVars, appVars
<1>1. /\ at[s] = "apply" /\ up /\ routeCleanup' = made[s]
      /\ made' = [made EXCEPT ![s] = NoCleanup] /\ at' = [at EXCEPT ![s] = "stored"]
      /\ UNCHANGED <<statusVars, table, switchVars, of, bypass, todo, gateway, tun, overlapped, appVars>>
  BY DEF StoreCleanup, Unlocked
<1>2. /\ \A r \in Start : at'[r] = IF r = s THEN "stored" ELSE at[r]
      /\ \A r \in Start : made'[r] = IF r = s THEN NoCleanup ELSE made[r]
  BY <1>1 DEF KInv, TypeOK
<1>3. TypeOK'
  <2>1. at' \in [Start -> Stage] /\ made' \in [Start -> Cleanup] /\ routeCleanup' \in Cleanup
    BY <1>1, NoCleanupType DEF KInv, TypeOK, Stage
  <2> QED BY <1>1, <2>1 DEF KInv, TypeOK, StatusTypeOK
<1>4. BlockWanted'
  BY <1>1 DEF KInv, BlockWanted, SwitchOK, KillSwitchHolds, Unlocked
<1>5. StartsWanted'
  <2>1. TunOK(NoCleanup)
    BY NoCleanupType DEF TunOK
  <2>2. TunOK(routeCleanup') /\ \A r \in Start : TunOK(made'[r])
    BY <1>1, <1>2, <2>1 DEF KInv, StartsWanted
  <2>3. \A r \in Start : at'[r] # "over" => r <= last'
    BY <1>1, <1>2 DEF KInv, StartsWanted
  <2>4. \A r \in Start : at'[r] \notin {"apply", "adding"} => made'[r] = NoCleanup
    BY <1>2 DEF KInv, StartsWanted
  <2>5. \A r \in Start : at'[r] \in {"apply", "adding"} => made'[r].set
    BY <1>2 DEF KInv, StartsWanted
  <2> QED BY <1>1, <2>2, <2>3, <2>4, <2>5 DEF KInv, StartsWanted
<1>6. OneAtATime'
  BY <1>1, <1>2 DEF KInv, OneAtATime
<1>7. NoOrphanRoutes'
  <2>o. restarts = 0 =>
           /\ DefaultsOK(table, ksCleanup)
           /\ ~overlapped => HostsOK(table, ksCleanup, OwnedHosts(routeCleanup, made),
                                     OwnedSplit(routeCleanup, made))
    BY <1>1, AccountsNow
  <2>1. ASSUME ~overlapped
        PROVE  /\ OwnedHosts(routeCleanup', made') = OwnedHosts(routeCleanup, made)
               /\ OwnedSplit(routeCleanup', made') = OwnedSplit(routeCleanup, made)
    <3>1. \A r \in Start : r # s => made[r] = NoCleanup
      BY <2>1, <1>1 DEF KInv, StartsWanted, OneAtATime
    <3>2. routeCleanup = NoCleanup
      BY <2>1, <1>1 DEF KInv, StartsWanted, OneAtATime, TunOK
    <3>3. made \in [Start -> Cleanup] /\ made' \in [Start -> Cleanup]
      BY <1>1, NoCleanupType DEF KInv, TypeOK
    <3>4. /\ \A g \in Family : HandHosts(made, g) = made[s].bypass[g]
          /\ HandSplit(made) = made[s].split
      BY <3>1, <3>3, HandOfOne
    <3>5. /\ \A g \in Family : HandHosts(made', g) = {}
          /\ HandSplit(made') = {}
      <4>1. \A r \in Start : made'[r] = NoCleanup
        BY <3>1, <1>2
      <4> QED BY <3>3, <4>1, HandOfNone
    <3>6. \A g \in Family : routeCleanup'.bypass[g] \cup HandHosts(made', g)
                              = routeCleanup.bypass[g] \cup HandHosts(made, g)
      BY <3>2, <3>4, <3>5, <1>1, NoCleanupType
    <3>7. OwnedHosts(routeCleanup', made') = OwnedHosts(routeCleanup, made)
      BY <3>6 DEF OwnedHosts
    <3>8. OwnedSplit(routeCleanup', made') = OwnedSplit(routeCleanup, made)
      BY <3>2, <3>4, <3>5, <1>1, NoCleanupType DEF OwnedSplit
    <3> QED BY <3>7, <3>8
  <2>2. restarts' = 0 =>
           /\ DefaultsOK(table', ksCleanup')
           /\ ~overlapped' => HostsOK(table', ksCleanup', OwnedHosts(routeCleanup', made'),
                                      OwnedSplit(routeCleanup', made'))
    BY <1>1, <2>o, <2>1
  <2> QED BY <2>2, OrphanAccountsNext
<1> QED BY <1>3, <1>4, <1>5, <1>6, <1>7 DEF KInv

LEMMA TunnelUpKeeps ==
    ASSUME KInv, NEW s \in Start, TunnelUp(s)
    PROVE  KInv'
<1>1. /\ phase' = "running" /\ phase = "connecting" /\ UNCHANGED <<profile, owner, last>>
      /\ up /\ profile \in Profile /\ s = last /\ at[s] \in {"stored", "checked"}
  BY DEF TunnelUp, Established, Unlocked, Ready, Current, KInv, StartsWanted, TypeOK, StatusTypeOK
<1>2. bypass[s] \in SUBSET Host
  BY DEF KInv, TypeOK
<1>3. /\ at' = [at EXCEPT ![s] = "over"] /\ ksHosts' = bypass[s]
      /\ UNCHANGED <<killSwitch, lastProfile, routeCleanup, of, bypass, todo, gateway, made, tun,
                     overlapped, up, closing, boot, unsaved, settings, restarts>>
  BY DEF TunnelUp, appVars
<1>4. BlockWanted' /\ NoOrphanRoutes' /\ table' \in Table /\ ksCleanup' \in Cleanup
      /\ ksApplied' \subseteq Host /\ reblock' \in BOOLEAN
  <2>1. killSwitch' \in BOOLEAN
    BY <1>3 DEF KInv, TypeOK
  <2>2. Sync(table, killSwitch', OwnsRouting(phase', profile'), bypass[s])
    BY <1>1, <1>3 DEF TunnelUp
  <2>3. SwitchOK(table, ksCleanup)
    BY DEF KInv, BlockWanted
  <2> QED BY <1>1, <1>2, <1>3, <2>1, <2>2, <2>3, AccountsNow, SyncStep
<1>5. \A r \in Start : at'[r] = IF r = s THEN "over" ELSE at[r]
  BY <1>3 DEF KInv, TypeOK
<1>6. StartsWanted'
  <2>1. \A r \in Start : at'[r] # "over" => r <= last'
    BY <1>1, <1>5 DEF KInv, StartsWanted
  <2>2. \A r \in Start : at'[r] \notin {"apply", "adding"} => made'[r] = NoCleanup
    BY <1>1, <1>3, <1>5 DEF KInv, StartsWanted
  <2>3. \A r \in Start : at'[r] \in {"apply", "adding"} => made'[r].set
    BY <1>3, <1>5 DEF KInv, StartsWanted
  <2> QED BY <1>1, <1>3, <2>1, <2>2, <2>3 DEF KInv, StartsWanted
<1>7. OneAtATime'
  BY <1>1, <1>3, <1>5 DEF KInv, OneAtATime
<1>8. TypeOK'
  <2>1. at' \in [Start -> Stage]
    BY <1>3 DEF KInv, TypeOK, Stage
  <2> QED BY <1>1, <1>2, <1>3, <1>4, <2>1 DEF KInv, TypeOK, StatusTypeOK
<1> QED BY <1>4, <1>6, <1>7, <1>8 DEF KInv

(***************************************************************************)
(* The routing part of stopLocked, for its callers: some of them are a     *)
(* Start that gives up, which has nothing in hand.                         *)
(***************************************************************************)
LEMMA StopRoutesKeeps ==
    ASSUME KInv, StopRoutes, up, UNCHANGED <<up, restarts>>,
           closing' \in BOOLEAN /\ UNCHANGED <<boot, unsaved, settings>>,
           UNCHANGED <<of, bypass, todo, gateway, made, overlapped>>,
           \/ UNCHANGED at
           \/ \E s \in Start : /\ at[s] \notin {"apply", "adding"}
                               /\ at' = [at EXCEPT ![s] = "over"]
    PROVE  KInv'
<1> DEFINE t == [Run(table, routeCleanup) EXCEPT !.split = {}]
<1>1. phase' = "idle" /\ profile' = NoProfile /\ owner' \in Nat /\ last' = last
  BY DEF StopRoutes, TornDown, statusVars, KInv, TypeOK, StatusTypeOK, StartsWanted
<1>r. table \in Table /\ routeCleanup \in Cleanup /\ routeCleanup.restore = {}
  BY DEF KInv, TypeOK, StartsWanted, TunOK
<1>2. /\ t \in Table /\ t.default = table.default /\ t.split = {}
      /\ \A f \in Family : t.bypass[f] = table.bypass[f] \ routeCleanup.bypass[f]
  <2>1. /\ Run(table, routeCleanup) \in Table
        /\ Run(table, routeCleanup).default = table.default \cup routeCleanup.restore
        /\ \A f \in Family : Run(table, routeCleanup).bypass[f] = table.bypass[f] \ routeCleanup.bypass[f]
    BY <1>r, RunType
  <2> QED BY <1>r, <2>1 DEF Table
<1>s. /\ routeCleanup' = NoCleanup /\ tun' = FALSE
      /\ Sync(t, killSwitch, FALSE, ksHosts)
      /\ UNCHANGED <<killSwitch, ksHosts, lastProfile>>
  BY DEF StopRoutes
<1> HIDE DEF t
<1>3. SwitchOK(t, ksCleanup)
  BY <1>2 DEF KInv, BlockWanted, SwitchOK
<1>4. restarts = 0 =>
         /\ DefaultsOK(t, ksCleanup)
         /\ ~overlapped' => HostsOK(t, ksCleanup, OwnedHosts(routeCleanup', made'),
                                    OwnedSplit(routeCleanup', made'))
  <2>1. DefaultsOK(table, ksCleanup) => DefaultsOK(t, ksCleanup)
    BY <1>2 DEF DefaultsOK
  <2>2. ASSUME ~overlapped, HostsOK(table, ksCleanup, OwnedHosts(routeCleanup, made),
                                    OwnedSplit(routeCleanup, made))
        PROVE  HostsOK(t, ksCleanup, OwnedHosts(routeCleanup', made'), OwnedSplit(routeCleanup', made'))
    <3>1. ASSUME NEW f \in Family
          PROVE  /\ t.bypass[f] = ksCleanup.bypass[f] \cup OwnedHosts(routeCleanup', made')[f]
                 /\ ksCleanup.bypass[f] \cap OwnedHosts(routeCleanup', made')[f] = {}
      <4>1. OwnedHosts(routeCleanup, made)[f] = routeCleanup.bypass[f] \cup HandHosts(made, f)
        BY DEF OwnedHosts
      <4>2. OwnedHosts(routeCleanup', made')[f] = HandHosts(made, f)
        BY <1>s, NoCleanupType DEF OwnedHosts
      <4>3. routeCleanup.bypass[f] \cap HandHosts(made, f) = {}
        <5>1. CASE routeCleanup.set
          <6>1. made \in [Start -> Cleanup]
            BY DEF KInv, TypeOK
          <6> QED BY <5>1, <6>1, <2>2, StoredMeansFreeHands, HandOfNone
        <5>2. CASE ~routeCleanup.set
          BY <5>2, NoCleanupType DEF KInv, StartsWanted, TunOK
        <5> QED BY <5>1, <5>2
      <4>4. /\ table.bypass[f] = ksCleanup.bypass[f] \cup OwnedHosts(routeCleanup, made)[f]
            /\ ksCleanup.bypass[f] \cap OwnedHosts(routeCleanup, made)[f] = {}
        BY <2>2 DEF HostsOK
      <4>5. t.bypass[f] = table.bypass[f] \ routeCleanup.bypass[f]
        BY <1>2
      <4> QED BY <4>1, <4>2, <4>3, <4>4, <4>5
    <3> QED BY <3>1, <1>2 DEF HostsOK
  <2> QED BY <2>1, <2>2, AccountsNow
<1>5. BlockWanted' /\ NoOrphanRoutes' /\ table' \in Table /\ ksCleanup' \in Cleanup
      /\ ksApplied' \subseteq Host /\ reblock' \in BOOLEAN
  <2>1. killSwitch' \in BOOLEAN /\ ksHosts \in SUBSET Host
    BY <1>s DEF KInv, TypeOK
  <2>2. Sync(t, killSwitch', OwnsRouting(phase', profile'), ksHosts)
    BY <1>1, <1>s DEF OwnsRouting
  <2> QED BY <1>3, <1>4, <2>1, <2>2, SyncStep
<1>6. /\ at' \in [Start -> Stage]
      /\ \A r \in Start : \/ at'[r] = at[r]
                          \/ at'[r] = "over" /\ at[r] \notin {"apply", "adding"}
  <2>1. at \in [Start -> Stage] /\ "over" \in Stage
    BY DEF KInv, TypeOK, Stage
  <2>2. CASE UNCHANGED at
    BY <2>1, <2>2
  <2>3. ASSUME NEW s \in Start, at[s] \notin {"apply", "adding"}, at' = [at EXCEPT ![s] = "over"]
        PROVE  /\ at' \in [Start -> Stage]
               /\ \A r \in Start : \/ at'[r] = at[r]
                                   \/ at'[r] = "over" /\ at[r] \notin {"apply", "adding"}
    BY <2>1, <2>3
  <2> QED BY <2>2, <2>3
<1>7. StartsWanted'
  <2>1. TunOK(routeCleanup')
    BY <1>s, NoCleanupType DEF TunOK
  <2>2. \A r \in Start : at'[r] # "over" => r <= last'
    BY <1>1, <1>6 DEF KInv, StartsWanted
  <2>3. \A r \in Start : at'[r] \notin {"apply", "adding"} => made'[r] = NoCleanup
    BY <1>6 DEF KInv, StartsWanted
  <2>4. \A r \in Start : at'[r] \in {"apply", "adding"} => made'[r].set
    BY <1>6 DEF KInv, StartsWanted
  <2> QED BY <1>1, <2>1, <2>2, <2>3, <2>4 DEF KInv, StartsWanted
<1>8. OneAtATime'
  <2>1. ~routeCleanup'.set
    BY <1>s, NoCleanupType
  <2> QED BY <1>1, <1>6, <2>1 DEF KInv, OneAtATime
<1>9. TypeOK'
  BY <1>1, <1>5, <1>6, <1>s, NoCleanupType DEF KInv, TypeOK, StatusTypeOK
<1> QED BY <1>5, <1>7, <1>8, <1>9 DEF KInv

LEMMA ReblockKeeps ==
    ASSUME KInv, Reblock
    PROVE  KInv'
<1> USE DEF statusVars, appVars, startVars
<1>1. ksCleanup = NoCleanup /\ up /\ killSwitch /\ SwitchOK(table, NoCleanup) /\ ksHosts \in SUBSET Host
  BY DEF Reblock, KInv, TypeOK, BlockWanted, SwitchOK
<1>2. /\ table' \in Table /\ ksCleanup' \in Cleanup /\ table'.default = {}
      /\ ksCleanup'.set /\ ksCleanup'.split = {}
  BY <1>1, BlockType DEF Reblock, Block, SwitchOK
<1>3. BlockWanted'
  BY <1>1, <1>2 DEF Reblock, Block, BlockWanted, SwitchOK, KillSwitchHolds
<1>4. StartsWanted' /\ OneAtATime'
  BY DEF Reblock, KInv, StartsWanted, OneAtATime
<1>5. NoOrphanRoutes'
  <2>1. table' = BlockTable(table, ksHosts) /\ ksCleanup' = BlockCleanup(table, ksHosts)
        /\ UNCHANGED <<routeCleanup, made, overlapped, restarts>>
    BY DEF Reblock, Block
  <2>2. restarts' = 0 =>
           /\ DefaultsOK(table', ksCleanup')
           /\ ~overlapped' => HostsOK(table', ksCleanup', OwnedHosts(routeCleanup', made'),
                                      OwnedSplit(routeCleanup', made'))
    BY <1>1, <2>1, AccountsNow, BlockAccounts
  <2> QED BY <2>2, OrphanAccountsNext
<1>6. TypeOK'
  BY <1>1, <1>2 DEF Reblock, Block, KInv, TypeOK, StatusTypeOK
<1> QED BY <1>3, <1>4, <1>5, <1>6 DEF KInv

LEMMA SetKillSwitchKeeps ==
    ASSUME KInv, NEW on \in BOOLEAN, NEW p \in Profile \cup {NoProfile}, SetKillSwitch(on, p),
           up, UNCHANGED <<up, closing, settings, restarts>>,
           boot' \in BOOLEAN, unsaved' \in BOOLEAN
    PROVE  KInv'
<1> DEFINE remembered == IF p # NoProfile THEN p ELSE lastProfile
           hosts == IF on /\ remembered # NoProfile THEN ControlHosts(remembered) ELSE ksHosts
<1>1. remembered \in Profile \cup {NoProfile}
  BY DEF KInv, TypeOK
<1>2. hosts \in SUBSET Host
  BY <1>1 DEF ControlHosts, KInv, TypeOK
<1>3. /\ killSwitch' = on /\ ksHosts' = hosts
      /\ lastProfile' = IF on THEN remembered ELSE lastProfile
      /\ Sync(table, on, OwnsRouting(phase, profile), hosts)
      /\ UNCHANGED <<phase, profile, owner, last, routeCleanup, at, of, bypass, todo, gateway, made,
                     tun, overlapped>>
  BY DEF SetKillSwitch, statusVars, startVars
<1> HIDE DEF remembered, hosts
<1>4. BlockWanted' /\ NoOrphanRoutes' /\ table' \in Table /\ ksCleanup' \in Cleanup
      /\ ksApplied' \subseteq Host /\ reblock' \in BOOLEAN
  <2>1. SwitchOK(table, ksCleanup)
    BY DEF KInv, BlockWanted
  <2>2. Sync(table, killSwitch', OwnsRouting(phase', profile'), hosts)
    BY <1>3
  <2> QED BY <1>2, <1>3, <2>1, <2>2, AccountsNow, SyncStep
<1>5. StartsWanted' /\ OneAtATime'
  BY <1>3 DEF KInv, StartsWanted, OneAtATime
<1>6. TypeOK'
  BY <1>1, <1>2, <1>3, <1>4 DEF KInv, TypeOK, StatusTypeOK
<1> QED BY <1>4, <1>5, <1>6 DEF KInv

\* The program ends, or the machine is rebooted.
LEMMA ForgetKeeps ==
    ASSUME KInv, Forget, table' \in Table
    PROVE  KInv'
<1>1. ksCleanup' = NoCleanup /\ routeCleanup' = NoCleanup
  BY DEF Forget
<1>2. BlockWanted'
  BY <1>1, NoCleanupType DEF Forget, BlockWanted, SwitchOK, KillSwitchHolds, Unlocked
<1>3. StartsWanted' /\ OneAtATime'
  BY <1>1, NoCleanupType DEF Forget, StartsWanted, OneAtATime, TunOK
<1>4. NoOrphanRoutes'
  BY DEF Forget, NoOrphanRoutes
<1>5. TypeOK'
  <2>1. StatusTypeOK'
    BY DEF Forget, KInv, TypeOK, StatusTypeOK
  <2>2. /\ killSwitch' \in BOOLEAN /\ reblock' \in BOOLEAN /\ tun' \in BOOLEAN /\ overlapped' \in BOOLEAN
        /\ up' \in BOOLEAN /\ closing' \in BOOLEAN /\ boot' \in BOOLEAN /\ unsaved' \in BOOLEAN
    BY DEF Forget
  <2>3. /\ at' \in [Start -> Stage] /\ of' \in [Start -> Profile \cup {NoProfile}]
        /\ bypass' \in [Start -> SUBSET Host] /\ todo' \in [Start -> SUBSET Family]
        /\ gateway' \in [Start -> BOOLEAN] /\ made' \in [Start -> Cleanup]
    BY NoCleanupType DEF Forget, Stage
  <2>4. /\ ksHosts' \subseteq Host /\ ksApplied' \subseteq Host
        /\ lastProfile' \in Profile \cup {NoProfile}
        /\ settings' \in BOOLEAN /\ restarts' \in Nat
    BY DEF Forget, KInv, TypeOK
  <2> QED BY <1>1, <2>1, <2>2, <2>3, <2>4, NoCleanupType DEF TypeOK
<1> QED BY <1>2, <1>3, <1>4, <1>5 DEF KInv

LEMMA NextKInv == KInv /\ [Next]_vars => KInv'
<1> SUFFICES ASSUME KInv, [Next]_vars PROVE KInv'
  OBVIOUS
<1> USE DEF statusVars, switchVars, appVars, startVars
<1>t. /\ table \in Table /\ killSwitch \in BOOLEAN /\ closing \in BOOLEAN /\ boot \in BOOLEAN
      /\ unsaved \in BOOLEAN /\ settings \in BOOLEAN /\ restarts \in Nat
  BY DEF KInv, TypeOK
<1>1. ASSUME NEW p \in Profile, StartTunnel(p) PROVE KInv'
  BY <1>1, StartTunnelKeeps
<1>2. CASE StopTunnel
  BY <1>2, <1>t, StopRoutesKeeps DEF StopTunnel, Unlocked
<1>3. CASE Close
  <2>1. closing' \in BOOLEAN
    BY <1>3 DEF Close
  <2> QED BY <1>3, <2>1, StopRoutesKeeps DEF Close, Unlocked
<1>4. ASSUME NEW on \in BOOLEAN, NEW p \in Profile \cup {NoProfile}, Toggle(on, p) PROVE KInv'
  <2>1. unsaved' \in BOOLEAN /\ boot' \in BOOLEAN
    BY <1>4, <1>t DEF Toggle
  <2> QED BY <1>4, <2>1, SetKillSwitchKeeps DEF Toggle, Unlocked
<1>5. ASSUME NEW p \in Profile \cup {NoProfile}, BootKillSwitch(p) PROVE KInv'
  <2>1. unsaved' \in BOOLEAN /\ boot' \in BOOLEAN
    BY <1>5, <1>t DEF BootKillSwitch
  <2> QED BY <1>5, <2>1, SetKillSwitchKeeps DEF BootKillSwitch, Unlocked
<1>6. CASE SaveSettings
  <2>1. settings' \in BOOLEAN /\ unsaved' \in BOOLEAN
    BY <1>6, <1>t DEF SaveSettings
  <2>2. BlockWanted' /\ StartsWanted' /\ OneAtATime' /\ NoOrphanRoutes'
    BY <1>6 DEF SaveSettings, KInv, BlockWanted, StartsWanted, OneAtATime, NoOrphanRoutes,
                KillSwitchHolds, Unlocked
  <2> QED BY <1>6, <2>1, <2>2 DEF SaveSettings, KInv, TypeOK, StatusTypeOK
<1>7. CASE Quit \/ Crash
  <2>1. table' \in Table
    BY <1>7, <1>t DEF Quit, Crash, Table
  <2> QED BY <1>7, <2>1, ForgetKeeps DEF Quit, Crash
<1>8. CASE Reboot
  <2>1. ~ksCleanup.set
    BY <1>8 DEF Reboot, KInv, BlockWanted
  <2>2. BlockWanted'
    BY <1>8, <2>1, OriginalType DEF Reboot, KInv, BlockWanted, SwitchOK, KillSwitchHolds, Unlocked
  <2>3. StartsWanted' /\ OneAtATime' /\ NoOrphanRoutes'
    BY <1>8 DEF Reboot, KInv, StartsWanted, OneAtATime, NoOrphanRoutes
  <2> QED BY <1>8, <2>2, <2>3, OriginalType DEF Reboot, KInv, TypeOK, StatusTypeOK
<1>9. CASE Restart
  <2>1. ~ksCleanup.set /\ ~reblock /\ phase = "idle" /\ \A s \in Start : at[s] = "over"
    BY <1>9 DEF Restart, KInv, BlockWanted, StartsWanted
  <2>2. restarts' # 0 /\ restarts' \in Nat
    BY <1>9, <1>t DEF Restart
  <2>3. up' \in BOOLEAN /\ boot' \in BOOLEAN
    BY <1>9, <1>t DEF Restart, Reapply
  <2>4. TypeOK'
    BY <1>9, <2>2, <2>3 DEF Restart, KInv, TypeOK, StatusTypeOK
  <2>5. NoOrphanRoutes'
    BY <2>2 DEF NoOrphanRoutes
  <2>6. StartsWanted' /\ OneAtATime'
    BY <1>9, <2>1 DEF Restart, KInv, StartsWanted, OneAtATime
  <2>7. BlockWanted'
    BY <1>9, <2>1 DEF Restart, KInv, BlockWanted, KillSwitchHolds, Unlocked
  <2> QED BY <2>4, <2>5, <2>6, <2>7 DEF KInv
<1>10. CASE UNCHANGED vars
  BY <1>10 DEF vars, KInv, TypeOK, StatusTypeOK, BlockWanted, StartsWanted, OneAtATime,
               NoOrphanRoutes, KillSwitchHolds, Unlocked
<1>11. ASSUME NEW s \in Start, StartGivesUp(s) PROVE KInv'
  <2>1. at[s] \notin {"apply", "adding"} /\ at' = [at EXCEPT ![s] = "over"]
    BY <1>11 DEF StartGivesUp, Ready
  <2> QED BY <1>11, <1>t, <2>1, StopRoutesKeeps DEF StartGivesUp, Unlocked
<1>12. ASSUME NEW s \in Start, NEW hosts \in SUBSET Host, Dial(s, hosts) PROVE KInv'
  BY <1>12, DialKeeps
<1>13. ASSUME NEW s \in Start,
              TunStart(s) \/ FindGateway(s) \/ AddRoutes(s) \/ AdapterGone(s)
                  \/ StoreCleanup(s) \/ TunnelUp(s)
       PROVE  KInv'
  BY <1>13, TunStartKeeps, FindGatewayKeeps, AddRoutesKeeps, AdapterGoneKeeps,
     StoreCleanupKeeps, TunnelUpKeeps
<1> QED BY <1>1, <1>2, <1>3, <1>4, <1>5, <1>6, <1>7, <1>8, <1>9, <1>10, <1>11, <1>12, <1>13,
           ReblockKeeps DEF Next

LEMMA SwitchInvariance == Spec => []KInv
  BY InitKInv, NextKInv, PTL DEF Spec

\* The engine's, the table's and the program's state keep their types.
THEOREM SwitchTypeCorrect == Spec => []TypeOK
<1>1. KInv => TypeOK
  BY DEF KInv
<1> QED BY SwitchInvariance, <1>1, PTL

(***************************************************************************)
(* With the switch on and no full-device tunnel running there is no        *)
(* default route, whatever handler ran last and whatever came before.      *)
(***************************************************************************)
THEOREM KillSwitchAlwaysHolds == Spec => []KillSwitchHolds
<1>1. KInv => KillSwitchHolds
  BY DEF KInv, BlockWanted
<1> QED BY SwitchInvariance, <1>1, PTL

(***************************************************************************)
(* In its first run the program can undo what it did to the routing table: *)
(* each default route it deleted is recorded, and with one Start at a time *)
(* so is each route it added, by the block, by the stored cleanup or by    *)
(* the Start that applied it and has yet to store its cleanup, wherever a  *)
(* Stop or a toggle comes in between.                                      *)
(***************************************************************************)
THEOREM NoRouteIsOrphaned == Spec => []NoOrphanRoutes
<1>1. KInv => NoOrphanRoutes
  BY DEF KInv
<1> QED BY SwitchInvariance, <1>1, PTL

(***************************************************************************)
(* ... and does so: with the switch off, no tunnel and every Start         *)
(* returned, the routing is what it was before BlockInternet and Apply,    *)
(* unless calls of Start overlapped.                                       *)
(***************************************************************************)
THEOREM OffRestoresRouting == Spec => []RestoredWhenOff
<1>1. KInv => RestoredWhenOff
  <2> SUFFICES ASSUME KInv, Unlocked, restarts = 0, ~overlapped, ~killSwitch, phase = "idle",
                      \A s \in Start : at[s] = "over"
               PROVE  table = Original
    BY DEF RestoredWhenOff
  <2>1. ksCleanup = NoCleanup
    BY DEF KInv, BlockWanted, SwitchOK
  <2>2. routeCleanup = NoCleanup
    BY DEF KInv, StartsWanted, OneAtATime, TunOK
  <2>3. made \in [Start -> Cleanup] /\ \A s \in Start : made[s] = NoCleanup
    BY DEF KInv, TypeOK, StartsWanted
  <2>4. /\ \A f \in Family : OwnedHosts(routeCleanup, made)[f] = {}
        /\ OwnedSplit(routeCleanup, made) = {}
    BY <2>2, <2>3, HandOfNone, NoCleanupType DEF OwnedHosts, OwnedSplit
  <2>5. /\ DefaultsOK(table, NoCleanup) /\ table \in Table
        /\ HostsOK(table, NoCleanup, OwnedHosts(routeCleanup, made), OwnedSplit(routeCleanup, made))
    BY <2>1, AccountsNow DEF Unlocked, KInv, TypeOK
  <2>6. table.default = Uplink /\ table.split = {} /\ \A f \in Family : table.bypass[f] = {}
    BY <2>4, <2>5, NoCleanupType DEF DefaultsOK, HostsOK
  <2> QED BY <2>5, <2>6, TableEquality
<1> QED BY SwitchInvariance, <1>1, PTL
=============================================================================
