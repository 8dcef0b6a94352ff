----------------------------- MODULE KillSwitch -----------------------------
(***************************************************************************)
(* The kill switch and the TUN routes: SetKillSwitch and                   *)
(* syncKillSwitchLocked of internal/engine/manager.go, BlockInternet,      *)
(* Apply and Cleanup.Run of internal/routes, and the part of the UI that   *)
(* toggles, saves and re-applies the switch.  The tunnel's own life cycle  *)
(* is the one of TunnelStatus, which Manager.tla implements.               *)
(*                                                                         *)
(* The routing table keeps, per address family, whether the physical       *)
(* default route is there, the host routes over the physical gateway and   *)
(* the two half-space routes into the TUN adapter (one item, "split").  A  *)
(* route command does what it says: adding an existing route or deleting a *)
(* missing one fails and changes nothing.  Administrator rights are        *)
(* assumed, as the README asks.  OpenVPN's own routes are not shown.       *)
(***************************************************************************)
EXTENDS TunnelStatus

CONSTANTS
    Host,          \* VPN servers, fronts, proxies and resolvers
    Uplink,        \* families the machine has a default route for
    AddrOf,        \* the families host h has an address in
    NeedsDNS,      \* host names that need a network to be resolved
    Server,        \* the hosts a tunnel of profile p really goes to
    Control,       \* the hosts profile p names (SSH, TLS, proxies, resolver, Xray)
    Dialled,       \* the lists of hosts a connection of p may end up using
    OpenVPN,       \* profiles of mode openvpn
    TunOn,         \* profiles with Tun.Enabled
    TunAll,        \* ... and Tun.RouteAll
    IPv6Enabled,   \* profiles with Tun.IPv6Enabled
    AllowIPv6Leak, \* profiles with Tun.AllowIPv6Leak
    MaxConnects,   \* bound: calls of Start
    MaxRestarts,   \* bound: times the program ends and is started again
    MayCrash       \* the program may also end without its close handler

Family == {"v4", "v6"}

ASSUME KillSwitchAssumption ==
    /\ NoProfile \notin Profile
    /\ Uplink \subseteq Family
    /\ AddrOf \in [Host -> SUBSET Family]
    /\ NeedsDNS \subseteq Host
    /\ Server \in [Profile -> SUBSET Host]
    /\ Control \in [Profile -> SUBSET Host]
    /\ Dialled \in [Profile -> SUBSET SUBSET Host]
    /\ TunAll \subseteq TunOn /\ OpenVPN \cap TunOn = {}
    /\ MaxConnects \in Nat /\ MaxRestarts \in Nat /\ MayCrash \in BOOLEAN

VARIABLES
    table,         \* the machine's routing table
    killSwitch,    \* m.killSwitch
    ksCleanup,     \* m.killSwitchCleanup
    ksHosts,       \* m.killSwitchHosts
    ksApplied,     \* m.killSwitchAppliedHosts
    lastProfile,   \* m.lastProfile
    routeCleanup,  \* m.routeCleanup
    reblock,       \* syncKillSwitchLocked is between Run and BlockInternet
    at,            \* how far each call of Start is
    of,            \* the profile it was called with
    bypass,        \* its list of hosts to keep outside the TUN
    todo,          \* families routes.Apply has yet to set up
    gateway,       \* Apply has found the gateway of the family it is at
    made,          \* the cleanup Apply records, until it is stored
    tun,           \* the TUN adapter is there (Runner.active)
    overlapped,    \* Start was called while an earlier call had not returned
    up,            \* the program is running
    closing,       \* the window's close handler has called Stop
    boot,          \* startup still has to re-apply the kill switch
    unsaved,       \* the toggled state is not in settings.json yet
    settings,      \* KillSwitch in configs/settings.json
    restarts       \* how often the program was started again

startVars == <<at, of, bypass, todo, gateway, made, tun, overlapped>>
switchVars == <<killSwitch, ksCleanup, ksHosts, ksApplied, lastProfile, reblock>>
appVars == <<up, closing, boot, unsaved, settings, restarts>>
vars == <<statusVars, table, switchVars, routeCleanup, startVars, appVars>>

Start == 1..MaxConnects
Stage == {"over", "dialling", "checked", "apply", "adding", "stored"}

NoHosts == [f \in Family |-> {}]
NoCleanup == [set |-> FALSE, restore |-> {}, bypass |-> NoHosts, split |-> {}]
Original == [default |-> Uplink, bypass |-> NoHosts, split |-> {}]

Cleanup == [set : BOOLEAN, restore : SUBSET Family,
            bypass : [Family -> SUBSET Host], split : SUBSET Family]
Table == [default : SUBSET Family, bypass : [Family -> SUBSET Host], split : SUBSET Family]

TypeOK ==
    /\ StatusTypeOK
    /\ table \in Table
    /\ killSwitch \in BOOLEAN
    /\ ksCleanup \in Cleanup
    /\ ksHosts \subseteq Host
    /\ ksApplied \subseteq Host
    /\ lastProfile \in Profile \cup {NoProfile}
    /\ routeCleanup \in Cleanup
    /\ reblock \in BOOLEAN
    /\ at \in [Start -> Stage]
    /\ of \in [Start -> Profile \cup {NoProfile}]
    /\ bypass \in [Start -> SUBSET Host]
    /\ todo \in [Start -> SUBSET Family] /\ gateway \in [Start -> BOOLEAN]
    /\ made \in [Start -> Cleanup]
    /\ tun \in BOOLEAN /\ overlapped \in BOOLEAN
    /\ up \in BOOLEAN /\ closing \in BOOLEAN /\ boot \in BOOLEAN
    /\ unsaved \in BOOLEAN /\ settings \in BOOLEAN
    /\ restarts \in Nat

StartsInit ==
    /\ at = [s \in Start |-> "over"]
    /\ of = [s \in Start |-> NoProfile]
    /\ bypass = [s \in Start |-> {}]
    /\ todo = [s \in Start |-> {}] /\ gateway = [s \in Start |-> FALSE]
    /\ made = [s \in Start |-> NoCleanup]
    /\ tun = FALSE /\ overlapped = FALSE

Init ==
    /\ StatusInit
    /\ table = Original
    /\ killSwitch = FALSE
    /\ ksCleanup = NoCleanup
    /\ ksHosts = {}
    /\ ksApplied = {}
    /\ lastProfile = NoProfile
    /\ routeCleanup = NoCleanup
    /\ reblock = FALSE
    /\ StartsInit
    /\ up = TRUE
    /\ closing = FALSE /\ boot = FALSE /\ unsaved = FALSE /\ settings = FALSE
    /\ restarts = 0
-----------------------------------------------------------------------------
(***************************************************************************)
(* internal/routes.                                                        *)
(***************************************************************************)
\* Cleanup.Run undoes the recorded commands.
Run(t, c) ==
    [default |-> t.default \cup c.restore,
     bypass |-> [f \in Family |-> t.bypass[f] \ c.bypass[f]],
     split |-> t.split \ c.split]

\* resolveIPv4 and resolveIPv6 after the default route of f is gone.
Resolved(hosts, f) == {h \in hosts \ NeedsDNS : f \in AddrOf[h]}

BlockTable_IPv4Only(t, hosts) ==
    [t EXCEPT !.default = t.default \ {"v4"},
              !.bypass = [f \in Family |->
                  IF f \in t.default THEN t.bypass[f] \cup Resolved(hosts, f) ELSE t.bypass[f]]]

\* BlockInternet, family by family; without a gateway it does nothing.
BlockTable(t, hosts) ==
    [t EXCEPT !.default = {},
              !.bypass = [f \in Family |->
                  IF f \in t.default THEN t.bypass[f] \cup Resolved(hosts, f) ELSE t.bypass[f]]]

\* Only commands that succeeded are recorded for the way back.
BlockCleanup(t, hosts) ==
    [set |-> TRUE,
     restore |-> t.default,
     bypass |-> [f \in Family |->
         IF f \in t.default THEN Resolved(hosts, f) \ t.bypass[f] ELSE {}],
     split |-> {}]

(***************************************************************************)
(* Apply's share of family f: the host routes, over the gateway if one was *)
(* found and, for IPv6, only if the TUN carries IPv6, and then the two     *)
(* half-space routes, which need the adapter.                              *)
(***************************************************************************)
TunFamilies(p) ==
    IF p \in IPv6Enabled \/ p \notin AllowIPv6Leak THEN {"v4", "v6"} ELSE {"v4"}

TunBypass(t, p, hosts, f, found) ==
    IF found /\ (f = "v6" => p \in IPv6Enabled)
    THEN {h \in hosts : f \in AddrOf[h]
                         /\ (h \in NeedsDNS => f \in t.default \/ t.split # {})} \ t.bypass[f]
    ELSE {}

ApplyTable(t, f, hosts, split) ==
    [t EXCEPT !.bypass[f] = t.bypass[f] \cup hosts, !.split = t.split \cup split]

ApplyCleanup(c, f, hosts, split) ==
    [c EXCEPT !.bypass[f] = c.bypass[f] \cup hosts, !.split = c.split \cup split]
-----------------------------------------------------------------------------
(***************************************************************************)
(* syncKillSwitchLocked, after the caller has set the switch, the hosts    *)
(* and the status to ks, hosts and owns (a full-device tunnel is running), *)
(* and has left the routing table as t.                                    *)
(***************************************************************************)
OwnsRouting(ph, p) == ph = "running" /\ (p \in OpenVPN \/ p \in TunAll)

Block(t, hosts) ==
    /\ table' = BlockTable(t, hosts)
    /\ ksCleanup' = BlockCleanup(t, hosts)
    /\ ksApplied' = hosts
    /\ reblock' = FALSE

Release(t) ==
    /\ table' = IF ksCleanup.set THEN Run(t, ksCleanup) ELSE t
    /\ ksCleanup' = NoCleanup
    /\ UNCHANGED ksApplied

Sync(t, ks, owns, hosts) ==
    \/ /\ ~ks \/ owns
       /\ Release(t)
       /\ reblock' = FALSE
    \/ /\ ks /\ ~owns /\ ksCleanup.set /\ ksApplied = hosts
       /\ table' = t
       /\ reblock' = FALSE
       /\ UNCHANGED <<ksCleanup, ksApplied>>
    \/ /\ ks /\ ~owns /\ ksCleanup.set /\ ksApplied # hosts
       /\ Release(t)
       /\ reblock' = TRUE
    \/ /\ ks /\ ~owns /\ ~ksCleanup.set
       /\ Block(t, hosts)

\* ... and the block with the new hosts, still under the Manager's lock.
Reblock ==
    /\ reblock
    /\ Block(table, ksHosts)
    /\ UNCHANGED <<statusVars, killSwitch, ksHosts, lastProfile, routeCleanup,
                   startVars, appVars>>

Unlocked == up /\ ~reblock

\* profileControlHosts: every host the profile names, used or not.
ControlHosts(p) == Control[p]

(***************************************************************************)
(* The hosts of the connection Start made: effectiveBypassHosts, the Xray  *)
(* servers, or none in OpenVPN mode.                                       *)
(***************************************************************************)
BypassHosts(p) == IF p \in OpenVPN THEN {{}} ELSE Dialled[p]

StartTunnel(p) ==
    /\ Unlocked /\ ~closing
    /\ last < MaxConnects
    /\ Connect(p)
    /\ lastProfile' = p
    /\ ksHosts' = ControlHosts(p)
    /\ Sync(table, killSwitch, FALSE, ControlHosts(p))
    /\ at' = [at EXCEPT ![last + 1] = "dialling"]
    /\ of' = [of EXCEPT ![last + 1] = p]
    /\ overlapped' = (overlapped \/ \E s \in Start : at[s] # "over")
    /\ UNCHANGED <<killSwitch, routeCleanup, bypass, todo, gateway, made, tun, appVars>>

\* ensureCurrent: no stop has cancelled this call of Start.
Current(s) == owner = s /\ phase = "connecting"

\* The connection is made and ensureCurrent still passes.
Dial(s, hosts) ==
    /\ Unlocked
    /\ at[s] = "dialling" /\ Current(s)
    /\ hosts \in BypassHosts(of[s])
    /\ at' = [at EXCEPT ![s] = "checked"]
    /\ bypass' = [bypass EXCEPT ![s] = hosts]
    /\ UNCHANGED <<statusVars, table, switchVars, routeCleanup, of, todo, gateway, made, tun,
                   overlapped, appVars>>

\* tun.Start, which does not look at the context again.
TunStart(s) ==
    /\ up
    /\ at[s] = "checked" /\ of[s] \in TunOn
    /\ ~tun
    /\ tun' = TRUE
    /\ at' = [at EXCEPT ![s] = "apply"]
    /\ todo' = [todo EXCEPT ![s] = IF of[s] \in TunAll THEN TunFamilies(of[s]) ELSE {}]
    /\ made' = [made EXCEPT ![s] = [NoCleanup EXCEPT !.set = TRUE]]
    /\ UNCHANGED <<statusVars, table, switchVars, routeCleanup, of, bypass, gateway,
                   overlapped, appVars>>

\* The family Apply is at: IPv4 comes first.
NextFamily(s) == IF "v4" \in todo[s] THEN "v4" ELSE "v6"

\* routes.Apply runs without the lock: it looks for the gateway of a family ...
FindGateway(s) ==
    /\ up
    /\ at[s] = "apply" /\ todo[s] # {}
    /\ gateway' = [gateway EXCEPT ![s] = NextFamily(s) \in table.default]
    /\ at' = [at EXCEPT ![s] = "adding"]
    /\ UNCHANGED <<statusVars, table, switchVars, routeCleanup, of, bypass, todo, made, tun,
                   overlapped, appVars>>

\* ... and adds its routes; without the adapter only those to the hosts.
AddRoutes(s) ==
    LET f == NextFamily(s)
        hosts == TunBypass(table, of[s], bypass[s], f, gateway[s])
        split == IF tun THEN {f} ELSE {}
    IN  /\ up
        /\ at[s] = "adding"
        /\ table' = ApplyTable(table, f, hosts, split)
        /\ made' = [made EXCEPT ![s] = ApplyCleanup(made[s], f, hosts, split)]
        /\ todo' = [todo EXCEPT ![s] = todo[s] \ {f}]
        /\ at' = [at EXCEPT ![s] = "apply"]
        /\ UNCHANGED <<statusVars, switchVars, routeCleanup, of, bypass, gateway, tun,
                       overlapped, appVars>>

\* On Windows Apply first waits for the adapter, and gives up without it.
AdapterGone(s) ==
    /\ up /\ ~tun
    /\ at[s] = "adding" /\ NextFamily(s) = "v4"
    /\ todo' = [todo EXCEPT ![s] = {}]
    /\ at' = [at EXCEPT ![s] = "apply"]
    /\ UNCHANGED <<statusVars, table, switchVars, routeCleanup, of, bypass, gateway, made, tun,
                   overlapped, appVars>>

StoreCleanup_IfCurrent(s) ==
    /\ Unlocked
    /\ at[s] = "apply" /\ todo[s] = {}
    /\ routeCleanup' = IF Current(s) THEN made[s] ELSE routeCleanup
    /\ made' = [made EXCEPT ![s] = NoCleanup]
    /\ at' = [at EXCEPT ![s] = "stored"]
    /\ UNCHANGED <<statusVars, table, switchVars, of, bypass, todo, gateway, tun, overlapped,
                   appVars>>

\* Start stores what Apply returned, whoever may own the tunnel by now.
StoreCleanup(s) ==
    /\ Unlocked
    /\ at[s] = "apply" /\ todo[s] = {}
    /\ routeCleanup' = made[s]
    /\ made' = [made EXCEPT ![s] = NoCleanup]
    /\ at' = [at EXCEPT ![s] = "stored"]
    /\ UNCHANGED <<statusVars, table, switchVars, of, bypass, todo, gateway, tun, overlapped,
                   appVars>>

Ready(s) == at[s] = IF of[s] \in TunOn THEN "stored" ELSE "checked"

\* The last check of Start, under the lock: the tunnel is reported as running.
TunnelUp(s) ==
    /\ Unlocked
    /\ Ready(s) /\ Current(s)
    /\ Established
    /\ ksHosts' = bypass[s]
    /\ Sync(table, killSwitch, OwnsRouting("running", profile), bypass[s])
    /\ at' = [at EXCEPT ![s] = "over"]
    /\ UNCHANGED <<killSwitch, lastProfile, routeCleanup, of, bypass, todo, gateway, made, tun,
                   overlapped, appVars>>

StopRoutes_KeepsRoutes ==
    /\ \/ TornDown
       \/ phase = "idle" /\ UNCHANGED statusVars
    /\ tun' = FALSE
    /\ Sync([table EXCEPT !.split = {}], killSwitch, FALSE, ksHosts)
    /\ UNCHANGED <<routeCleanup, killSwitch, ksHosts, lastProfile>>

(***************************************************************************)
(* The routing part of stopLocked; it also runs when nothing is connected. *)
(* tun.Stop closes the adapter, and the routes into it go with it.         *)
(***************************************************************************)
StopRoutes ==
    /\ \/ TornDown
       \/ phase = "idle" /\ UNCHANGED statusVars
    /\ routeCleanup' = NoCleanup
    /\ tun' = FALSE
    /\ Sync([Run(table, routeCleanup) EXCEPT !.split = {}], killSwitch, FALSE, ksHosts)
    /\ UNCHANGED <<killSwitch, ksHosts, lastProfile>>

StopTunnel ==
    /\ Unlocked /\ ~closing
    /\ StopRoutes
    /\ UNCHANGED <<at, of, bypass, todo, gateway, made, overlapped, appVars>>

(***************************************************************************)
(* Start gives up: the connection or the adapter failed, or a check found  *)
(* that it is not current.  Its m.stop(false) stops whatever tunnel there  *)
(* is, its own or a newer one.                                             *)
(***************************************************************************)
StartGivesUp(s) ==
    /\ Unlocked
    /\ \/ at[s] = "dialling"
       \/ at[s] = "checked" /\ of[s] \in TunOn
       \/ Ready(s) /\ ~Current(s)
    /\ StopRoutes
    /\ at' = [at EXCEPT ![s] = "over"]
    /\ UNCHANGED <<of, bypass, todo, gateway, made, overlapped, appVars>>

\* SetKillSwitch with the profile in the form, which may not have an ID yet.
SetKillSwitch(on, p) ==
    LET remembered == IF p # NoProfile THEN p ELSE lastProfile
        hosts == IF on /\ remembered # NoProfile THEN ControlHosts(remembered) ELSE ksHosts
    IN  /\ killSwitch' = on
        /\ lastProfile' = IF on THEN remembered ELSE lastProfile
        /\ ksHosts' = hosts
        /\ Sync(table, on, OwnsRouting(phase, profile), hosts)
        /\ UNCHANGED <<statusVars, routeCleanup, startVars>>
-----------------------------------------------------------------------------
(***************************************************************************)
(* The UI: the toggle, its persistence, closing and starting the program.  *)
(***************************************************************************)
\* The first click comes after the startup goroutine has had the lock.
Toggle(on, p) ==
    /\ Unlocked /\ ~closing /\ ~boot /\ ~unsaved
    /\ on # killSwitch
    /\ SetKillSwitch(on, p)
    /\ unsaved' = TRUE
    /\ UNCHANGED <<up, closing, boot, settings, restarts>>

SaveSettings ==
    /\ up /\ unsaved
    /\ settings' = killSwitch
    /\ unsaved' = FALSE
    /\ UNCHANGED <<statusVars, table, switchVars, routeCleanup, startVars,
                   up, closing, boot, restarts>>

\* The close handler calls Engine.Stop and lets the window go.
Close ==
    /\ Unlocked /\ ~closing
    /\ restarts < MaxRestarts
    /\ StopRoutes
    /\ closing' = TRUE
    /\ UNCHANGED <<at, of, bypass, todo, gateway, made, overlapped,
                   up, boot, unsaved, settings, restarts>>

\* The process is gone and with it everything it had in memory.
Forget ==
    /\ phase' = "idle" /\ profile' = NoProfile /\ owner' = 0 /\ last' = last
    /\ killSwitch' = FALSE /\ ksCleanup' = NoCleanup
    /\ ksHosts' = {} /\ ksApplied' = {} /\ lastProfile' = NoProfile
    /\ routeCleanup' = NoCleanup /\ reblock' = FALSE
    /\ at' = [s \in Start |-> "over"] /\ of' = [s \in Start |-> NoProfile]
    /\ bypass' = [s \in Start |-> {}]
    /\ todo' = [s \in Start |-> {}] /\ gateway' = [s \in Start |-> FALSE]
    /\ made' = [s \in Start |-> NoCleanup]
    /\ tun' = FALSE /\ overlapped' = FALSE
    /\ up' = FALSE /\ closing' = FALSE /\ boot' = FALSE /\ unsaved' = FALSE
    /\ UNCHANGED <<settings, restarts>>

\* A Start still under way is lost with the process, and the adapter with it.
Quit ==
    /\ Unlocked /\ closing
    /\ Forget
    /\ table' = [table EXCEPT !.split = {}]

\* The program dies; the TUN adapter and the routes into it die with it.
Crash ==
    /\ up /\ MayCrash
    /\ restarts < MaxRestarts
    /\ Forget
    /\ table' = [table EXCEPT !.split = {}]

\* Meanwhile the machine may be rebooted, which restores its routing.
Reboot ==
    /\ ~up
    /\ table' = Original
    /\ UNCHANGED <<statusVars, switchVars, routeCleanup, startVars, appVars>>

\* Run asks the loaded settings whether to re-apply the block.
Reapply == settings

Restart ==
    /\ ~up
    /\ up' = TRUE
    /\ boot' = Reapply
    /\ restarts' = restarts + 1
    /\ UNCHANGED <<statusVars, table, switchVars, routeCleanup, startVars,
                   closing, unsaved, settings>>

\* Startup re-applies the saved kill switch from a goroutine.
BootKillSwitch(p) ==
    /\ Unlocked /\ boot
    /\ SetKillSwitch(TRUE, p)
    /\ boot' = FALSE
    /\ UNCHANGED <<up, closing, unsaved, settings, restarts>>

Next ==
    \/ \E p \in Profile : StartTunnel(p)
    \/ \E s \in Start :
          \/ \E hosts \in SUBSET Host : Dial(s, hosts)
          \/ TunStart(s) \/ FindGateway(s) \/ AddRoutes(s) \/ AdapterGone(s)
          \/ StoreCleanup(s) \/ TunnelUp(s) \/ StartGivesUp(s)
    \/ StopTunnel \/ Reblock
    \/ \E on \in BOOLEAN, p \in Profile \cup {NoProfile} : Toggle(on, p)
    \/ \E p \in Profile \cup {NoProfile} : BootKillSwitch(p)
    \/ SaveSettings \/ Close \/ Quit \/ Crash \/ Reboot \/ Restart

Spec == Init /\ [][Next]_vars
-----------------------------------------------------------------------------
(***************************************************************************)
(* While the switch is on and no full-device tunnel is up, the machine has *)
(* no default route, whichever handler ran last (the moment of a re-block  *)
(* under the lock apart).                                                  *)
(***************************************************************************)
KillSwitchHolds ==
    Unlocked /\ killSwitch /\ ~OwnsRouting(phase, profile) => table.default = {}

(***************************************************************************)
(* Until the program is restarted, every default route it deleted and,     *)
(* with one Start at a time, every route it added has one owner: the       *)
(* cleanup of the block, the stored cleanup, or the one that a Start still *)
(* under way will store and run.  A Stop that comes between routes.Apply   *)
(* and the store leaves nothing behind.                                    *)
(***************************************************************************)
NoOrphanRoutes ==
    up /\ restarts = 0 =>
        /\ table.default \cup ksCleanup.restore = Uplink
        /\ table.default \cap ksCleanup.restore = {}
        /\ ~overlapped => \A f \in Family :
              LET inHand == UNION {made[s].bypass[f] : s \in Start}
              IN  /\ table.bypass[f] = ksCleanup.bypass[f] \cup routeCleanup.bypass[f] \cup inHand
                  /\ ksCleanup.bypass[f] \cap (routeCleanup.bypass[f] \cup inHand) = {}
        /\ ~overlapped => table.split \subseteq
              routeCleanup.split \cup UNION {made[s].split : s \in Start}

(***************************************************************************)
(* BlockInternet: "The returned Cleanup restores the original routing".    *)
(* Disconnected with the switch off and every Start returned, the machine  *)
(* is as it was found, if no two calls of Start overlapped.                *)
(***************************************************************************)
RestoredWhenOff ==
    /\ Unlocked /\ restarts = 0 /\ ~overlapped
    /\ ~killSwitch /\ phase = "idle" /\ \A s \in Start : at[s] = "over"
    => table = Original

\* The same when calls of Start may overlap: the later store forgets the earlier.
RestoredAfterOverlap ==
    /\ Unlocked /\ restarts = 0
    /\ ~killSwitch /\ phase = "idle" /\ \A s \in Start : at[s] = "over"
    => table = Original

(***************************************************************************)
(* What settings.json says is what the engine does, once a toggle has been *)
(* saved and startup is over.                                              *)
(***************************************************************************)
SettingsMatchEngine ==
    up /\ ~boot /\ ~unsaved => settings = killSwitch

\* README: "Connecting: the block stays active."
BlockStaysWhileConnecting ==
    up /\ killSwitch /\ phase = "connecting" => table.default = {}

(***************************************************************************)
(* README: "Disconnected: default routes (IPv4 and IPv6) are removed; only *)
(* the VPN servers of the profile stay reachable so the tunnel can         *)
(* reconnect."                                                             *)
(***************************************************************************)
ServersStayReachable ==
    Unlocked /\ killSwitch /\ phase = "idle" /\ lastProfile # NoProfile /\ restarts = 0 =>
        \A h \in Server[lastProfile] : \E f \in Uplink : h \in table.bypass[f]

(***************************************************************************)
(* routes.go: "Bypass routes must stay on the original physical gateway so *)
(* the SSH/Xray/DNSTT control connection never loops back into the TUN     *)
(* default route."                                                         *)
(***************************************************************************)
ControlNeverLoops ==
    Unlocked /\ phase = "running" /\ profile \in TunAll =>
        \A h \in Server[profile], f \in table.split :
            f \in AddrOf[h] => h \in table.bypass[f]

(***************************************************************************)
(* The same promise at the moment the user switches the block off, also in *)
(* a program that was closed with the switch on and started again.         *)
(***************************************************************************)
SwitchingOffRestores ==
    [][killSwitch /\ ~killSwitch' /\ up' /\ phase' = "idle" => table' = Original]_vars
=============================================================================
