---------------------------- MODULE TunnelStatus ----------------------------
(***************************************************************************)
(* What the engine promises to the rest of the program about the tunnel:   *)
(* there is at most one tunnel, it belongs to one call of Manager.Start    *)
(* (its owner), and it goes from connecting to running only as the tunnel  *)
(* of that same call.  Owners are numbered in the order of the calls.      *)
(*                                                                         *)
(* Manager.tla implements this module; KillSwitch.tla is built on it.      *)
(***************************************************************************)
EXTENDS Naturals

CONSTANTS Profile,   \* the profiles Start may be called with
          NoProfile  \* the empty ProfileID of an idle status

VARIABLES phase,     \* "idle", "connecting" or "running"
          profile,   \* the profile of the tunnel
          owner,     \* the call of Start the tunnel belongs to, 0 when idle
          last       \* how many calls of Start have owned a tunnel so far

statusVars == <<phase, profile, owner, last>>

StatusTypeOK ==
    /\ phase \in {"idle", "connecting", "running"}
    /\ profile \in Profile \cup {NoProfile}
    /\ owner \in Nat
    /\ last \in Nat

StatusInit ==
    /\ phase = "idle"
    /\ profile = NoProfile
    /\ owner = 0
    /\ last = 0

\* Start passed its "already running or connecting" check.
Connect(p) ==
    /\ phase = "idle"
    /\ phase' = "connecting"
    /\ profile' = p
    /\ owner' = last + 1
    /\ last' = last + 1

\* The same Start reports the tunnel as running.
Established ==
    /\ phase = "connecting"
    /\ phase' = "running"
    /\ UNCHANGED <<profile, owner, last>>

\* The tunnel is torn down, whoever asked for it.
TornDown ==
    /\ phase # "idle"
    /\ phase' = "idle"
    /\ profile' = NoProfile
    /\ owner' = 0
    /\ UNCHANGED last

StatusNext == (\E p \in Profile : Connect(p)) \/ Established \/ TornDown

StatusSpec == StatusInit /\ [][StatusNext]_statusVars
=============================================================================
