---------------------------- MODULE MCKillSwitch ----------------------------
(***************************************************************************)
(* Values for the constants of KillSwitch: an SSH profile without TUN, one *)
(* with TUN RouteAll, and an OpenVPN profile.  A connection uses one host  *)
(* of the two an SSH profile names, or both.                               *)
(***************************************************************************)
EXTENDS KillSwitch

BothFamilies == [h \in Host |-> IF h = "dual" THEN Family ELSE {"v4"}]
ServerOf == [p \in Profile |-> IF p = "ssh" THEN {"dual"} ELSE {"plain", "dual"}]
ControlOf == [p \in Profile |-> IF p = "openvpn" THEN {} ELSE ServerOf[p]]
DialledOf == [p \in Profile |-> {{"dual"}, ServerOf[p]}]
=============================================================================
