----------------------------- MODULE MCManager ------------------------------
(***************************************************************************)
(* Values for the constants of Manager.  Each configuration picks the      *)
(* profiles its question needs from the ones defined here.                 *)
(***************************************************************************)
EXTENDS Manager

AllModes == [p \in Profile |->
    CASE p \in {"ssh", "sshTun", "sshPlain", "sshProxifier"} -> "ssh"
      [] p = "dnstt" -> "dnstt"
      [] p \in {"xray", "xrayTun"} -> "xray"
      [] OTHER -> "openvpn"]
TunProfiles == [p \in Profile |-> p \in {"sshTun", "xrayTun"}]
ProxifierProfiles == [p \in Profile |-> p = "sshProxifier"]
ReconnectProfiles == [p \in Profile |-> p \notin {"sshPlain", "sshProxifier"}]
Unlimited == [p \in Profile |-> 0]
OneRetry == [p \in Profile |-> 1]
SomeUnlimited == [p \in Profile |-> IF p \in {"dnstt", "xrayTun"} THEN 0 ELSE 1]
TempAuthProfiles == [p \in Profile |-> p \in {"openvpn", "openvpn2"}]
SameAddr == [p \in Profile |-> "127.0.0.1:10808"]
=============================================================================
