------------------------------- MODULE MCSocks ------------------------------
(***************************************************************************)
(* The SOCKS5 server with one configured DNS server of its own and one     *)
(* that is also among the public ones.                                     *)
(***************************************************************************)
EXTENDS Socks

MCConfigured == <<"9.9.9.9", "8.8.8.8">>
=============================================================================
