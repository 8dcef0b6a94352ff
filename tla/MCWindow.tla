------------------------------ MODULE MCWindow ------------------------------
(***************************************************************************)
(* The window of the program: the profile editor, the log view, the update *)
(* buttons and the links it imports.  They share no state, so a behaviour  *)
(* exercises one.                                                          *)
(***************************************************************************)
EXTENDS ProfileEditor, LogView, Updater, XrayLink

VARIABLE part

\* Servers with separators in their password, and every kind of stream.
Query(type, security, sni, host) ==
    [type |-> type, security |-> security, sni |-> sni, host |-> host, path |-> "path",
     pbk |-> "key", serviceName |-> "service", headerType |-> "header"]

ServerOf(scheme, method, password, query, string) ==
    [scheme |-> scheme, method |-> method, password |-> password, host |-> <<"h">>,
     port |-> "443", query |-> query, portIsString |-> string, remark |-> <<"r", "?">>]

Shared == ServerOf("ss", <<"m">>, <<"p">>, Query("", "", "", ""), TRUE)
Passwords == UNION {[1..n -> {"p", ":", "@", "?"}] : n \in 1..2}

MCServers ==
    {ServerOf("ss", <<"m">>, p, Query("", "", "", ""), TRUE) : p \in Passwords}
    \cup {ServerOf(scheme, <<"m">>, p, Query(type, security, sni, host), string) :
            scheme \in {"vless", "trojan", "vmess"}, p \in {<<"p">>, <<"p", ":", "w">>},
            type \in {"", "ws", "grpc", "kcp"}, security \in {"", "none", "tls", "reality", "xtls"},
            sni \in {"", "sni"}, host \in {"", "cdn"}, string \in BOOLEAN}

MCInit ==
    /\ Init /\ LogInit /\ UpdateInit /\ LinkInit
    /\ part \in {"editor", "log", "update", "link"}
    /\ part # "link" => server = Shared /\ shape = "plain"

Editing == part = "editor" /\ Next /\ UNCHANGED <<logVars, toolVars, linkVars, part>>
Logging == part = "log" /\ LogNext /\ UNCHANGED <<vars, toolVars, linkVars, part>>
Updating == part = "update" /\ UpdateNext /\ UNCHANGED <<vars, logVars, linkVars, part>>
Linking == part = "link" /\ LinkNext /\ UNCHANGED <<vars, logVars, toolVars, part>>

MCNext == Editing \/ Logging \/ Updating \/ Linking

\* The ticker ticks, goroutines are scheduled and the UI thread runs its queue;
\* requests have time limits, and the installers return.
MCSpec ==
    /\ MCInit /\ [][MCNext]_<<vars, logVars, toolVars, linkVars, part>>
    /\ WF_logVars(part = "log" /\ Polling /\ UNCHANGED <<vars, toolVars, linkVars, part>>)
    /\ WF_logVars(part = "log" /\ Window /\ UNCHANGED <<vars, toolVars, linkVars, part>>)
    /\ \A j \in Job : WF_toolVars(part = "update" /\ JobStep(j) /\ UNCHANGED <<vars, logVars, linkVars, part>>)

\* A profile exported from here, an old one with no route, a modern one for
\* Proxifier, one that no longer passes Validate, one whose protocol and resolver
\* are not spelt as in the form, and one with an empty argument.
MCImports ==
    LET ssh == [ApplyDefaults([ZeroProfile EXCEPT !.given = {"name", "login", "host"}], 1)
                  EXCEPT !.verb = 5]
    IN  {ssh,
         [ZeroProfile EXCEPT !.given = {"name", "config"}, !.mode = "openvpn",
                             !.enabled = TRUE, !.exe = "set"],
         [ssh EXCEPT !.id = 9, !.route = "proxifier", !.mode = "xray", !.json = "valid"],
         [ssh EXCEPT !.dns = "bad"],
         [ssh EXCEPT !.proto = "BadVPN", !.resolver = "DoH"],
         [ssh EXCEPT !.args = "", !.odd = {"xray", "dnstt"}, !.path = "my file.json"]}
=============================================================================
