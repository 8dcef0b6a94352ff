# SAKRTUN: a TLA+ model of the client

SAKRTUN is a desktop VPN client. One process holds a user interface and an
engine; the engine connects a profile (SSH directly, through TLS, through HTTP
payload proxies, through a DNS tunnel, Xray, or OpenVPN), offers it as a local
SOCKS server, optionally routes the whole machine through a TUN adapter, and
reconnects when the tunnel is lost. This directory models the parts of it that
are concurrent, can fail half-way or keep state that outlives a connection, and
says what is checked and what is proved about them.

Run a configuration with `tlc -config X.cfg M`, where `M` is the module named in
the tables below, and check the proofs with `tlapm M.tla`.

## 1. Inventory

| Component | State | Operations | Talks to | What is hard | What makes it correct |
|---|---|---|---|---|---|
| Engine, `internal/engine/manager.go` | one mutex; status, cancel function, manualStop, reconnecting, one field per resource | Start, Stop, monitor, keepalive, reconnect loop, traffic probe, proxifier | everything | Start takes resources outside the mutex and may be overtaken; three kinds of goroutines act on the fields of whichever session is current | one tunnel at a time, a status that belongs to it, nothing left behind, a Stop that stops, a dead tunnel that is noticed |
| Helper processes, `process.go`, `openvpn.go` | process, ready and exited flags, temporary credentials | start, wait, stop | engine | exits at any moment; credentials are on disk before the process runs | ends with its session, credentials removed |
| Kill switch, `manager.go`, `internal/routes` | routing table, two recorded cleanups, allowed hosts, persisted setting | toggle, sync, block, apply TUN routes, clean up, restart | engine, UI, OS | two owners of the same table; crashes leave it changed | blocked when it must be, every route accounted for, restored when off |
| SSH dialling, `sshclient.go` | list of attempts, open connection | dial, TLS, payload, handshake | engine, proxies | failure in the last of four stages; the bypass host must be the dialled one | no stray connection, every host tried |
| Payload exchange, `payload.go` | captured bytes, limits, deadlines | read and skip HTTP responses, hand the rest on | proxies, SSH | responses and the SSH version in one stream, cut anywhere | no SSH byte lost |
| UDP gateway client, `udpgw_client.go` | table of IDs | forward, reply, teardown | SOCKS clients, gateway | 16-bit IDs, three goroutines | replies reach who asked, all goroutines end |
| DNSTT client, `internal/dnsttclient/api.go` | context, listener, packet connection | Start, run, Stop | engine | two timeouts racing results | port free after Stop, goroutines end |
| DNSTT transport, `dns.go`, `tls.go`, `http.go`, `turbotunnel` | bounded queues, poll timer, TLS connection, the time before which DoH may not ask | send, receive, poll, redial, wait | KCP, resolver | full queues, silent peers, lost and doubled datagrams, senders told to wait, the server may not speak first | one connection, data is fetched, the resolver's wish is respected |
| DNS names, `dnsttclient/main.go`, `dnsttcore/dns` | domain | encode a packet into a name | transport | rounding at 63 and 255 octets | every packet fits |
| DNS messages, `dnsttcore/dns/dns.go` | builder's cache of names, reader's position | write, read, take packets from a response | transport, resolvers | compression pointers, truncated and rewritten messages | what is written is read back, reading ends, no half packet |
| DNSTT streams, `dnsttclient/main.go`, `api.go` | two copying goroutines and their two ends | accept, copy, close | SSH client, session | each side may end first; the session may die | all words delivered, all released |
| SOCKS server, `socks5.go`, `ssh_direct_tcp.go` | a handler per connection, its deadline and channels | handshake, CONNECT, DNS over SSH, UDP gateway | local programs, SSH | half-closed connections, servers that fail, a deadline that passes while dialling | channels closed, every DNS server asked, last words delivered |
| Store, `internal/config` | profile and settings files | save, delete, load at start-up | UI | crash or failing call between any two system calls | no torn and no lost file |
| Profiles, `config.go`, `nativeui/ui.go` | files, list, current profile, form | defaults, validation, every handler of the form | store, engine | defaults applied again and again; widgets that set each other; a failed reload | form and profile describe each other, only the shown profile changes |
| Log view, `logger.go`, `nativeui/ui.go` | ring of entries, text, position of the poller | log, poll, clear | everything that logs | text shared without a lock; the ring turns between two ticks | each line once, lines appear |
| Updater, `updater.go`, `nativeui/ui.go` | files of the tools, driver, releases | check, confirm, download, unpack, copy | GitHub, installers, engine | one of several files fails; mirrors; the tool is running | "updated" means replaced, every mirror tried, updates end |
| Link parser, `xraylink.go` | none | parse | UI | separators inside passwords | the server that was shared, or none |
| Layout and themes, crash files, TLS fingerprints, OS helpers | | | | presentation, output, third-party configuration | not modelled |

`PROJECT.json` lists every component with its status, and under `hazards` what
can go wrong in this code that a test would hardly reach, at the line where it
bites.

## 2. Modules

| Module | Models | State and actions against the code |
|---|---|---|
| `TunnelStatus` | what the engine promises about the tunnel | abstract: `Connect`, `Established`, `TornDown` of a tunnel owned by one call of Start |
| `Manager` | the engine | a *session* is a call of Start that passed its first check; `pc[s]` is where that call is, one value per stretch between two critical sections; `ref` are the Manager's fields, `res` what exists in the world; `gpc[s]` are the session's monitor and keepalive goroutines and the reconnect loop they may become. `stopLocked` is one operator used by every action that calls it |
| `KillSwitch` | kill switch and TUN routes, on top of `TunnelStatus` | `table` is the OS routing table per address family; `ksCleanup` and `routeCleanup` the two recorded cleanups; `at[s]` is where each call of Start is: routes.Apply runs without the lock, family by family (`FindGateway`, `AddRoutes`), what it records is in `made[s]` until `StoreCleanup`, and Stops and other Starts come between any two of these; `Toggle`, `SaveSettings`, `Close`, `Quit`, `Crash`, `Reboot`, `Restart` are the UI's and the machine's part |
| `SshDial` | connectSSH | one action per stage of an attempt, `open` the connections nobody closed |
| `Payload` | the exchange before SSH | a line is two pieces, so that a deadline or a broken connection can hit the middle of it |
| `Udpgw` | one UDP association | `idFor` with its wrapping counter, forwarder, reader and control goroutines; the gateway is external |
| `DnsttClient` | Start, run and Stop of the embedded client | the buffered result channel, the deferred closes and both timeouts |
| `Socks` | one connection to the SOCKS server, on top of `Udpgw` | `stage` is where the handler is, `open` what it holds (the connection, the UDP socket, the SSH channel) and `deferred` what it will close on its way out; CONNECT dials and then copies two ways (`copying`, `shut`), a UDP request becomes either DNS datagrams asked of `dnsLeft` one after the other or `Udpgw`'s association; `deadline` is the 30 seconds of the handshake |
| `DnsTransport` | DNS packets through any resolver | `via` is how: over TLS (the redialling goroutine and its two loops), over HTTPS (the senders, which take a query and look at the shared `notBefore`, post, and record a limit in separate steps) or over UDP; above all three the same loops, queues and poll timer. KCP, resolver and server are external |
| `DnsName` | packet to name | lengths only |
| `DnsMessage` | messages on the wire | one action per entry written and per cell read; `nameCache` is the builder's; `fate` what happened to the message on the way; `queued` the packets recvLoop takes from it |
| `DnsttStream` | one accepted connection of the DNSTT client | `up` and `down` are the goroutines of handle, `local` and `stream` the ends they close; `refused` a write the stream did not take |
| `Store` | files | one action per system call of writeFileAtomic |
| `Profile` | the rules of a profile | `ApplyDefaults`, `Validate` and the reader of profile files, as operators; `odd` are the lists of arguments with an argument that is not one word |
| `ProfileEditor` | the profile list and the form | a handler runs on the UI thread from start to end and is one action; `form` are the widgets, `current` the profile they were filled from; arguments are joined to a text and split at blanks, and a select keeps its value when it is given one it does not offer |
| `LogView` | the log on screen | the logger's ring, the poller goroutine, clearLogs and the UI thread's queue; `logText` is a Go string of two words |
| `Updater` | updates | `job[j].pc` goes from the check to the closing dialog; `onDisk` the version in every bundled file, `pending` what the installer has left to the next reboot; one action per file copied, or passed over because it is missing |
| `XrayLink` | share links | a link is made of a server in every usual shape and parsed; texts are sequences of tokens; a user name that is not escaped ends at its first colon |

`MCManager`, `MCKillSwitch`, `MCPayload`, `MCDns`, `MCSocks` and `MCWindow` give
values to constants a `.cfg` cannot express. `MCDns` (`DnsName`, `DnsMessage`,
`DnsttStream`) and `MCWindow` (`ProfileEditor`, `LogView`, `Updater`, `XrayLink`)
put components that share no state into one run: `part`, chosen at the start, is
the one a behaviour exercises, and the others stand still. The proofs are in
`ManagerProofs`, `KillSwitchProofs`, `SshDialProofs` (with `Payload`), `StoreProofs`,
`SocksProofs`, `DnsttProofs` (`DnsttClient`, `DnsttStream`, `DnsTransport`, `DnsName`,
`DnsMessage`) and `WindowProofs` (`ProfileEditor`, `Updater`, `LogView`, `XrayLink`);
`Induction` has the facts about numbers and loops they share. Operators named
`Definition_Something` are wrong versions of `Definition` that show that a
property notices the mistake; nothing uses them otherwise.

Composition: `KillSwitch` extends `TunnelStatus`, and `Manager` is shown to
implement `TunnelStatus` (`ImplementsTunnelStatus`), so what the kill switch is
told about the tunnel is what the engine does. `Socks` extends `Udpgw`: its
handler dials the gateway, starts the association, waits for it and closes the channel it used.
`ProfileEditor` extends `Profile`, whose rules every one of its handlers applies.
`Manager` abstracts connectSSH (`SshDial`) and the DNSTT client (`DnsttClient`) to
succeeding or failing, `SshDial` abstracts the payload exchange (`Payload`),
`DnsttClient` what crosses the tunnel (`DnsTransport`, `DnsName`, `DnsMessage`,
`DnsttStream`). `Store` says how a file that `ProfileEditor` writes in one step
gets onto the disk.

## 3. Runs

| Run | Bounds | Shows |
|---|---|---|
| `MCManagerRaces` | 2 sessions, 5 profiles (every mode, TUN, proxifier), user clicks at any time, timers at any time | `OneLiveSession`, `StatusIsOwned`, `OneReconnectLoop`, and `ImplementsTunnelStatus` |
| `MCManagerPatient` | 2 sessions, 4 profiles, two of them with unlimited retries, user connects only when nothing is in flight and disconnects at any moment | `NothingLeaks`, `OnlyLostTunnelsReconnect`, and under fairness `StartEnds`, `StopEndsLoop`, `DeadTunnelNoticed` |
| `MCManagerDeadTunnel` | 2 sessions, one profile, unlimited retries, user clicks at any time | **violation** of `DeadTunnelNoticed`, section 6 |
| `MCKillSwitch` | 3 profiles (plain SSH, full TUN, OpenVPN), an IPv4 and a dual-stack server, dual-stack uplink, 2 connects that may overlap, a restart, crashes | `KillSwitchHolds`, `NoOrphanRoutes`, `RestoredWhenOff` |
| `MCPayload` | chains of up to 4 responses of 9 kinds, limits of 3 responses, 3 header lines, 2 body pieces; peer that stays, closes or resets; deadline passing anywhere | `SSHBytesKept`, `ChainIsTransparent`, `NegotiationEnds` |
| `SshDial` | every list of up to 3 entries over 2 hosts, with and without own port, all five modes | `NoStrayConnection`, `ControlHostsAreDialled`, `EveryHostTried` |
| `Store` | 2 profiles and the settings, 4 saves, any system call failing, a crash anywhere | `SavesAreAtomic`, `OnlyCrashesLitter` |
| `MCDns` | all 255 domain lengths with every packet up to the MTU; messages over names of up to three labels that share suffixes, differ in case or hold a dot, pointers that reach 6 cells, counts up to 10, strings of 3 and names of 9 octets; 2 words each way through a stream | `EveryPacketFits`, `MessageReadBack`, `ServerWordsServed`, `ReadingShrinks`, `StreamReleased` |
| `DnsTransport` | TLS, HTTPS and UDP; queues of one packet, 3 connections, 2 senders told to wait up to 2 ticks, 2 packets at the server | `OneConnection`, `DataFetched`, `RetryAfterHonoured` |
| `DnsttClient` | 2 clients one after the other on one port | `CleanStopFreesPort`, `CancelledClientEnds` |
| `MCSocks` | one connection of every kind, 2 DNS servers asked for and 2 configured; the association with 2 clients, 2 destinations (one by name) and 3 IDs so that they wrap | `NothingLeftOpen`, `LastWordsDelivered`, `HandlerEnds`, `RepliesReachAsker` |
| `MCWindow` | 2 profiles created and 6 files to import, 2 edits of the form; a ring of 2 and a text of 3 entries, 4 entries, 2 clears; one update at a time, 3 releases that may lack a file, 2 updates; passwords of up to 2 tokens, every kind of stream and security | `EditorConsistent`, `OnlyShownProfileChanges`, `EachLineOnce`, `LinesAppear`, `UpdatedMeansReplaced`, `LinkServerKept` |

What the newer ones show, in words:

- `MessageReadBack`: whatever names a message shares or repeats, a message the
  builder accepted and the network left alone is read back as it was, names
  compared as they were written; a response yields all its packets, in whatever
  case its name comes back, and one that was cut or padded none. `ReadingShrinks`
  gives the measure by which a reader led around by pointers stops.
- `OnlyLostTunnelsReconnect`: a running tunnel is torn down by a goroutine only if
  that goroutine itself probed what this tunnel hangs on and got no answer in time.
  The exception, a probe of the process `m.openvpn` points to, is a real one
  (section 6). `StopEndsLoop`: a Stop ends the loop wherever it is and however many
  retries it has left, but for a Stop between the loop's last look at `manualStop`
  (`manager.go:681`) and the Start that resets it (`:106`).
- `NoOrphanRoutes`, `RestoredWhenOff`: a Stop that comes while routes.Apply works,
  or before its cleanup is stored, leaves no route behind: the Start it overtook
  stores its cleanup, finds that it is not current, and its own stop runs it. Two
  Starts that overlap are excepted (`overlapped`): the second store forgets the
  first (section 6).
- `ServerWordsServed` and `StreamReleased`: a connection through the DNS tunnel
  whose program has not hung up, whose session lives and whose stream has refused
  no write has got all the server sent before it is closed, and every accepted connection, also one accepted after
  the session has died, is released.
- `RetryAfterHonoured`: while the senders have been told to wait, the only requests
  that leave are those of senders that had looked before the first of them was told,
  and one from each.
- `NothingLeftOpen`: a handler that has returned has closed the connection, the UDP
  socket and every SSH channel, the gateway's too, whichever server failed when and
  also when the reply could not be written after the dial. `HandlerEnds`: it returns when its client goes, and with
  it the goroutines of a UDP association. `LastWordsDelivered`: a remote that has
  answered and closed is still heard by a client that only closed its sending
  side.
- `EditorConsistent` has three parts. `FormShowsProfile`, `RouteChoiceKept`: after
  every handler, also one that failed half-way, an unedited form read back is the
  current profile (of one the widgets cannot hold, an argument with a blank in it or
  a value a select does not offer, everything but those), and the route the user chose last is what is saved.
  `SavedProfilesStand`: a file that was saved is accepted and unchanged by the
  rules when it is loaded. `OnlyShownProfileChanges`: no handler writes another
  profile's file.
- `EachLineOnce`, `LinesAppear`: whatever is cleared between which two words of
  the poller's assignment, no line is shown twice or out of order, and a line is
  shown unless it was cleared, was pushed out, or the poller has died (section 6).
- `UpdatedMeansReplaced`: the dialog says updated only when every file of the tool
  is whole and of one version, the one offered or one published meanwhile,
  whatever failed or crashed before; a file that the release does not hold or that
  the installer has left to the reboot is excepted, as the code passes over it.
- `LinkServerKept`: a link is refused or gives the server and the credentials that
  were shared (the password as far as its first colon, where the link leaves one
  unescaped in the user name), and a TLS stream has a name to verify.

The modules state more than the runs check regularly: the type invariants (proved
where section 5 says so), and `SettingsMatchEngine`, `ConnectionReplaced`,
`EveryServerAsked`, `EverySourceTried` and `UpdatesEnd`. They hold on the same
instances: name one in the configuration of its module's run to check it.

Why the bounds are enough. Two sessions are what every race in the engine needs:
an old Start, goroutine or loop against a new session; a third session meets the
same fields in the same states, and the theorems of section 5 hold for any number.
Two connects let the kill switch go from any profile to any other, and a Start that
was overtaken meet the next one at every step; the theorems hold for any number.
Three responses against a limit of three, and chains of four, put the limits of
the payload reader on both sides. Queues of one packet are full whenever they are
not empty, which is the case that matters. Three IDs for four pairs make the
counter wrap. Pointers that reach 6 cells, counts of 10 and names of 9 octets are
passed by the messages of the run, so that the code's 16384, 65535 and 255 are met
on both sides. A ring of two turns between two ticks of the poller. Three releases
let a new one appear between the check and the download of an update, and again
before the next. Each run fires every action of its module except where its
constants exclude it (a crash where `MayCrash` is false), and the passing runs
together fire all of them.

Deadlock is checked where the system never stops by itself, and not in
`MCPayload`, `SshDial`, `MCDns`, `DnsttClient`, `MCSocks` and `MCWindow`, whose
components end: an exchange is over, a connection is made or given up, a message
has been read, clients and handlers have been stopped, a link has been parsed.

## 4. Fairness and assumptions about the environment

- Goroutines are scheduled: weak fairness for the steps of each goroutine. The
  user, the network and crashes owe nothing.
- `select` picks at random among ready channels, so a goroutine whose context
  has ended does not ignore it for ever: strong fairness for `ContextDone`. For
  the same reason the keepalive's ticker is served however often the monitor
  runs meanwhile.
- `Timely` (Manager): timers of seconds, and a user's Connect, are slower than
  goroutines that only wait for the processor. Disconnect may come at any moment,
  also between two steps of a goroutine. Liveness is checked with it; the safety run
  `MCManagerRaces` is not.
- `Patient` (Manager): the user connects only when no Start, goroutine or loop of
  an earlier session is left. The UI does not enforce it; section 6 says what
  happens otherwise.
- `ServersAnswer` (Manager): an SSH server that accepted the TCP connection
  answers or closes it. `ssh.NewClientConn` has no deadline of its own.
- DnsTransport: a kernel that keeps being handed data for a dead peer reports it
  some time (strong fairness for a failing write), and the server sends again
  what the client's queues dropped, as KCP does. A resolver asked again and again
  over HTTPS or UDP answers some time (strong fairness for an answer); a single
  request or datagram may be lost. Each sender goroutine is scheduled (weak fairness
  for taking, posting and recording).
- Socks: a remote, and a client, that has been told that nothing more comes ends its
  own side (TCP peers do when they read the end). `FairServers` adds that a DNS
  server that accepted a channel answers or closes it, because the deadline the
  code sets there has no effect (section 6). A time without a datagram comes
  (strong fairness for `DnsEnds`), so that a client that has left is noticed.
- MCDns: goroutines are scheduled, and the SSH client hangs up when it reads the end
  of its connection. Sessions and servers owe nothing.
- MCWindow: the poller's ticker ticks, the UI thread runs what is queued, requests
  have the time limits the code gives them, and installers return. The user owes
  nothing.
- Payload: a read deadline that is set passes unless the read ends before.
- KillSwitch: administrator rights, and nobody else changes the routing table.

## 5. Proofs

TLAPS checks these for every value of the constants, under the assumptions named
in the modules (`ProfileAssumption`, `KillSwitchAssumption`, ...), which say only
that the constants have the right kind of value (`ExchangeAssumption` of `Payload`
and `MessageAssumption` of `DnsMessage` describe the messages of the run), and under
the hypotheses named below. TLC evaluates the assumptions in the runs. Every
inductive invariant was checked by TLC as an invariant of the component's run
(types of unbounded sets in a form TLC can enumerate).

Two things concern all of them. Induction over data is done with sets: `Induction`
(in the module of that name) says that a set that has 0 and with n also n + 1 holds
every natural, which follows from the pigeonhole principle of the library
(`FS_PigeonHole`), and needs no operator as a parameter. `Recursion` builds on it: a
loop that is written as a recursive function and stays inside a set of values has
the values its body says. And the SMT encoding of tlapm 1.4.5 takes for granted
that a function whose `Len` is n has the domain 1..n, which is not so for what is not
a sequence. Every SMT obligation of these modules was also given to Z3 with the
sound half of that axiom only, and each was still proved.

- **Manager** (`ManagerProofs`): `TypeCorrect`, `OneLiveSessionHolds`,
  `StatusIsOwnedHolds`. The inductive invariant `IInv` is the type invariant with
  both properties and `Begun`: a session that is somewhere in Start has a profile
  and a number that was handed out, and its goroutines exist only once Start has
  returned. `Begun` is needed because types alone do not exclude a Start with no
  profile. The key step is `CurrentIsOwner`: the check under the lock before the
  commit lets only the session through whose context the manager holds, although
  it compares profile IDs, because the context of every other session is
  cancelled. `OneReconnectLoopHolds` adds the flag: a goroutine enters the loop
  only while it is down, and the one that leaves is the only one inside.
- **Refinement** (in the same module): `Refinement`, from `IInv`: a step is
  `Connect`, `Established`, `TornDown` or invisible. `OneLiveSession` is what
  makes `stopLocked` on an idle manager a stuttering step.
- **Manager, when nobody hurries**: `NothingLeaksWhenCalm` and
  `OnlyLostTunnelsReconnectWhenCalm`, under the hypothesis `Calm`: the user
  connects only when nothing is in flight, timers leave runnable goroutines time
  to run, and no profile whose Start gets that far launches a proxifier. Without
  the first a Start overtakes another, without the second a goroutine of the last
  tunnel probes the next one, and `MCManagerProxifier` (section 6) shows the third;
  the run `MCManagerPatient` satisfies all of them. `CalmInv` adds to `IInv` where
  each mode can be in Start (`ModeSteps`), that only one Start is on its way (`OneStart`,
  `Solo`), who owns each resource and each credential file (`Owned`, `Created`,
  `AuthOwned`), what the manager's fields may point to (`Targets`) and what a
  probing goroutine has taken a snapshot of (`Telling`): until it stops the tunnel, a
  goroutine whose probe failed remembers what it asked, and that is the current
  tunnel's. A probe fails when what it asks is gone and also when a live connection
  does not answer in time. The exception for `m.openvpn` in the second property is
  in `Targets`: that field alone may point to an earlier session. Disconnect may
  come at any moment in both.
- **KillSwitch** (`KillSwitchProofs`): `SwitchTypeCorrect`,
  `KillSwitchAlwaysHolds`, `NoRouteIsOrphaned`, `OffRestoresRouting`. `KInv` adds
  who wants which routes: a recorded block implies the switch is on (`BlockWanted`),
  what a Start has made and not stored belongs to one that is setting up routes
  (`StartsWanted`), and until Starts overlap only one of them is under way
  (`OneAtATime`). That a Start which was overtaken still stores and runs its cleanup is
  what makes the last two hold without the lock; `~overlapped` is part of both
  properties, because two Starts that overlap do break them (section 6).
  One lemma, `SyncStep`,
  serves every handler that ends in syncKillSwitchLocked.
- **SshDial** (`SshDialProofs`): `NoConnectionIsStray`, `BypassCoversConnection`,
  for any list of hosts and any number of attempts. The invariant adds that no
  attempt gets past the dial with the unresolvable text of a whole list.
  `GivesUpOnlyAtTheEnd`: connectSSH gives up, uncancelled, only when it has tried
  every host of the list. `AttemptsCover`, by induction over the loops of
  buildTransportAttempts, says that the attempts name every host whatever
  duplicates and ports the list has, and `TriedInv` that those before the current
  one were made. The hypothesis, that a payload profile names a proxy port, is
  there because without one the list is ignored (`SshDialOwnPorts`, section 6).
- **Payload** (same module): `SSHBytesAlwaysKept` and `ChainsAreTransparent`, for
  exchanges of any length, in which the peer may stop at any piece.
  `ExchangeAssumption` is a grammar of responses: status line, header lines, blank
  line, and the body they announce, fixed or in chunks; after the last response the
  SSH server's bytes. For the first theorem `KeptInv` relates each place of the reader to
  the pieces it has read: whatever it takes a line for, and also where a limit made
  it leave a header or a body in the middle, it stops at the latest with the SSH
  version line, because that is no status line, no chunk size and no blank line, and what
  it has captured of it is put in front again. Types would not do: a reader that
  discards a body has to be known to have as many pieces of it ahead of it as it
  means to discard. For the second `SyncInv` says that within the limits, and as long
  as no deadline passes, the reader is where the grammar is: a header is taken for
  a header, `length` and `chunked` are what the header lines so far announced, and the
  counters are at most the number of lines of their kind that it has passed, so
  that no limit is met.
- **Store** (`StoreProofs`): `FilesStayWhole`, for any number of files and saves.
  The invariant adds that versions are handed out in order and that the temporary
  file is the newest. `OnlyCrashesLeaveFiles`: a save that returns, with or without
  an error, has removed its temporary file.
- **Socks and Udpgw** (`SocksProofs`): `HandlerClosesChannels`: `HeldInv` says
  that whatever is open has been deferred, at every stage and after every failing call,
  that a channel to a DNS server is open only during an exchange, and that a
  closed handler has nothing deferred left. `SocksImplementsUdpgw`:
  every step of the server is a step of the association or leaves it alone, so
  what is true of `Udpgw` is true inside `Socks`. `EveryReplyReachesAsker`: until an
  association has used up its IDs the n-th pair has ID n, every ID in use belongs
  to one client, and whatever is on the wire carries the ID of its asker
  (`UdpgwInv`); `SocksRepliesReachAsker` follows from both.
- **DnsTransport** (`DnsttProofs`): `OneConnectionHolds`, inductive as it
  stands; `RetryAfterAlwaysHonoured`, from the fact (`HeldBack`) that `notBefore` is
  never before the latest time a response named, in whatever order responses of several
  senders come, and that a sender past its check while that lasts was past it when it
  began; `TransportTypeCorrect`, that queues and counters keep to their
  limits.
- **DnsName** (same module): `PacketFits` bounds the length of a name by arithmetic
  on the three roundings (base32, labels, 63 of 64); `EveryPacketFitsHolds` follows
  for every domain.
- **DnsttClient and DnsttStream** (same module): `CleanStopAlwaysFreesPort`,
  from the order of the deferred closes before the close of `done`.
  `ServerWordsAlwaysServed`, for conversations of any length: `StreamInv` counts
  the words between the server and the program, and says that nothing but the end
  of the downward copy closes the program's side while its upward one is alive, unless
  the stream has refused a write.
- **DnsMessage** (same module): `ReadingAlwaysShrinks`, for messages of any size
  that arrived whole, cut, padded or with a pointer bent to anywhere in the
  message. The measure `ToRead` counts, in this order, the entries left, the
  pointers that may still be followed in one name and the cells left;
  `MessageInv` says what makes it one: the reader is within the message, has followed at
  most ten pointers and has read no more entries than the header announces, and,
  while the message is written, pointers lead back to cells that exist.
- **ProfileEditor** (`WindowProofs`): `EditorAlwaysConsistent` and
  `OtherProfilesStay`, for any number of profiles, files and edits. `EditorInv` ties
  the widgets to the profile they were filled from (`Shown`), with what the form can
  show at all (`Widgets`), and every profile on disk to one that ApplyDefaults and
  Validate leave alone (`FilesStand`). The hypothesis `ImportsAreProfiles`
  of the first says only that an imported file holds a record with the fields of a
  profile, whatever their values: what of it the widgets cannot hold (`Showable`) the
  property names.
- **Updater** (same module): `UpdatedAlwaysMeansReplaced`, for one update at a time.
  `UpdateInv` says which files an update has copied or passed over so far, and
  `PendingType` what may be left to a reboot. With two at once the
  property is false (section 6).
- **LogView** (same module): `LinesOnlyOnce`, for rings and texts of any size.
  `LogInv` says that every text there is, the ring, the one the poller makes, those
  queued for the UI thread and the one on screen, holds numbers in increasing order, and
  that no text holds one the poller has not seen. It survives the tearing of
  `logText` because a prefix of such a text is such a text.
- **XrayLink** (same module): `SharedServerIsKept`, for servers, passwords and
  addresses of any length, in every shape of link. The lemmas say where the first
  and the last separator of a text are when a part of it is known to have none. The
  hypothesis `ServersAreShareable` says what a server may be: a cipher without `:`, `@`
  and `?`, a host without `@` and `?`, and a password that does not hold an `@` and later a port directly followed by `?`. Such a
  password (`@ a : 443 ?`) in a link whose user information is not encoded reads as
  the end of the address, and url.Parse would find another server. TLC confirms that
  the servers of `MCWindow` satisfy it.

`NameSpec`, `MessageSpec`, `ClientSpec`, `StreamSpec`, `PayloadSpec`, `UpdateSpec`,
`LogSpec`, `LinkSpec` and `ProfileEditor`'s `Spec` are the components' own
specifications; `MCDns` and `MCWindow` take their steps one
component at a time.

Only model-checked:

- liveness (`StartEnds`, `StopEndsLoop`, `DeadTunnelNoticed`, `NegotiationEnds`,
  `DataFetched`, `CancelledClientEnds`, `StreamReleased`, `HandlerEnds`,
  `LastWordsDelivered`, `LinesAppear`): the prover has no fairness;
- `MessageReadBack` of `DnsMessage`: for any message it is false, because a name of
  more than ten nested suffixes is written and refused (section 7); for those
  without such names it needs that writing a name as a string is one-to-one, of
  which the provers know nothing.

## 6. Where the code and its documentation disagree

One run expects a violation, `MCManagerDeadTunnel`. The tunnel is lost and the
reconnect loop sleeps; the user connects by hand. `reconnecting` is still set, and
stays set as long as the loop finds a tunnel running, so `markReconnecting` refuses
the new tunnel's monitor and keepalive and both return. When that connection dies
the status stays Connected. `manager.go:528` says a dead connection triggers the
reconnect loop or stops the tunnel "so the UI shows Disconnected instead of a stale
Connected".

Further configurations, kept here but not part of the regular runs, reproduce
more disagreements with the property named in each:

| Configuration | What happens |
|---|---|
| `MCManagerSilentServer` | a reconnect's Start hangs in the SSH handshake with a silent server; Disconnect ends neither (`README.md:433`) |
| `MCManagerStaleOpenVPN` | stopLocked never clears `m.openvpn`; the monitor of a later SSH tunnel finds that process gone and tears the tunnel down (`README.md:425`) |
| `MCManagerAuthLeft` | a Start that was stopped stores its credentials file in a field the next Start overwrites (`manager.go:753`) |
| `MCManagerProxifier` | Stop between the commit and startProxifier (`manager.go:938`) |
| `MCManagerTraffic` | the traffic probe outlives its tunnel and writes "failed" into an idle status (`manager.go:35`) |
| `MCKillSwitchOverlap` | a Start that was stopped is still in routes.Apply when the next one stores its cleanup; its own store overwrites that one, and the routes the newer Start added stay for ever (`manager.go:291`) |
| `MCKillSwitchReachable` | the switch is turned on while a full-device tunnel connects: its bypass routes exist, so the block does not record them; when the tunnel stops, its cleanup removes them, the block's hosts have not changed and it is not applied again: the server is unreachable (`README.md:223`) |
| `MCKillSwitchGap` | connecting with other hosts releases the block for a moment (`README.md:224`) |
| `MCKillSwitchOpenVPN` | the servers of an OpenVPN profile are not among the allowed hosts (`README.md:223`) |
| `MCKillSwitchLoops` | a dual-stack server on an IPv4 uplink has no bypass for its IPv6 address (`routes.go:109`) |
| `MCKillSwitchRestart` | a program closed with the block on and started again has no default route to restore (`killswitch.go:14`) |
| `SshDialOwnPorts` | proxies that bring their own port are ignored when the port field is empty (`README.md:394`) |
| `DnsTransportStop` | Stop leaves the TLS loop dialling (`api.go:40`) |
| `DnsttClientReady` | the start-up timeout returns a client without a listener (`api.go:52`) |

Others show when a property of a module is checked instead of those of a run's
configuration:

| Run | Property | What happens |
|---|---|---|
| `MCManagerDeadTunnel` | `StopEndsLoop` | Connect after Disconnect resets `manualStop` before a sleeping loop sees it; the loop goes on (`README.md:433`) |
| `MCManagerPatient` | `NoStartAfterStop` | a Stop between the loop's check (`manager.go:681`) and the Start that resets `manualStop` (`:106`) is forgotten; the tunnel the user disconnected comes up again (`README.md:433`) |
| `MCSocks`, `SPECIFICATION SocksSpec` | `ReplyComesFirst` | the 30 seconds pass while SSH dials; the reply cannot be written, the error is ignored and the client gets the remote's bytes without it (`socks5.go:124`) |
| `MCSocks`, `SPECIFICATION SilentServers` | `HandlerEnds` | a DNS server that accepts and says nothing: SSH channels have no deadlines, so the eight seconds are never counted and the association stays (`socks5.go:205`, `ssh_direct_tcp.go:34`) |
| `MCWindow` | `LinksRouteAll` | a new profile made from a link is meant to route the system (`ui.go:1245`), but the defaults have already chosen the proxy route, which wins when it is saved |
| `MCWindow` | `XrayRunsShownFile` | the arguments of Xray were derived from an earlier path and stay when the path is changed (`config.go:520`) |
| `MCWindow` | `SilenceMayBeChosen` | a verbosity of 0, offered as silent, is replaced by the default each time the profile is touched |
| `MCWindow` | `EveryProfileShown` | a profile with an argument that has a blank in it, such as the default one for a path with a blank (`config.go:521`), is read back from the form with that argument in two (`ui.go:832`, `ui.go:917`); a protocol or resolver type the selects do not offer becomes another |
| `MCWindow` | `RouteWidgetsAgree` | the profiles cannot be listed at start-up: the form stays as built, with the route TUN and the TUN check off (`ui.go:155`, `ui.go:371`) |
| `MCWindow` | `ClearedStaysCleared` | Clear runs inside the poller's tick: the text it cleared comes back (`ui.go:1397`) |
| `MCWindow` | `PollerSurvives` | the poller reads one word of a string being cleared and panics; it is not started again (`ui.go:1397`) |
| `MCWindow` | `UpToDateMeansWhole` | an update that replaced the executable and failed on a data file: the next check asks only the executable and says up to date |
| `MCWindow` | `UpdatedKeepsNone` | a file missing from the archive is passed over (`updater.go:530`), or left to a reboot by the installer (`updater.go:406`), and the update counts as done |
| `MCWindow` | `DirectURLWorks` | the address that is to work without the API ends in `.zip.zip` (`updater.go:486`) |
| `MCWindow`, `Job = {j1, j2}` | `UpdatedMeansReplaced` | two updates of a tool at a time copy over each other's files (`ui.go:1044`) |
| `MCWindow` | `WholePassword` | `trojan://p:w@h:443` is accepted with the password `p` (`xraylink.go:249`) |
| `MCWindow` | `EveryLinkImported` | links of the usual shapes that are refused: plain user information (`xraylink.go:304`), a `/` in standard base64, a vmess port given as a number |

## 7. Abstractions

Payload bytes, log texts, durations and command lines are left out everywhere.
A process whose context is cancelled counts as released at once, although it may
be probed as still alive for a moment. `Manager` leaves the kill switch calls to
`KillSwitch`: they change only fields it does not read. `Store` reduces the
validation of a profile to accepting or rejecting it. `Payload` assumes that a
peer sends the bodies it announces; a proxy that announces one and sends SSH
instead makes any reader of the headers lose it. `Udpgw` looks at one
association: each has its own table and gateway connection. `Profile` treats the
modes ssl and payload_ssl as direct and payload, whose rules they share.
`DnsMessage` counts offsets in cells, so a pointer is as long as a label; a name
made of more than ten nested suffixes, which the builder could write and the reader
would refuse, needs twelve names that nest and no message of the client has them.
`LogView` writes and reads `logText` word by word, because that is what an
unsynchronised Go string is. In `ProfileEditor` texts have no blanks around them, and
lists of name servers, which are split at commas, are not told apart. A refused
write in `DnsttStream` can really lose words of the server: the code closes the
stream then (`main.go:146`). In `DnsTransport`, as in the code, a sender that has
passed its check sends once even if it is told to wait meanwhile, although the
comment at `http.go:39` says no query may be sent. `XrayLink` works on tokens; passwords have at most two.

## 8. Not modelled, and plan

Not modelled, and why:

- layout, themes, translations of the window, and crash files: output only;
- TLS fingerprints and their weighted choice, certificate pools: configuration of a
  third-party library;
- Windows adapter loading, process creation flags: system calls without state of the
  program's own;
- KCP, smux and Noise: third-party protocols, external in `DnsTransport` and
  `DnsttStream`;
- `RemoteMap`'s expiry and stash: every caller passes a timeout of 0 and none calls
  `Stash`, so this code never runs in the client;
- the placeholders of a payload text: string substitution with unit tests;
- command lines for routing, DNS and firewall tools: `KillSwitch` models their
  effect on the table.

The order of work:

1. done: `TunnelStatus`, `Manager`, `KillSwitch` and their proofs; `DnsName`,
   `DnsttClient`, `SshDial`, `Store` and theirs; `DnsTransport`, `Udpgw`, `Payload`.
2. done: DoH and UDP in `DnsTransport`; `Socks` around `Udpgw`; `DnsMessage` and
   `DnsttStream`; `Profile` and `ProfileEditor`, `LogView`, `Updater`, `XrayLink`.
   This is what can be modelled of the program with profit.
3. done, proofs: every invariant of the runs but `MessageReadBack`, the action
   properties, and the refinements (section 5).
4. left: `MessageReadBack` for messages whose names nest less than eleven deep; type
   correctness of `Socks`, `Udpgw` and `Store` as theorems of their own; liveness, when
   a prover for it is at hand.
