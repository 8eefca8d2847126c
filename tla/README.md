# A formal model of PIK.TAK

PIK.TAK (`src/`) is a reverse tunnel. A machine behind NAT runs `piktakd`, which
dials a public relay and exposes a local service; browsers and applications reach
the service through the relay. There are two independent relays: the Go Relay
(`cmd/piktak-relay`, `internal/relay`) and a Cloudflare Worker with a Durable
Object (`piktak-cf/worker`). This directory holds TLA+ models of the parts of the
program whose difficulty is in the order of events, the TLC configurations that
check them and the proofs TLAPS checks.

Run `tlc -config X.cfg M` for the pairs listed under "Runs", `tlapm XProofs.tla`
for the proofs. `PROJECT.json` lists, for each definition, the lines of code it
translates, and for each property a mutation of the code that breaks it.

## 1. Inventory

| component | code | state it keeps | operations | interacts with |
|---|---|---|---|---|
| Relay control sessions | `internal/relay/relay.go` (`serveWire`, `handleHello`, `serveHost`) | `hosts` map, a `hostSession` per connection | hello, register (replaces a session of the same id), `port.expose`, teardown | Pairer, tunnels, ingress, host drivers |
| Relay transparent mode | `internal/relay/ingress.go`, `data.go`, `splice.go` | `rawConns` map, one `ready` channel per browser | accept a browser, announce it, claim it for a data channel, time out, splice | host sessions, bridge host, browsers |
| Relay native mode | `internal/relay/relay.go` (`serveClient`, routing helpers) | `tunnels` map | `tun.open`, `tun.ok`, `tun.close`, opaque frames, drops | host sessions, native drivers |
| L0 static pairers | `internal/l0/l0.go` | a set of codes | `Authorize` | `handleHello` |
| L0 dynamic pairing | `internal/l0/dynamic.go` | pairing hash and machines in memory, a state file and its `.tmp` | `Pair`, `Authorize`, `persistLocked`, `WritePairingCode` (another process) | `handleHello`, `piktak-relay pair` |
| Wire framing | `internal/wire/wire.go` | a buffered reader, a write mutex | `ReadFrame`, `WriteFrame`, `Raw` | all Go drivers |
| Bridge host | `internal/bridge/thost.go` | a credential (memory and file), a control connection | `Run` (hello, save credential, expose, inbound loop), `handleInbound`, splice | Relay, local service |
| Native drivers | `internal/host`, `internal/client`, `internal/l2`, `internal/l3` | tunnels by id | hello, negotiate, adapter frames | Relay |
| WebSocket host | `internal/wsbridge/wsthost.go` | the control WebSocket, a `conn` per request | reconnect, request head/body/end, response framing, WebSocket tunnels | Worker, local service |
| Worker Durable Object | `piktak-cf/worker/src/index.ts` | the host WebSocket, `conns` | host attach, browser HTTP and WebSocket, host frames, timeouts | WebSocket host, browsers |
| piktakd | `cmd/piktakd` | one service loop per configured service, a pairing code and a credential file they share | configuration, retry with back-off, SIGTERM, status page | bridge host, WebSocket host |
| piktak-relay | `cmd/piktak-relay` | - | pairer selection, `pair` command | L0, Relay |
| Status page | `internal/status` | counters | connected, active, requests | piktakd |
| Examples, site, packaging | `examples`, `site`, `Formula`, `Makefile`, workflows | - | - | - |

What makes each part hard, and what makes it correct:

* **Control sessions.** Two sessions of one host id overlap whenever a host
  reconnects: the old goroutine tears down *after* the new one registered. The
  map must end up with the session that is running; a replaced session must end.
* **Transparent mode.** Three goroutines (handler, data channel, session teardown)
  race for a browser socket that is closed outside the mutex. A browser must be
  served by one channel, never be forgotten, and not be closed under a channel
  that owns it.
* **Native mode.** A client captured a host session at hello time; tunnels are
  dropped by host id. Frames of a tunnel must reach its two ends only.
* **Dynamic pairing.** A code may be used once; a machine that was paired stays
  paired. The state file is written by two processes through one temporary name,
  and a write may fail or the process may stop in between.
* **Splice.** Two processes copy two directions between four sockets, each of which
  half-closes, resets or dies on its own, and the first raw bytes may arrive with a
  frame. No byte may be lost or moved, an end of stream must get through, and no
  goroutine or socket may stay behind.
* **Bridge host and piktakd.** The start-up expects one frame at a time although the
  relay may already route to it; the credential that was issued must survive restarts;
  the services of one process race for one code and one file.
* **WebSocket host and Worker.** Requests are multiplexed over one WebSocket;
  sessions are replaced, heads time out, bodies are streamed with back-pressure,
  connections are dropped while either side still writes.

## 2. Plan

Modules, in the order they are written. The relay comes first, because its
goroutines share state under a mutex while sockets are closed outside it.

1. `HostSessions`, `Ingress`, `InboundLifecycle` — the registry and the transparent
   mode, with the abstract life of an inbound connection. *Done.*
2. `IngressProofs` — an inductive invariant for any number of sessions, browsers and
   channels. *Done.*
3. `Pairing`, `PairingProofs` — codes, credentials and the state file. *Done.*
4. `Transparent`, `TransparentProofs` — `Ingress` composed with the bridge host. *Done.*
5. `Tunnels`, `TunnelsProofs` — the native mode on `HostSessions`. *Done.*
6. `Worker`, `WsHost`, `FrameChains`, `WsHostProofs` — the Cloudflare path end to end. *Done.*
7. `Splice`, `BytePipe`, `SpliceProofs` — the data channel after `data.ack`, byte by byte. *Done.*
8. `Enrol`, `EnrolProofs` — `Pairing` composed with the services of `piktakd`, their shared
   code and credential file, crashes and restarts on both sides. *Done.*
9. `SlowLocal` — bounded socket buffers: the read loop of the WebSocket host blocked by
   one local service, the relay's writes without a deadline. *Not started.*

Every safety property the passing runs check is also a theorem; what is left to the model checker is in section 6.

## 3. Modules and how they correspond to the code

```
HostSessions ──EXTENDS── Ingress ──EXTENDS── Transparent ── MCTransparent
     │                      │                      └── TransparentProofs (with IngressProofs)
     │                      ├── INSTANCE InboundLifecycle (refinement)
     │                      ├── IngressProofs
     │                      └── MCIngress
     └──EXTENDS── Tunnels ── TunnelsProofs, MCTunnels
Pairing ──EXTENDS── Enrol ── EnrolProofs (with PairingProofs), MCEnrol
     └── PairingProofs, MCPairing
Splice ── INSTANCE BytePipe (refinement), SpliceProofs, MCSplice
Worker ──EXTENDS── WsHost ── WsHostProofs (with FrameChains), MCWsHost
```

Definitions under a comment "Mutant" are not part of a model: each is a plausible
bug that `PROJECT.json` substitutes for the definition below it to see that a
property notices.

**HostSessions** (`relay.go`, `serveWire`, `serveHost`). A session is one goroutine of
`serveHost` and its `hostSession`. `sessPc` is the place of the goroutine; `hosts`,
`hostOf`, `exposed` are `Relay.hosts`, `hostSession.id` and `local # ""`; `cancelled`
and `connOpen` are what `old.cancel()` and `old.conn.Close()` do. Each mutex section
and each frame write is a step. The deferred section is completed by the module that
composes this one, since it also drops tunnels and browsers in the same section.
Session ids are never reused; a host that reconnects is another session.

**Ingress** (`ingress.go`, `data.go`, `dropRawConnsForHostLocked`). `inbPc` is the place of
`serveIngress`, `attPc` that of `serveData`, `rawConns` the keys of the map, `ready` the
closed channels, `browser` the socket. A step is a mutex section, a frame write or a
channel operation; the timer may fire whenever `ready` is not closed. A handler that
gives up deletes its entry and closes the browser in one step (`Discard`): between the
two, nobody else can find the browser through the map. `Accept` and the lookup of a session are one step
(`PickHost`, `RefuseBrowser`); a shutdown stops the first and not the second, so the step stays possible after it.

**InboundLifecycle** says what becomes of a browser without saying who does it. `Ingress`
maps to it by `inboundPhase`: a browser is *served* from its claim on.

**Transparent** (`thost.go`, with `wire.go`). Every relay step that reads or writes a frame
is the `Ingress` step joined with the queue `toHost` of its connection. A data channel
(`chanPc`) is the other end of an attacher; `chanConn` is the id it was told.

**Tunnels** (`serveClient`, `routeToClient`, `closeTunnelLocked`, the drops). The writes a
goroutine has still to do are in `out`, filled in the step that holds the mutex and
emptied one by one, so that the map may change in between. Hosts and clients name any
tunnel they were told of, however long ago, and no other: the host of `internal/host` answers with the tunnel id of
the frame it read (`host.go:74-113`), while the relay checks no owner (`relay.go:231-238`). `FramesFromOwnHost`
is therefore about such hosts, and says nothing of one that makes up ids.

**Pairing** (`dynamic.go`, `cmd/piktak-relay/main.go`). `mem` is the pairer's state, `disk` and
`tmp` the two names in the file system; `fd` says which file a process has open, since
renaming a file leaves open descriptors on it. `Torn` is a file cut short. The
relay's `Pair` and the command's `WritePairingCode` take one step per system call;
`Stop`, `PersistFails` and `CliFails` are possible between any two. The mutex of the
pairer is what keeps one `Pair` in progress at a time and `Authorize` out of it.

**Enrol** (`thost.go` up to `thost online`, `piktakd/main.go`, `handleHello`, `status.go`). A service
is one `runServiceLoop`; `svcPc` is its place, and `svcCode`, `svcCred` are the fields of the
`bridge.Host` of its attempt, which `Ended` throws away: only `credFile` outlives an
attempt. The file is opened (and truncated) and written in two steps. `conns` are the
control connections; a relay that stops or a connection that breaks loses the answer on its
way, and the service finds out later (`Lost`). A hello with a code is `Pair` of
`Pairing`, which the composition leaves as it is: every step is a step of `Pairing` or does
not touch its state. `active` is the counter of the status page, `stopping` the context
that SIGTERM cancels. A service starts with one of the relay's codes or with none. Services have names, hence host ids of their own, and the configuration
has no credential in it (a configured one makes Run skip the file).

**Splice** (`splice.go`, `spliceBoth`, `wire.Raw`). A direction is three pipes (TCP streams) joined by two
copies; connection `c` is pipe `c` of one direction and `4 - c` of the other. `copyPc` and `hand`
are an `io.Copy` and the byte between its read and its write; `ahead` is what the host's buffered reader
took off the socket beyond `data.ack`. TCP is external and modelled by three rules: a pipe
holds `Cap` bytes, a close sends the end of stream, and a close with unread bytes or a write to
a closed socket resets the connection. The relay starts with `data.ack` written.

**BytePipe** says what the two ends see of it: bytes in order, then an end of stream, and anything
goes once something `broken` was observed.

**Worker** (`index.ts`). The object is single-threaded: one step runs up to the next
`await`. `fetchPc` is the place of the fetch handler of a request, `pumpPc` that of its
body pump, and `headReady`, `chunks`, `ended`, `error` are the fields of `ConnBuf`. A
replaced session keeps its handlers, as in the code. A browser's messages between the object's `close()` and the
close event are handled like any other (`BrowserMessage`).

**WsHost** (`wsthost.go`, composed with `Worker`). `hostPc` is the place of `runOnce`, `hconns` the
map of connections, `local` the local socket, `rdPc` the goroutine that reads it. When
a connection breaks, each side notices for itself and what is on its way is lost. `HostConnects` is one step from
the handshake to the expose frame: the code sets `h.ws` and empties `h.conns` before it reads hello.ok (`wsthost.go:278-280`),
so a goroutine of an earlier connection may already write to the new WebSocket. The object has no entry for
such a frame and ignores it; in the model it is lost.

## 4. Runs

| run | instance | states | question |
|---|---|---|---|
| `ingress_safety` | 2 sessions, 2 host ids, 2 browsers, 2 channels, symmetry | 808 692 | who owns a browser, under every race of claim, timer, shutdown, replacement, teardown; refinement of `InboundLifecycle` |
| `transparent` | 2 sessions of one host id (one with tokens), 1 browser, 1 channel | 155 378 | what the host reads first; no announced browser is lost; every browser is handed over or closed, every attach answered; a replaced session ends |
| `splice` | 2 bytes up, 1 byte down, pipes of 1 byte | 52 754 | bytes, half-closes, resets, kills; refinement of `BytePipe` |
| `tunnels_safety` | 2 sessions of one host id, 2 clients, 2 tunnels, 2 frames per end, symmetry | 603 026 | late frames, simultaneous closes, leaks |
| `enrol` | 2 services, 2 machines, 3 credentials, 1 pair command, 2 faults | 357 936 | crashes and failures at every system call of the relay and of the machine; two services and one code or none; whether a saved credential is accepted when it comes back |
| `cf_path` | 2 host sessions, 1 request of 2 chunks each way or 1 WebSocket of 3 messages each way, the second empty | 245 912 | heads, bodies, cancels, reconnects; order of messages, common end |

Why the bounds are enough. A race in the relay has two participants of a kind (two
channels for one browser, an old and a new session of a host), and its properties
speak of at most two; the proofs of section 6 remove the bounds for every safety property. Two host ids let a session be replaced or be a stranger to the other one.
`transparent` has one browser, since its properties relate a browser to the frames and
the fate of its own host; two browsers and two channels are in `ingress_safety`, and a
stop of the relay, too. Two bytes in a
pipe of one let the second wait while the first is copied, so that the read-ahead holds
a byte while another is in the socket. Two services are the winner and the loser of
one code, and another machine may take the code from both (`OtherPair`). Two faults
(`MaxFaults`) allow a crash during the recovery from the first one; three credentials
allow two pairings that were lost. The proofs of `EnrolProofs` have none of these bounds. Two host
sessions are a host and its successor, in either order of arrival at the object. Two chunks
allow one to be buffered while the other one is read, and three messages put an empty
one between two others. `cf_path` has one browser connection at a time (`MCSpec`): the object and
the host handle connections independently of each other, but for the session they share.
`WsHostProofs` has any number of both at a time.
Deadlock is not checked: each model stops when its finite supply
of sessions, browsers, codes or bytes is used up.

Runs that end in a counterexample, each a disagreement of the code with what its
comments or docs say (`findings` in `PROJECT.json`):

| run | property | what happens |
|---|---|---|
| `ingress_claim_race` | `TimeoutSparesClaimed` | the 15 s timer fires between the claim and `close(rc.ready)`: the handler closes the browser under the channel that claimed it (`ingress.go:76-80` against `data.go:27`) |
| `transparent_startup` | `PortOkFirst` | a browser arrives between `hs.local = ...` and `port.ok`; the host takes `inbound` for a rejection and ends (`thost.go:120` against `docs/protocol.md:75-78`) |
| `transparent_stale_teardown` | `AttachAcked` | a reconnecting host registers, a browser is announced to it, then the deferred section of the old session drops that browser by host id; the host's `data.attach` is closed without `data.ack` while the ingress handler still waits (`relay.go:208` against `docs/protocol.md:78-84`) |
| `pairing_lost_machine` | `PairedStaysPaired` | `piktak-relay pair` reads the state, the relay pairs a machine, the command renames the old list over it (`dynamic.go:71` against `dynamic.go:49`) |
| `enrol_forgets` | `SavedForGood` | a service reconnects and rewrites the credential file in place; the write fails or is cut off, and the credential is gone (`thost.go:99` against `README.en.md:173`) |
| `enrol_stops` | `EndsWhenCancelled` | SIGTERM while a service is online: `ReadFrame` ignores the context, and `Run` goes on until the connection breaks (`thost.go:128` against `thost.go:40-41`) |

More gaps are visible in the models without a run of their own. A running relay
never reads the state file again, so a code that `pair` prints meanwhile is accepted only after a
restart. Without `PIKTAK_STATE` a restart arms `PIKTAK_PAIR_CODE` again, so
a code can be used once per start. A hello.ok that is lost spends the code, and if a
`machine_id` is configured the machine cannot pair again under it. A stream that is reset at one
end of a splice is closed in order at the other one, so a response that broke off looks
complete. When the local WebSocket of a tunnel refuses, the browser receives
the text of a 502 answer as a message (`wsthost.go:621`). A browser that cancels
while no pull waits leaves its entry in the object until the next host attaches (`index.ts:532`).

## 5. Fairness

Safety is checked without fairness. The liveness properties assume

* *transparent mode* (`TransparentFairness`): goroutines run, a frame write returns, the timer of a
  `select` fires, a read on a connection the relay has closed fails, the relay reads the
  `data.attach` it was sent and the host reads what was answered. The read is strongly fair:
  frames that are buffered may be handled first, but there are finitely many. Nothing is
  assumed of browsers, no host has to connect or expose, no connection has to break, no splice has to end.
* *enrolment* (`EnrolFairness`): goroutines of `piktakd` and handlers of the relay run, `runServiceLoop` tries
  again, and a `Pair` or a `pair` command in progress gets to its rename. A relay that was stopped
  is started again: this is an assumption on who operates it, not on the code, and without it no service
  can come online. `piktakd` need not be started again, connections need not break, no fault has to happen. `ServicesComeOnline` ends
  with the service online, the process gone, or the credential lost (`enrol_forgets`).
* *splice* (`SpliceFairness`): copies run, dials return, and an end reads what it is sent. No end
  has to send, half-close or close: `SplicesEnd` therefore asks for both ends of the chain to be gone.
* *Cloudflare* (`Fairness` in `WsHost`): event handlers, polls and timers run; the local service
  finishes a response it began; the browser goes on reading; each side
  notices that the other one has gone (TCP and WebSocket close events). Hosts need not
  reconnect, so `RequestResolved` exempts a response whose host has gone: such a request
  really hangs in the code until the next host attaches.

The writes of the relay have no deadline in the code. That they return is therefore an
assumption on the hosts (they go on reading), not a fact of the code; see the hazard at
`ingress.go:61`.

## 6. Proofs

`IngressProofs` proves, for any sets of sessions, host ids, browsers and data channels and
from `SessionAssumption` and `ConnAssumption` only, that `IngressSafety` keeps `TypeOK`,
`CurrentSession`, `OneChannelPerBrowser`, `NoOrphanBrowser`, `HandedOffStaysOpen`, `ListedIsPending`,
`OnlyOwnHostDrops`, and that it implements `InboundLifecycle`. The inductive invariant
is `TypeOK /\ RegistryInv /\ OwnershipInv`.

* `RegistryInv`: the map entry of a host id is a running session that was not replaced,
  and each such session has its entry. `CurrentSession` alone is not inductive, since it
  does not say that a session that has not started was not cancelled.
* `OwnershipInv`: the handler owns the browser until a claim, the claiming channel
  from then on. It adds to the checked properties what each place in a goroutine implies for
  the socket, and that `ready` is closed by a channel past its hand-off only; without it a `handedoff`
  handler could not be traced to its channel.

The two halves change under disjoint steps but for the teardown, which is one step of both:
`RegistryStep` and `OwnershipStep` are proved apart. `LifecycleImplemented` shows that each step of
`IngressSafety` is an abstract step or a stutter, given the invariant.

`PairingProofs` proves, for any machines, credentials and commands, under `Regular` (there is a state file, and
`pair` is not run while the relay or another `pair` runs), that crashes and failing calls leave `TypeOK`,
`CodeUsedOnce`, `PairedStaysPaired`, `AcceptedIsDurable` and `StateFileWhole` true. The invariant
has three parts: `WriterInv` (one process writes, and the temporary file holds what it wrote),
`MachineInv` (file, memory and the command agree on the machines), `CodeInv` (a spent code is pending
nowhere). The assumption is needed: `pairing_lost_machine` is what happens without it.

`EnrolProofs` has any number of services, machines and faults. `Enrol` is built from the actions of
`Pairing`, so each of its steps is a step of `Pairing` or leaves its variables alone
(`EnrolStep`, `EnrolRefinesPairing`; no result in itself), and `CodeUsedOnce` and `PairedStaysPaired`
carry over, under the same `Regular`. `SavedIsPaired`
needs two things more: the state file names only credentials that were returned (`KnownInv`), so that
what `Authorize` accepts was issued, and a service that waits for `Pair` is the one whose
request is in progress (`AskerInv`), so that the answer goes to it. `SavedIsAccepted` joins the two ends:
what a service presents was issued (`PresentedInv`, stated of the service, because the file may have changed
since it read it), and `PairedStaysPaired` has what was issued in the memory of every relay that reads it. `StatusTruthful` is proved from
`active = Cardinality` of the services online (`StatusInv`), which holds only because a service counts
itself out exactly when it had counted itself in.

`TransparentProofs` shows that a step of the relay among its bridge hosts is a step of `Ingress` or
leaves the relay alone (`RelayStep`), so that `TransparentSafety` implements `IngressSafety`
(`RelayImplemented`) and every theorem of `IngressProofs` carries over, the refinement of
`InboundLifecycle` included (`RelayAmongHosts`). `HelloOkFirst` and `InboundDelivered` are about the
queue between the two. They need three parts more: how far a host can be, given what the relay
has done with its session (`StartupInv`); that a browser is given only to a session that has exposed a
port (`PickedInv`), without which an `inbound` could overtake `hello.ok`; and that an idle
goroutine of the host has no browser (`ChannelInv`).

`TunnelsProofs` has any numbers of hosts, clients, tunnels and frames. As far as the frames go, a
step does nothing, leaves one write to do, leaves the two writes that close a tunnel, or delivers
a write (`StepKinds`), and the parts about frames follow kind by kind. `TrafficInv` says that a
frame, delivered or pending, goes between the two ends of the tunnel it names: `FramesFromOwnHost`
alone says nothing of the frames that are still in `out`. `CloseInv` counts the close of a tunnel
to an end in both places, at most once together, and exactly once when the tunnel is closed and the
end can still receive; `CloseToldOnce` is what is left of it when nothing is pending.

`WsHostProofs` has any number of host sessions, requests, tunnels, chunks and messages. The
properties about data are not inductive: they speak of what a reader has had and not of what is
under way to it. `Link` of `FrameChains` is what joins the two: the data frames of a connection
in a queue continue what its reader has had, without a gap and in order; an end comes behind all of
them; and as long as the session is attached, what was sent and not had is in the queue.
The lemmas of `FrameChains` say what appending a frame or taking the first one does to `Link`, for
one connection among others in the queue. `UpInv` and `DownInv` apply it to the two directions, and
`EndedInv` to a response that ended. The other parts say when a link can be relied on:

* `SessionInv`, `LatestAttached`, `ConnsOfLatest`, `StartedInv`: one session at a time is the one the object
  sends to, and when another session attaches, what the old one had started is given up first. A
  frame of the old one therefore finds no entry, and cannot continue a new stream.
* `AnnouncedInv`, `NewInv`, `DiallingInv`: `inbound` comes before all else about a connection, so the host
  has a socket or has refused when data arrive, and a link starts empty.
* `EndInv`, `LocalInv`, `DownFramesInv`: a body ends once, the reader of the local service starts once
  and is done when `data.end` is sent.

From `IInv` follow `TypeOK`, `LatestAttached`, `ConnsOfLatest`, `EntryHasHandler`, `RequestWhole`, `ResponseFaithful`
and `MessagesInOrder`. Order is stated as `InOrder(s, ns)` — strictly increasing numbers of `ns`, with none
left out below another — and not with a recursive filter, so that it can be reasoned about.

`SpliceProofs` has any number of bytes and any capacity, and shows that a data channel implements
`BytePipe` (`PipeImplemented`). The argument goes from the sink to the source. What an end has got says
which byte is first on the last connection; that connection says which byte the copy before it has in
hand, that one which byte is first on the connection before, and so on to the number of bytes sent
(`FlowInv`). A copy that lost a byte — it was killed, or it wrote to a connection that was reset — is not
`Linked` any more, and nothing is claimed of what is before it: it writes no more, so no later byte
can pass the lost one. The other parts say when that can be relied on:

* `PlaceInv`: a copy runs only while its process splices, and only a copy that runs has a byte in hand.
* `AckInv`: `data.ack` is in front of all bytes and is read before the splice, so it is never taken for data.
* `BoundInv`: nothing is on the way that was not sent.
* `OrderlyInv`: as long as nothing broke, no connection is reset, no socket is closed that someone still
  writes to, and an end of stream is sent behind the last byte. An end of stream at the sink then means
  that all three connections and both copies are empty (`EndBehindBytes`).

To be reasoned about, `Room` counts `data.ack` apart (`Framed`) and uses no recursive filter.

Only model-checked: liveness, for every module, since liveness under fairness is out of reach of the
prover.

## 7. Not modelled

* Static pairers, the Access gate, the routing shell and the header filters: decisions without
  state. Of `handleHello`, the answers to another protocol version, to a hello without code and
  credential, and to an unknown role, which no driver of the repository but the native ones gets.
* The native drivers. Their hello carries a `code` and neither `pairingCode` nor `credential`
  (`host.go:42`, `client.go:43`), and `handleHello` answers `PAIRING_REQUIRED` (`relay.go:141`): with
  this relay their later steps are not reachable. `Tunnels` takes their frames as inputs.
* The framing of HTTP responses in `readResponse` (length, chunked, eof): text processing that a
  test of the function reaches; a response is a sequence of chunks.
* Sockets that block, except in `Splice`: every other write is possible at once. This hides the read
  loop of the WebSocket host waiting on one local service, and relay goroutines waiting on a peer
  that does not read a frame.
* A stop of the relay in `Transparent` (it is in `Ingress` and in `Enrol`), and a host that
  tries again there (its successor is another session).
* `piktakd`'s configuration, the guess of a protocol and the length of the back-off; the request
  counters and the server of the status page; examples, site and packaging.
* Services without a name: the relay registers one as `host-N` when it pairs and under its machine when
  it comes back, so two of them then replace each other.
* Data races on `conn.finished` and `host.ws` in the WebSocket host beyond a frame lost on a dead
  connection, and WebSocket responses without limit in the object's buffer (`index.ts:620`).
