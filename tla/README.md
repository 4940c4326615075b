# TLA+ models of the sagernet-core proxy core

This directory holds TLA+ models of the parts of `src/` that have concurrency,
failure handling or protocol sequencing worth model checking. Each model comes
with TLC configurations, the properties it checks, and mutants that show each
property can catch a fault in the code it models. `PROJECT.json` is the
machine-readable index. It lists the components, the runs, the mutants, the
map from every TLA+ definition to the source lines it translates, the findings
and the hazards.

## 1. Inventory

### Components, their state and their operations

| Component | Source | State | Operations |
|---|---|---|---|
| VMess outbound | `proxy/vmess/outbound/outbound.go` | server list and round-robin picker (shared by all connections); per connection: the dialled `conn`, the request header and its options, the activity timer, and the two relay tasks | `Process`: dial loop, request options, then `task.Run(requestDone, responseDone)` |
| SOCKS client | `proxy/socks/client.go` | picker; per connection: the request header (version, command, address), the handshake deadline, the timer, and the relay tasks | `Process`, `ProcessConn`: dial loop, SOCKS4/4a/5 request building (with DNS for SOCKS4), handshake, then TCP, UDP or UDP-over-TCP relay |
| Dial loop / server picker | `retry.ExponentialBackoff(5, …)` + `RoundRobinServerPicker` as called at `outbound.go:67`, `client.go:78,180` | the rotation index, shared across connections; per call: the attempt count | `PickServer`, `Dial`, back off, give up |
| Activity timer + `task.Run` | `common/signal`, `common/task` (not in `src/`, modelled from spec §4.5/§5) | the idle budget, the time since the last activity, the cancelled flag | `UpdateActivity`, `SetTimeout`, expiry; `Run` returns the first error, on cancellation, or when all tasks succeed |
| simple-obfs inbound | `proxy/shadowsocks/plugin/simpleobfs/server.go`, `http_server.go`, `tls_server.go` | the caching reader (bytes consumed so far, released or not), the upstream link, the fallback link | `processHTTP`, `processTLS`, `doFallback` |
| simple-obfs outbound | `simpleobfs/client.go`, `http_client.go`, `tls_client.go` | the buffered writer, the first payload, the response check | `processHttp`, `processTLS`, `tlsObfsClientConn.Read/WriteMultiBuffer` |
| Shadowsocks 2022 cipher | `proxy/shadowsocks/spec_2022.go` | per direction: one AEAD authenticator (subkey + nonce counter), shared by the length parser and the payload | `NewEncryptionWriter`, `NewDecryptionReader`, `EncodePacket`, `DecodePacket`, `deriveKey` |
| Blackhole outbound | `proxy/blackhole/blackhole.go` | response, keepConnection, timeout | `Process`: write the response, then interrupt, or drain until the timeout |
| Local DNS server | `app/dns/nameserver_local.go` | `ips`, `err`, shared by the caller and the lookup goroutine | `QueryIP` |
| Observatory status | `app/observatory/persist.go` | the `status` list under `statusLock` | `UpdateStatus` |
| gRPC raw connection | `transport/internet/grpc/encoding/raw.go`, `customSeviceName.go` | the stream and the `done` flag | `ReadMultiBuffer`, `WriteMultiBuffer`, `Close`; the `Tun` handler picks raw mode |
| ICMP ping sockets | `common/net/pingproto/pingproto.go` | none (one call) | `ListenPacket` |
| Config builders, key generation, generated gRPC/protobuf code, interfaces, plugin registration | `infra/conf/...`, `main/commands/all/genkey.go`, `*.pb.go`, `common/environment/proxy.go`, `plugin/plugin.go` | none | pure translation or I/O. Not modelled (see §4), except the blackhole builder |

### How they interact

A dispatcher (outside `src/`) calls an outbound handler's `Process(ctx, link,
dialer)`. The VMess and SOCKS handlers first run the **dial loop**: up to 5
attempts with exponential back-off, each calling the **shared round-robin
picker**. They then build a protocol header and relay. The relay runs two
goroutines under `task.Run`, one per direction. Both share one cancellable
context and one **activity timer**. Every copied chunk pushes the timer's
deadline forward. When a direction returns, it narrows the timer to
`DownlinkOnly` or `UplinkOnly`. When the response direction succeeds, it closes
`link.Writer`.

The **simple-obfs inbound** reads the client's first bytes through a *caching
reader*. Once the HTTP-Upgrade or TLS-ClientHello disguise is recognized, it
dispatches to the upstream. When it is not, it hands the cached bytes to
`doFallback`, which replays them to the fallback destination and relays in
both directions. The **simple-obfs outbound** writes the disguise (an HTTP
request or a crafted ClientHello) and may carry the first payload inside it.

### What is hard

- Two relay goroutines race on one timer and one context. Deferred
  `SetTimeout`s run in either order. `task.Run` returns at the first error
  while the other goroutine is still running.
- Failure at every step: a broken connection, a peer that stops, an idle
  timeout, or an EOF during the 100 ms first-payload probe.
- The round-robin rotation is shared by all concurrent dial loops.
- Protocol sequencing in the obfs server: the order of dispatch, validation,
  cache release and fallback decides what the upstream and the fallback see.
- Request building in the SOCKS client: DNS resolution, version checks and
  UDP-over-TCP rewriting happen in a fixed order.
- Goroutines racing on shared variables: `QueryIP`'s result variables, and the
  observatory's status list.

### What makes each component correct

- **Relay (VMess, SOCKS):**
  - A clean end in one direction is passed on only after every chunk has been
    delivered.
  - A truncated stream never looks complete.
  - `Process` always returns, even when a peer stalls.
  - After one direction ends, the connection lives at most the half-close
    budget.
  - A clean client EOF is not an error.
- **Dial loop:**
  - A loop makes at most 5 attempts.
  - It ends with a connection or with an error. It never hangs.
  - While a reachable server exists, it should not give up.
- **Obfs inbound:**
  - Unrecognized traffic goes to the fallback, byte for byte.
  - Traffic that goes to the fallback is never dispatched upstream.
  - A recognized connection is relayed.
  - The result reports success truthfully.
- **SS-2022 cipher:**
  - A (key, nonce) pair is never used twice.
  - The reader accepts frames only in the writer's order.
- **Local DNS:** `QueryIP` returns either the lookup's answer or an error,
  never "no answer and no error".
- **Observatory:** at most one status entry per outbound, and every
  `UpdateStatus` returns.
- **gRPC raw tunnel:** the server reads, in order, what the client sent,
  and sees `io.EOF` only after the last message. A write sends or fails, and
  never panics.
- **Blackhole:** `Process` returns even when the client never stops
  sending.

## 2. Plan

The modules, in order of importance:

1. `ActivityTimer`: the shared idle timer (spec-modelled helper), composed by
   every relay. **Done.**
2. `VMessOutbound`: the relay phase of VMess `Process`.
   **Done.**
3. `DialRetry`: the dial loop of VMess and SOCKS over a shared round-robin
   picker, with several concurrent connections and reachable and unreachable
   servers. **Done.**
4. `ObfsServer`: `processHTTP`, `processTLS`, `doFallback` and the caching
   reader. Client inputs are drawn from a small set: a valid Upgrade GET, a
   non-Upgrade request with a body, garbage, a valid ClientHello with and
   without a session ticket, and a non-handshake record. The upstream dispatch
   may fail. **Done.**
5. `SocksRequest`: SOCKS request building (`client.go:95-142`) over every
   version, network, address family, UoT flag and DNS answer. **Done.**
6. `SocksRelay`: the SOCKS relays (packet address, UoT, TCP, UDP). It
   composes `ActivityTimer` the same way `VMessOutbound` does. `SocksClient` composes
   it with `SocksRequest` into the whole `Process`. **Done.**
7. `ObfsClient`: the HTTP and TLS outbound disguise, with the first-payload
   probe and response validation. **Done.**
8. `AEADStream`: the SS-2022 stream writer/reader with the shared nonce
   counter over a channel that can tamper, drop, duplicate and reorder. It is
   checked to refine `AuthenticatedPipe`: what the reader delivers is a prefix
   of what the writer sent. A smaller part covers `EncodePacket`/`DecodePacket`
   with salts. **Done.**

9. `LocalDNS`, `Observatory`, `GrpcRawConn`, `Blackhole`: small modules,
   each for one concurrency or error-path hazard. **Done.** `PingProto` is
   not modelled (see §4).

The project keeps to 12 runs. Passing runs of independent components share
a run through two MC modules that put components side by side (§3,
"Composite runs"): `MCTransport` (VMess, simple-obfs, SS-2022) and
`MCClientParts` (SOCKS, dialing, observatory, DNS, gRPC, Blackhole).

## 3. Modules and runs

### `ActivityTimer` (spec-modelled: `common/signal` is not in `src/`)

The variables are:

- `timeout`: the current budget, in ticks.
- `quiet`: ticks since the last activity or the last `SetTimeout`.
- `ctxDone`: the shared context has been cancelled.

The actions are:

- `Update`: `UpdateActivity`.
- `SetTimeout(t)`: switch to budget `t`.
- `Tick`: a tick passes with no activity.
- `Expire`: cancels the context once `quiet` reaches `timeout`.

The relay modules include this module with `Timer == INSTANCE ActivityTimer`,
sharing the three variables.

### `VMessOutbound` (`outbound.go:63-231`, relay phase)

The state starts after the dial loop has produced `conn`. `Init` chooses the
account's security type and `NoTerminationSignal`. `RequestOptions` translates
lines 107-129 and decides whether the end-of-request marker is written.

`requestDone` is a program counter with these points:

- `probe` (`ReqFirstPayload`): the header, then `CopyOnceTimeout`. The result
  is a chunk, a swallowed timeout, or `io.EOF`, which is *not* swallowed.
- `flush` (`ReqFlush`): `SetBuffered(false)`.
- `copy` (`ReqCopyChunk`, `ReqCopyEOF`, `ReqCancelled`).
- `signal` (`ReqSignal`): the empty chunk that marks the end of the request.

Every return of `requestDone` goes through `ReqReturn`. It models the deferred
`SetTimeout(DownlinkOnly)`.

`responseDone` has the points `header`, then `copy`. Every return goes through
`RespReturn`, the deferred `SetTimeout(UplinkOnly)`. `RespReturn` sets
`outClosed` only on success, as `task.OnSuccess(…, task.Close(output))` does.

`RunReturn` models `task.Run`.

The environment is made of the client (it sends chunks, then closes), the
server (it answers only a received header, sends chunks, then ends) and
`ConnBreak`. Data is abstracted to chunk counts: every copy in the code keeps
chunk order, so a count is enough to tell "everything" from "a prefix".

Fairness is weak fairness on the two task goroutines, on `task.Run` and on the
timer goroutine. The Go scheduler runs runnable goroutines. The client and the
server get no fairness: they may stall forever, and that is the case the timer
exists for.

| Run | Checks | Shows |
|---|---|---|
| `transport` (`MCTransport.cfg`, the `vmess` part) | `TypeOK`, `ResponseCloseMeansComplete`, `RequestEndMeansComplete`, `FirstPayloadKept`, `ProcessTerminates` | A truncated stream never looks complete in either direction. Until `requestDone` fails, the first payload is held behind the header and reaches the server after it, never lost at the flush. `Process` always returns, even with stalled peers. |
| `vmess_first_payload_eof` (`MCVMessOutbound_eof.cfg`, violation) | `ClientEOFIsNotAnError` | A client that closes its stream before the 100 ms probe makes `Process` fail, and the response is abandoned. |

The bounds are three security types (`AES128_GCM`, `NONE` and `ZERO`, which
covers both the chunk-stream and the raw case), either `NoTerminationSignal`,
two chunks each way, `IdleTimeout = 3`, `DownlinkOnly = 1` and
`UplinkOnly = 2`. With two chunks, a copy can stop between chunks, not only
before or after all of them. An idle budget larger than both half-close
budgets makes narrowing observable. No invariant states the narrowing
itself: it would restate the deferred `SetTimeout` and the timer's guard.
`ProcessTerminates` is what depends on it.

### `VMessRequest`: the request header and the body framing

`VMessRequest` models the part of `Handler.Process` that runs before and
inside the two task goroutines and decides how the body is framed. That is
the target check (lines 84-87), the command and header (89-108), the
packet-encoding choice for a UDP target (150-162), and the framing wrapped
around the body by `requestDone` (167-180) and by `responseDone` (206-220).

Addresses are abstracted to an IP, a domain, the Mux domain and the
packetaddr magic address. Ports are 0, 53, 443 and 8080, which are the
values the encoding guard tells apart. The header encoder and decoder may
fail; the model chooses either outcome. `Init` enumerates every target and
every configured encoding (`New`, lines 52-57).

| Run | Checks | Shows |
|---|---|---|
| `transport` (`MCTransport.cfg`, the `vreq` part) | `FramingMatchesHeader` | The writer uses packetaddr framing exactly when the header names the magic address. It uses XUDP framing exactly when the request was turned into Mux. The reader uses the same framing as the writer. |

### `DialRetry` (`outbound.go:63-79`, `client.go:78-90`, `client.go:180-192`)

`DialRetry` has one dial loop per connection in `Conns`. All the loops share
one picker, whose rotation position is `nextIndex`. Each loop has its own
`pc`, `picked`, `attempts` and `tried`. `interfered[c]` records that another
loop picked a server while `c` was dialling.

The actions are:

- `PickServer`: atomic, like the picker's mutex.
- `DialSucceeds` and `DialFails`: the dial's outcome depends on whether the
  picked server is in `Reachable`.
- `Backoff`: the retryer's sleep. The retryer lives outside `src/`, so this is
  modelled from spec §4.4.

Each loop is a goroutine, so it gets weak fairness. `Start` gets none: when a
connection arrives is up to the dispatcher.

`ReachableChoices` is the set of possible sets of live servers. `Init` picks
one into `up`, and it stays fixed for the run.

| Run | Checks | Shows |
|---|---|---|
| `client_parts` (`MCClientParts.cfg`, the `dial` part) | `DialTypeOK`, `LoneLoopTriesEveryServer`, `DialLoopEnds` | Every loop ends, connected or given up, whatever the other loops do to the shared rotation. A loop that no other loop disturbed has tried every server before giving up. |
| `dial_rotation_starvation` (`MCDialRetry_starvation.cfg`, violation) | `NoGiveUpWhileReachable` | The other connections' picks advance the shared rotation, which can make a loop dial only down servers 5 times while a server is up. |

`MCDialRetry` instantiates the module for the starvation run. `MCClientParts`
instantiates it with the same bounds for the passing run. The bounds are 3
servers and the code's 5 attempts. Either no server is up
(every loop gives up) or only server 3 is (loops connect, or give up when
starved). The passing run has 2 connections: enough for `interfered` and for a
loop that nobody disturbs, and it finishes in seconds. The starvation run needs
3 connections: with 3 servers, a loop misses server 3 in 5 attempts only if
other loops take its turn twice. Each of those loops connects and stops after
one such pick.

### `ObfsServer` (`simpleobfs/server.go`, `http_server.go`, `tls_server.go`)

The client's bytes are three segments:

- 1 is the disguise: the HTTP request head, or the TLS record with the
  ClientHello.
- 2 and 3 are the data after it. Segment 2 is the body when the request has
  one.
- `Ticket` is the session-ticket payload carried inside the ClientHello.

`pos` counts the segments read from the connection. `bufio.Reader` may read
ahead, so `HttpReadRequest` picks any `pos` from 1 to 3. `record.ReadFrom`
reads exactly one record. `used` counts the segments the handler has consumed.
The caching reader (not in `src/`, modelled from spec §4.6) holds segments
`1..pos` until `release()`.

There is one action per step of `processHTTP`, `processTLS` and `doFallback`.
Every early return into `doFallback` is a disjunct, and it takes the payload
that line passes: the cached bytes, or nil. The failures of `Dispatch`, of
writes and of relays are choices in the actions that make those calls.

Input classes:

- HTTP: garbage, a WebSocket GET with and without a body, a plain GET, a POST
  with a body.
- TLS: garbage, a non-handshake record, an undecodable ClientHello, a
  ClientHello with and without a session ticket.
- The fallback is configured or not.

| Run | Checks | Shows |
|---|---|---|
| `transport` (`MCTransport.cfg`, the `server` part) | `ObfsServerTypeOK`, `RejectedGoesToFallbackIntact`, `UpstreamGetsPayloadIntact` | Rejected traffic reaches the fallback whole and in order, whatever bufio read ahead. The upstream gets the payload in order. |
| `obfs_rejected_dispatched` (violation) | `RejectedNotDispatched` | A plain GET or a POST is dispatched upstream, and its body forwarded, before the WebSocket check sends it to the fallback. |
| `obfs_fallback_truncated` (violation) | `FallbackAlwaysIntact` | If the upstream dispatch fails, the fallback gets the stream without its first bytes (nil payload). |
| `obfs_tls_not_served` (violation) | `AcceptedIsServed` | An accepted TLS client gets no ServerHello (it stays in an unflushed buffer), and nothing is relayed. |
| `obfs_clean_end_error` (violation) | `CleanEndNotAnError` | A WebSocket relay that ends cleanly, with every byte forwarded and the peer closed, still makes `processHTTP` return "connection ends": `err` at `http_server.go:61` is the func `task.OnSuccess` returns, never nil. |
| `obfs_relay_never_idles` (violation) | `ProcessReturns` | A fallback relay whose peer stays silent keeps `Process` running forever: `doFallback` relays with `task.Run` and no inactivity timer. |

`peerClosed` is the remote peer closing its side. A relay ends cleanly
(`HttpRelayEnd`, `FallbackRelayEnd`) only once every segment is forwarded and
the peer has closed; it may fail at any point (`HttpRelayFail`,
`FallbackRelayFail`, grouped as `Faults`). Fairness is weak fairness on the
handler's own steps (`ProcessHTTP`, `ProcessTLS`, `DoFallback`): the
goroutine runs while it can. The peer's close and the relay faults are up to
the network and get no fairness, which is what lets a silent peer stall the
relay.

The model has no constants: the input classes cover every branch of the
handlers. A single `Process` runs per model, because the handlers share no
state between connections. The exception is the lazy `h.processor`, which every
caller sets to the same value.

### `SocksRequest` (`socks/client.go:165-328`, `63-162`)

This module covers `Process` and `ProcessConn` from the target check to the
choice of relay. `Init` enumerates the configuration and the target:

- the entry point and the SOCKS version;
- `uot`;
- whether the resolver implements `dns.IPv4Lookup`;
- the target's validity, network and address family;
- whether `packetaddr.ToPacketAddrConn` accepts the destination.

`ProcessConn` carries a `net.Conn`, so its targets are TCP. That is an
assumption about its callers, which are outside `src/`.

The request header is a record. Its address is abstracted to a family and an
origin: the target, the SOCKS4 DNS answer, or the UoT magic address. There is
one action per block of the code:

- `CheckTarget` and `Dial` (the dial loop is `DialRetry`).
- `Resolve`: the `Version_SOCKS4` case.
- `VersionCheck`: the `Version_SOCKS4A` case, reached by fallthrough.
- `UdpRewrite`.
- `Handshake`: includes the `AnyIP` fix. `ClientHandshake` is outside
  `src/`. Its `udpRequest` is the UDP ASSOCIATE relay address, or nil for
  CONNECT.
- `SelectRelay` in `Process`, and `CopyConn` in `ProcessConn`.

| Run | Checks | Shows |
|---|---|---|
| `client_parts` (`MCClientParts.cfg`, the `socks` part) | `TypeOK`, `RelayMatchesRequest` | The relay chosen speaks what the request asked for: UoT framing for the magic address, a raw stream for other CONNECTs, a UDP socket for UDP ASSOCIATE. |
| `socks_packetaddr_nil` (violation) | `NoNilDereference` | A packet-address UDP destination with `uot` set is sent as a CONNECT, and the packet branch dereferences the nil `udpRequest`. |

### `SocksRelay` (`socks/client.go:264-334`)

The relay `Process` runs after the handshake, for the relay `SelectRelay`
chose (`branch`):

- `packet`: the link carries packet addresses, and `udp.CopyPacketConn` runs
  each way over the UDP conn (lines 267-288);
- `uot`: UDP over the TCP conn (293-303);
- `tcp`: the TCP conn (304-312);
- `udp`: SOCKS5 datagrams over the UDP conn (313-327).

The actions follow `VMessOutbound`'s. `ReqCopyChunk`, `ReqCopyEOF` and
`ReqCancelled` are `requestFunc`'s copy. `ReqReturn` is its deferred
`SetTimeout(DownlinkOnly)`; the packet relay's `requestDone` has none.
`RespCopyChunk`, `RespCopyEOF` and `RespFail` are `responseFunc`'s copy.
`RespReturn` is the deferred `SetTimeout(UplinkOnly)` (again none for
`packet`) and `task.OnSuccess(…, task.Close(link.Writer))`. `RunReturn` is
`task.Run`. Only a TCP conn has an end of stream: a UDP reader returns only
on an error. `udp.CopyPacketConn` may return `nil` or `io.EOF` at the link's
end, so `ReqCopyEOF` chooses. Data is counted in chunks, as in
`VMessOutbound`. Fairness is the same too: the two task goroutines, `task.Run`
and the timer are weakly fair; the client, the server and the network are
not.

| Run | Checks | Shows |
|---|---|---|
| `client_parts` (the `relay` part, through `SocksClient`) | `RelayTypeOK`, `ResponseCloseMeansComplete`, `SocksProcessReturns` | `link.Writer` is closed only after the server's whole reply. `Process` returns whatever the server, the client and the network do. |

The packet relay has no deferred `SetTimeout`. After the client's side
ends, that UDP association stays open for the whole `ConnectionIdle` budget,
where the UoT, TCP and UDP relays narrow it to `DownlinkOnly`. An invariant
bounding the quiet ticks fails for it at once. No run is left for that, so
the hazard is listed in `PROJECT.json`.
Bounds: two chunks each way, `IdleTimeout = 3`, `DownlinkOnly = 1`,
`UplinkOnly = 2`, all four relays.

### `SocksClient` (`socks/client.go:165-334`)

`SocksClient` composes the two SOCKS modules into `Process`:
- `RequestStep` is any step of `SocksRequest`: the target check, the dial,
  the request, the handshake and the choice of relay.
- `StartRelay` is lines 264-265: the context and the activity timer are
  created, and `relBranch` is set to the relay `SelectRelay` chose.
- `RelayStep` is then any step of `SocksRelay`.

Before `StartRelay`, the relay's variables keep their initial values.
`ProcessConn`'s behaviours end at the hand-off to `rw.CopyConn`, which is not
in `src/`. Fairness: `Process` is one goroutine until `task.Run`, so its
steps and `StartRelay` are weakly fair. The relay keeps `SocksRelay`'s
fairness. `ProcessReturns` says `Process` returns: the request phase fails,
or the relay it started ends.

In `client_parts`, two parts share `SocksClient`'s variables:
- `socks` runs the request steps alone, over every version, network,
  family, UoT flag and resolver;
- `relay` runs the whole `Process` of a SOCKS5 client with a valid target.
  SOCKS5 is the version that reaches all four relays.

Running every configuration through the relay gives about 600,000 states,
and checking the liveness properties over them takes 13 minutes.

### `ObfsClient` (`simpleobfs/client.go`, `http_client.go`, `tls_client.go`)

One `Process` call. `Init` enumerates the environment:

- the mode;
- whether the dial succeeds;
- the outcome of the 100 ms first read of the link: data, a timeout, another
  error, or a reader that is not a `buf.TimeoutReader`;
- for HTTP, the server's response: 101 with `Upgrade: websocket`, 101 without
  it, 200, or garbage.

`MCTransport` gives the constants their values. The conn is a sequence of records, as the server's parser would see it: the
handshake (`hdr` or `hello`, with the smuggled payload), then data records.
The link's uplink is two MultiBuffers (`<<1,2,3>>`, `<<4>>`), the first longer
than one TLS record (`MaxTLSDataLen = 2`). The server sends two tunnel bytes,
so `bufio` can read ahead none, one or both of them while parsing the
response.

| Action | Code |
|---|---|
| `HttpDial` | dial, then `req.Write` into the buffered writer (lines 20-37) |
| `HttpFirstPayload` | `CopyOnceTimeout`, `SetBuffered(false)`, `task.Run` starts (40-45) |
| `HttpReadResponse` | `http.ReadResponse` via `br` and the 101/websocket check (51-58) |
| `HttpDownCopy` | `buf.Copy(buf.NewReader(br), link.Writer)` (59) |
| `TlsReadPayload` | `ReadMultiBufferTimeout` through the type assertion (17) |
| `TlsDial` | dial, ClientHello with SessionTicket, record write (19-73) |
| `TlsDownRead` | `tlsObfsClientConn.Read` with its nil parser (92-101) |
| `SplitRecords` | `WriteMultiBuffer`'s `SplitSize` loop, a RECURSIVE operator (103-119) |
| `UpCopy`, `UpEnd`, `DownEnd`, `RunEnd` | the two `task.Run` functions and its return |

| Run | Checks | Shows |
|---|---|---|
| `transport` (`MCTransport.cfg`, the `client` part) | `UplinkIntact`, `DownlinkIntact` | The handshake comes first and the server recovers the link's bytes in order, all of them on success. No tunnel byte that `bufio` read ahead is lost. |

The mutants each break exactly one property:

- a first payload written past the buffer;
- records one byte too long;
- a downlink copied from `conn` instead of `br` (the server's bug, see
  `ObfsServer`);
- the response check with `&&` for `||`.

### `AEADStream` and `AuthenticatedPipe` (`shadowsocks/spec_2022.go`)

`AuthenticatedPipe` is the abstract stream. The writer appends chunks. The
reader delivers the next undelivered chunk, or it fails and stops delivering.

`AEADStream` is the SS-2022 cipher. `NewEncryptionWriter` and
`NewDecryptionReader` are functions from a role (`size`, the
`AEADChunkSizeParser`, or `data`, the payload) to an authenticator. In the
code both roles get the same authenticator, so a chunk's length and payload
take consecutive nonces of one counter (`ctr`).

`AuthenticationWriter` and `AuthenticationReader` live outside `src/` and
follow spec 4.1-4.2 (`WriteChunk`, `ReadFrame`):

- Every Seal and every Open takes a nonce.
- A frame that does not open is fatal.

The AEAD is ideal: a frame opens when its subkey, its nonce and its kind
match and it is intact. Kind matters because the reader takes a fixed 18
bytes for a length and the announced size for a payload. 2-byte payloads,
the one size where a frame of one kind could be read as the other, are left
out.

An attacker acts at most `MaxAttacks` times. On the stream it can drop,
duplicate, swap or alter a frame, or inject a frame of another session under
the same key (`OtherSalt`). On the packet side it can alter or truncate a
datagram. A datagram's salt is fresh, so the model uses its payload as its
salt.

| Run | Checks | Shows |
|---|---|---|
| `transport` (`MCTransport.cfg`, the `aead` part) | `AEADTypeOK`, `NonceNeverReused`, `CleanStreamDelivered`, `RefinesAuthenticatedPipe` | No two frames are ever sealed under one subkey and nonce. Whatever the attacker does, the reader delivers an in-order prefix of what was written and nothing after a failure. With no attack, every chunk arrives. |

The bounds are 2 payloads, 2 chunks (4 frames and two rounds of the shared
counter), 5 frames in flight and 2 attacker steps. Two steps are enough to
combine a duplication with a swap, which is what a reader with a misaligned
counter would accept. The run reaches 366,588 states in about a minute.

Fairness: only `ReadFrame` is weakly fair, because the reader goroutine reads
while frames are buffered. The writer and the attacker are not fair.

The mutants each break exactly one property:

- a reader whose size parser has its own authenticator stalls on a clean
  stream;
- a writer whose size parser has its own authenticator reuses nonces;
- a `SubKey` without the salt lets another session's frames through;
- an unchecked `Open` decodes forged datagrams;
- a reader that skips the size parse returns length plaintext as data.

### `Observatory` (`app/observatory/persist.go:3-12`)

Probers call `UpdateStatus(outbound, result)` concurrently. Each prober
(`Probers`, two in the run) is a goroutine with its own `pc`, argument and
lookup result. `Call` picks the outbound and the result from small sets (two
of each). `MaxCalls = 2` per prober is enough for a prober to update an entry
it appended itself. Each step of the call is its own action, so that a lock
which did not exclude would show its interleavings:

| Action | Code |
|---|---|
| `Lock` | `o.statusLock.Lock()` (4): waits while another prober holds it |
| `Find` | `findStatusLocationLockHolderOnly` (7). It is not in `src/`; `FindStatusLocation` is a linear search by tag |
| `Write` | overwrite at `location`, or `append` (7-11) |
| `Unlock` | the deferred `Unlock` (5), then the return |

Fairness: `Find`, `Write` and `Unlock` are weakly fair, because a running
goroutine keeps running. `Lock` is strongly fair: in starvation mode,
`sync.Mutex` hands the lock to a waiter that has waited too long.

### `LocalDNS` (`app/dns/nameserver_local.go:24-48`)

`QueryIP` starts the lookup in a goroutine under `task.Run(ctx, ...)`, then
reads and rewrites the shared `ips` and `err`. `task.Run` returns when the
goroutine returns or when `ctx` is done, whichever comes first. The tuple
assignment `ips, err = ...` stores `ips`, then `err`, so these are two steps
(`LookupIps`, `LookupErr`). Each racy read sees the value stored so far.
`Init` enumerates the option (a family enabled or none) and the resolver's
answer: addresses, the "No address associated with hostname" error, or
another error. `Cancel` ends `ctx` at any point before `task.Run` returns.

| Run | Checks | Shows |
|---|---|---|
| `client_parts` (the `dns` part) | `LookupAnswerReturned`, `QueryReturns` | When the lookup finished first, the caller gets its answer, with an empty answer turned into `dns.ErrEmptyResponse`. `QueryIP` always returns. |
| `localdns_empty_answer` (`LocalDNS_AnswerOrError.cfg`, violation) | `AnswerOrError` | If `ctx` ends before the lookup stores its result, `QueryIP` returns nil, nil: neither addresses nor an error. |

### `GrpcRawConn` (`grpc/encoding/raw.go`, `customSeviceName.go:26-40`)

One stream. The client's metadata has `mode: raw` once, `mode` given twice,
or no `mode`. `SetHeader` may fail. `Dispatch` is the `Tun` handler: it serves
the stream as a `RawClient`, aborts it, or hands it to the gun handler.

The client is either a `RawClient` of this package or a peer outside `src/`
that marshals its messages correctly. A `RawClient`'s stream uses `rawCodec`
or gRPC's default proto codec. `ClientWrite` is `WriteMultiBuffer`:

- it drops empty buffers;
- `SendMsg` fails after `CloseSend`, before it marshals;
- otherwise `MarshalOutcome` decides what happens. `rawCodec.Marshal` asserts
  `v.(rawMessage)`, but `WriteMultiBuffer` passes a `*rawMessage`, so the raw
  codec panics. The proto codec returns an error.

`ServerWrite` is `WriteMultiBuffer` on the server's `RawClient` (the
downlink): `io.ErrClosedPipe` once `done` is closed, otherwise the same
marshal outcome as the client's, so a raw-codec stream panics there too. It
gets no fairness: the server writes only when the application has data.

`ClientClose` is `Close` on a client stream: `CloseSend`, and `done` stays
open. `ServerRead` is `ReadMultiBuffer` on the server:

- `io.EOF` once `done` is closed;
- the next message, with its non-empty hunks merged (`MergeHunks`);
- `io.EOF` after `CloseSend` and the last message;
- an error once the client process is gone.

`ServerClose` closes `done`. The client writes two MultiBuffers, the first
with an empty buffer between two bytes. Fairness: gRPC runs the handler, and
the server's reader goroutine keeps reading. Both are weakly fair. The
client's writes and both closes are up to the applications.

| Run | Checks | Shows |
|---|---|---|
| `client_parts` (the `grpc` part) | `RawUplinkIntact`, `ClientCloseReachesServer` | The server reads an in-order prefix of the bytes the client sent, and all of them before `io.EOF`. Once a raw-mode client closes, the server's reader stops, unless the handler has already panicked on a downlink write. |
| `grpc_raw_send_panics` (`MCClientParts_NoPanicOnSend.cfg`, violation) | `NoPanicOnSend` | The first `WriteMultiBuffer` on a raw-codec stream panics in `rawCodec.Marshal`, on the client's uplink and on the server's downlink alike. |

### `Blackhole` (`proxy/blackhole/blackhole.go:30-64`)

`Init` is `New` over a config `BlackholeConfig.Build` accepts
(`BuildConfig`): the response (none, or the HTTP 403 that writes bytes) and
`keepConnection`. The JSON `response` is absent, `none`, `http`, or a type
the config loader rejects, which fails the build and yields no handler. `Process` runs in one of two ways:

- Without `keepConnection`: `WriteResponse`, then `Sleep` if bytes were
  written, then `Interrupt`.
- With `keepConnection`: `Copy` discards what the client writes (at most
  `MaxChunks = 2` buffers) until the client closes. Its deferred `cancel`
  then ends `ctx`. `Deadline` is the `ConnectionIdle` timeout. `RunReturn` is
  `task.Run` returning on either event.

Fairness: `Process` and the copy goroutine are weakly fair, and so is the
deadline's timer. The client is not.

| Run | Checks | Shows |
|---|---|---|
| `client_parts` (the `bh` part) | `ProcessReturns` | `Process` returns even if the client never closes, because the deadline bounds the copy. |

### Composite runs: `MCTransport` and `MCClientParts`

These MC modules check several independent components in one run. A
variable `part`, chosen in `Init`, says which component a behaviour runs.
`Next` moves only that component. The other components keep a fixed initial
state, so the state spaces add rather than multiply. Where two modules use
the same variable name, `INSTANCE ... WITH` renames one of them:

- in `MCTransport`: the obfs server's `mode`, `pc` and `result`, and
  VMessOutbound's `result` and `delivered`, and VMessRequest's `pc`,
  `result`, `reqPc` and `respPc`;
- in `MCClientParts`: DialRetry's and Observatory's `pc`, and Blackhole's
  `sent` and `ctxDone`;
- in `SocksClient`: SocksRelay's `branch`, `delivered`, `result` and
  `ctxDone`.

Fairness is restated with `part = "x" /\` in front of each fair action, with
the component's own variable tuple as subscript. A component that is not
chosen can have actions that are enabled but never taken, and without the
guard such behaviours would count as unfair.

A liveness property whose premise holds in a component's fixed initial state
is stated as `part = "x" => ...`. `part` never changes, so this is a
property of the behaviours that run the component. A refinement property is
stated unconditionally: the abstract spec's variables stay still while
another part runs.

| Run | Parts | States |
|---|---|---|
| `transport` (`MCTransport.cfg`) | `VMessOutbound`, `VMessRequest`, `ObfsServer`, `ObfsClient`, `AEADStream` | 474,622, about 2 min |
| `client_parts` (`MCClientParts.cfg`) | `SocksClient` (as `socks` and `relay`), `DialRetry`, `Observatory`, `LocalDNS`, `GrpcRawConn`, `Blackhole` | 155,097, about 3 min |

Every mutant listed in `PROJECT.json` for these runs was checked under the
composite configuration, and each breaks its property there.

### Found while modelling, without a run

These defects are modelled faithfully, but no run is spent on them. Each is
plain from the lines named:

- `client.go:227` (and `:123`): the SOCKS4 IPv6 check tests the original
  target, not the address after resolution. A resolver that lacks
  `dns.IPv4Lookup` (v2ray's own has it) can put an IPv6 address into a SOCKS4
  request. `Resolve` then `VersionCheck` shows the path.
- `client.go:236` (and `:132`): the UoT rewrite comes after the SOCKS4
  resolution, so a SOCKS4 (not 4a) request can carry the magic domain, which
  that version cannot carry. `UdpRewrite` shows it.
- `tls_client.go:71` and `:98`: the client conn gets no parser, so the first
  downlink bytes reach `Parse` on a nil pointer. `obfsTLSParser` is not under
  `src/`, so `TlsDownRead` chooses between a panic and a pass-through.
- `tls_client.go:17`: the unchecked assertion to `buf.TimeoutReader` panics
  for any other link reader. `TlsReadPayload` goes to `panic`.
- `client.go:274`: the SOCKS packet-address relay sets no half-close
  timeout, unlike the other three relays (see `SocksRelay`).
- `http_client.go:20` and `tls_client.go:19`: the dialled conn is never
  closed. The obfs relay has no inactivity timer, so a silent peer keeps it
  open until the context ends.
- `spec_2022.go:29` and `:88`: spec.md says the salt is the anti-replay key
  and that a replayed salt is rejected. `newFilter` is never called, so
  `DecodePacket` opens a replayed datagram every time. `DecodePacket` in
  `AEADStream` accepts any intact datagram still on the network, which
  includes replays.

## 4. Not modelled, and why

- **Config builders** (`v4/ssh.go`, `cfgcommon/sniffer/sniffer.go`):
  one-shot, pure translation of JSON to protobuf, feeding no modelled
  component. They have no state and no concurrency. The blackhole builder
  is modelled, as `Blackhole`'s `Init`.
- **Generated code** (`command_grpc.pb.go`, `skeleton.pb.go`): produced by
  protoc.
- **`genkey.go`**: reads random bytes and prints them.
- **`environment/proxy.go`**: interface declarations only.
- **`plugin/plugin.go`**: plugin registration by name.
- **Anti-replay filter**: `newFilter` in `spec_2022.go` is never called in
  `src/`, so there is no use of it to model. The resulting divergence from the
  spec is listed above.
- **ICMP ping sockets** (`pingproto.go`): one sequential call into socket
  syscalls and `golang.org/x/net/icmp`. It has no state and no concurrency.
  What happens on its error path (a nil `*icmp.PacketConn` asserted to
  `syscall.Conn`) is decided by code outside `src/`.
- **`ConnHandler.HandleConn`** (called at `customSeviceName.go:33`) and
  **`pipe.Interrupt`** (called at `blackhole.go:55`): no implementation is in
  `src/`. The hazard `Interrupt` raises is listed with a note in
  `PROJECT.json`.
- **Cryptography**: AEAD sealing, BLAKE3 key derivation, SHA-1 WebSocket keys
  and base64 are taken as ideal. Models use only whether a tag verifies and
  whether two keys or nonces are equal.
