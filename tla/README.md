# usque in TLA+

usque is a client for Cloudflare's MASQUE (CONNECT-IP) service: it moves IP
packets between a TUN device (or a userspace network stack) and a QUIC or
HTTP/2 connection, and keeps that connection up. This directory holds a model
of it: TLA+ modules, TLC configurations for small instances, and proofs
that TLAPS checks. Paths below are relative to the repository root.

## 1. The system

| Part | State it keeps | Operations | Talks to |
|---|---|---|---|
| Tunnel supervisor, `api/tunnel.go` `MaintainTunnel` | one connection at a time: `errChan`, `pumpCtx`, `ctxShutdownDone`, `readMu`, `wg`; the socket and transport it must close | dial, start watcher and pumps, wait for the first error, tear down, sleep, again | connect-ip (calls), device (calls), owner (ctx, `OnStateChange`), hooks |
| Device pump, network pump, watcher (same file) | a packet buffer each | device → connection, connection → device; turn a cancel into an error | share the above |
| Connection set-up, `api/masque.go` | none | `ConnectTunnel` over HTTP/3 or HTTP/2 | supervisor, connect-ip |
| CONNECT-IP connection, `connect-ip/` | `closeErr`/`closeChan`, assigned addresses, routes, the write queue | `ReadPacket`, `WritePacket`, `Close`, capsule reader and writer | QUIC or HTTP/2 stream |
| DNS rewriter, `internal/dns_hijack.go` | per shard a map, a ring of keys, a position | `RewriteQuery` (device pump), `RewriteResponse` (network pump) | both pumps, also those of a connection that has ended |
| MSS clamp, resolver, noise (`internal/`) | none | pure functions; a race of DNS servers; random packets | pumps, proxies |
| SOCKS5 server, HTTP proxy, port forwarder | exchange table, two semaphores; nothing; nothing | UDP flows, TCP relays | userspace stack |
| BBR, Brutal (`internal/congestion/`) | packet queue, filters, sampler, modes, pacer | events of the QUIC stack | QUIC stack |
| Mobile binding, `mobile/` | `mgr`: ctx, done, device, socket, status | `StartTunnel`, `StopTunnel`, `GetStatus` | supervisor |
| Route manager, interface updater (`cmd/route*.go`, `api/interface_updater.go`) | rules added, DNS backup; selected interface | `Setup`, `Cleanup`; `Update`, `Get` | operating system |
| Configuration, account API, commands | files | decode, register, enroll | one request after another |

`PROJECT.json` lists every part with its sources, what is modelled of it, and,
under "hazards", each place where this code is hard to test.

**What is hard.** Per connection four goroutines and the supervisor share one
error channel of two places, two contexts and one connection, and end each other
in every order (`api/tunnel.go:393-578`). The wait for the pumps is bounded by
a grace, so goroutines of an old connection run beside those of the next one.
The dial can fail after it has made some of its resources. A lost connection
reaches the supervisor on different paths over HTTP/3 and HTTP/2. The DNS
rewriter is called by two pumps (four, around a reconnect), keeps a map and a
ring that disagree by design, and meets lost, late and reordered answers.

**What makes each part correct.**

- Supervisor: every error finds a receiver or room; a pump never stops without
  the supervisor learning of it; `ctxShutdownDone` is closed exactly once;
  between two dials what the first made is closed, but for a QUIC connection on
  the caller's socket, which is never closed; a cancel ends `MaintainTunnel`, and with the device closed it ends every
  goroutine; a loss is noticed without outbound traffic.
- CONNECT-IP connection: `closeChan` closed once, `closeErr` set before; a
  request is answered or refused; the latest assignment is what a notified
  reader sees.
- DNS rewriter: the maps stay bounded; a reply is restored to what its socket
  asked; a shard, its ring and its eviction are invisible but for entries lost
  when a shard is full; other packets are untouched.
- Mobile binding: one tunnel at a time, each descriptor closed and never under
  its user by a call that was given another one, no word of a tunnel after its "stopped".
- Route manager: what is set up is undone (but for one rule, see 5) or can be
  undone by a later run, the
  original resolver configuration survives a crash.
- Relays and SOCKS5: the end of the peer that decides ends both directions, the
  semaphores are given back, every socket has one owner and every exchange in
  the table a live one.
- BBR: the packet queue keeps packet numbers and entries aligned, the filter's
  best is recent, every packet the sampler was told of is accounted for once and none is
  found that it was not told of, no window falls
  below its minimum, mode and gains belong together.
- Pure parts: the prefixes of a range cover it and nothing else; a clamped SYN
  keeps a right checksum.

## 2. Modules

### Tunnel (`api/tunnel.go`, with `api/masque.go` and `connect-ip/conn.go` seen from it)

What the code declares inside its loop is a function on `Dials`, the indices of
the dials that yielded a connection; a goroutine of dial `c` keeps using the
channels of `c` after the supervisor has gone on.

| In the model | In the code |
|---|---|
| `sup` | where `MaintainTunnel` is between two blocking points or two effects others can see |
| `watcher[c]`, `dev[c]`, `net[c]` | the goroutines of lines 404, 423, 503 |
| `errChan[c]` | how many errors are buffered in `errChan` (2 places) |
| `cancelled[c]`, `ctxDone` | `cancelPumps` was called; the caller's context is done. `pumpCtx.Err() != nil` is their disjunction |
| `conn[c]` | `ipConn`: open; broken (the session is gone, `closeChan` not yet closed); half (`closeChan` closed by the control stream, datagrams still arrive); closed |
| `open`, `held` | how many sockets and transports exist; which of `udpConn`, `tr` are non-nil |
| `quic` | the dials whose QUIC connection (`quic.Dial`, `api/masque.go:171`) lives on an open socket |
| `readMu[c]` | the mutex of line 396 |

A step is what one goroutine does up to the next point where another can see or
block it. Blocking calls are a state: the call returns, with success or an error,
in an action of its own. `ReadPacket` of the device and `sleepCtx` choose
nondeterministically where the code uses Go's `select` or the kernel.
The HTTP/3 dial is two steps: `QuicDial`, which makes the QUIC connection, and the
connect-ip request on it, which succeeds (`DialSucceeds`) or fails (`RequestFails`, which
closes the connection). `ConnectTunnel` does not return that connection. `CloseIpConn` closes only the
stream and `Release` only transport and socket, so that it ends in `Release` with the
dial's own socket, or by itself (`SessionLost`, `SessionEnds`).
`DevWrite` keeps the supervisor's rule that only a `CloseError` ends the pump;
a packet that cannot be proxied is no error even on a closed connection.

### DNSPackets, HijackTable, DNSRewriter, DNSClients, MCDNS (`internal/dns_hijack.go`)

`DNSPackets` says what the code reads of a packet and which packets pass which
test. Note `HasPorts`: of an IPv4 packet the protocol is not looked at, and
`IsQuery` tests for fragments in IPv4 only; both are the code's. `DNSRewriter`
holds `pending`, `ring`, `pos` per shard; `RewriteQuery` and `RewriteResponse`
are one step each, since all they do to a shard happens under its mutex.
`HijackTable` is the promise: one table, no shards, no ring; only a query that
finds `Capacity` entries may forget one. `DNSRewriter` implements it with the
mapping `table[k] = pending[ShardFor(k.port)][k]`: this is where it matters that a
query and its answer pick the same shard from different header fields.
`DNSClients` is the environment: sockets that ask, a target that answers,
packets lost and overtaken, packets of others, and packets of another protocol
that the rewriter takes for a query (`Mistake`). `waiting` counts a socket's
answers to come, `overlapped` and `lost` mark sockets that cannot count on theirs,
`older` is the order in which sockets asked last; the code has none of
them. The module is no part of the repository; it is marked external in the map.

### ConnLife, ConnectIpConn (`connect-ip/conn.go`)

`ConnectIpConn` is a `Conn` with the two goroutines `newConn` starts and its
callers: senders (`AssignAddresses`, `AdvertiseRoute`), takers
(`LocalPrefixes`, `Routes`) and closers (`Close`).

| In the model | In the code |
|---|---|
| `session`, `sendOpen`, `recvOpen` | the QUIC connection; the two directions of the control stream. `readFromStream` closes the first when it returns (deferred `str.Close`), `Close` both |
| `closeErr` | `closeErr` and `closeChan`: set under one lock, and read only after `closeChan` was seen closed |
| `reader`, `stored`, `received`, `notify` | `readFromStream` between the store and the notification; what it stored; the one-place channels |
| `writer`, `req`, `told` | `writeToStream`; the request it took from `writes`; what it last wrote to the peer |
| `call`, `what`, `result`, `own` | a caller inside `sendCapsule`, its argument, its result channel; `peerAddresses` and `localRoutes` |
| `taker`, `seen` | a caller that has taken a token and not yet the lock; what was last returned |
| `unsure` | history only: kinds whose latest call failed, was given up or met another one |

Addresses and routes share nothing but the two goroutines, so they are two
`Kinds` of one action each. A caller that gives up leaves a request whose answer
goes into a channel nobody reads (`NoSender`). Before the first assignment
`LocalPrefixes` has no value and waits; in the model the initial value is
`Nothing`, which is also what an empty list says, so that "never returned" and
"returned nothing" need not be told apart. Over HTTP/2 (`ControlCapsules` FALSE)
neither goroutine exists and calls fail after they have stored.

`ConnLife` is what a user of the connection sees: open, broken, half closed,
closed, and one reason. Its four steps are those Tunnel takes for `conn[c]` without
the supervisor (`SessionLost`, `CloseChanClosed`, `ControlStreamFails`,
`HalfClosedEnds`); Tunnel's `CloseIpConn` is `HalfClose` and `Ended` at once, which
no goroutine of Tunnel can tell from the two, as a pump that reads a half closed
connection may fail either way. `ConnectIpConn` implements `ConnLife`.

### TunnelLife, Mobile (`mobile/mobile.go`, `fd.go`, `status.go`)

`TunnelLife` is one call of `MaintainTunnel` as its caller sees it: it reports
states, starts and loses pumps, and with `AlwaysReconnect` returns only after
its context is done; goroutines of its connections may outlive the return.
`Tunnel` implements it (run `tunnel_caller_socket`, theorem
`TunnelProofs!ImplementsLife`), and `Mobile` uses it per tunnel
(`UsesTunnelLife`), so the two modules meet in it and need no common state
space.

In `Mobile` a tunnel is named by the `StartTunnel` call that made it. The fields
`ctx`, `cancel`, `done`, `device` and `udpConn` of the manager are set and
cleared together, so `cur`, the call they belong to, stands for all of them.
`grip` is the copy a `StopTunnel` made before it let the lock go, `closes` the
channel the deferred `close(mgr.done)` of a goroutine was evaluated to. What is
done under `mgrMu` is one action; so `StartTunnel` is `Check`, `Open`, `Commit`,
and `StopTunnel` is `BeginStop` to `NotifyStopped`. `Finalize` is Go's finalizer
on the wrapper of a descriptor nothing refers to any more. `fd[s]` is the number of the
TUN descriptor that a call was given: calls may be given the same one, each wraps it
without a duplicate (`mobile/fd.go:14`, `api/tunnel.go:181`), and closing any of the wrappers closes
it for all, which `stale` records. The UDP socket is duplicated per call and needs no number. Traffic totals are
left out.

### SocksUdp, Relay, RouteManager, MCInbounds (`internal/socks5.go`, `cmd/run_inbound_*.go`, `cmd/route_*.go`)

`SocksUdp` is the UDP side of the SOCKS5 server: `ClientHandlers` and
`RelayHandlers` are the slots of its two semaphores, `exchanges` the table, `open`
the sockets. A handler looks its flow up, dials, sends the first datagram, enters its socket in
the table (over one that another handler entered meanwhile) and waits for a relay slot;
the relay reads until its deadline (`UDPTimeout`), closes its socket and then deletes
whichever entry the flow has.

`Relay` is one TCP connection through one of the three proxies. `near` is the
client, `far` the destination; each of two copiers ends with its source, or when
its socket was closed, and then closes what its proxy's code closes, in that
order: this differs between the three, and so does who ends the other.
There is no deadline.

`RouteManager` is the tun inbound around the route managers of four platforms. `Setup`
and `Cleanup` are sequences of commands to the host; a command carries what the
code does if it fails (`warn`, `fatal`, `undo`, `file`, `abort`), `host` is
what the operating system keeps, `mem` what the process remembers, `overTrace` a
history flag: an earlier process crashed or a command of it failed. The rules are a list,
as the kernel keeps them: `AddRule` appends, `DelRule` removes the first rule that `Matches`, that
is, has the attributes the request sets. A process may crash
between any two commands, within a file write too (`os.WriteFile` truncates
first), and be started again.

`MCInbounds` extends the three; a behaviour is one of them (`serves`), since they
share nothing but the program they are in.

### PacketQueue, WindowedFilter, BandwidthSampler, BbrSender, MCCongestion (`internal/congestion/bbr/`)

`PacketQueue` has the ring buffer and the packet-number-indexed queue over it, as
operators on a record. `WindowedFilter` is the windowed maximum with its three
estimates, with operators the sampler uses too and a small state machine that feeds
it any stream of samples. `BandwidthSampler` has the sampler, its points of
acknowledgement and the tracker of acknowledgement heights, driven by a connection that sends,
acknowledges and loses packets as quic-go does; `sentAt`, a plain function from
the packets in flight to their times, is the reference the queue is compared with.
The sampler is installed on a connection that runs: `Earlier` packets may have been sent before, of
which any may be in flight (their `sentAt` is 0) and be acknowledged or lost; and a packet may leave
the flight with neither (`LeavesFlight`). `strays` counts what the sampler does not see in this way.
The numbers are those of one packet number space, which is an assumption: see 5.
`ResetMaxAckHeightTracker` is a step of its own of the sampler, in which the aggressive profile of the sender
drops the acknowledgement heights. The loop
over the acknowledged packets is a recursive function of the packet number (`Acknowledged`).
`BbrSender` has the mode machine, the gain cycle, congestion and
recovery windows, round counting and app-limited exit; each event is an operator per step of
`OnCongestionEventEx`, composed in the code's order
(`Leaves(Stepped(...))`), so that a proof can follow a record through them. What
the sampler and the filter tell the sender is chosen freely in `BbrSender` (the findings of an
event, and the bandwidth-delay product out of `Products`; an acknowledgement without a
sample leaves the product at 0 if it was 0).
`MCCongestion` extends them; a behaviour runs one part.

### IPRange, MSSClamp (`connect-ip/iprange.go`, `internal/mss_clamp.go`)

`IPRange` is `rangeToPrefixes` on addresses of `AddressBits` bits: the loop is a
recursive function of the address it has come to. `MCConnectIp` puts it beside the connection in one run.
`MSSClamp` searches the options of a SYN, clamps and updates the checksum in
16-bit one's complement; the headers are reduced to the sum of their words.

### Proof modules

`TunnelProofs`, `DNSRewriterProofs`, `ConnectIpConnProofs`, `MobileProofs`,
`InboundProofs` (about `SocksUdp`), `RouteProofs` (`RouteManager`), `SamplerProofs`
(`BandwidthSampler`, and before it `WindowedFilter` and `PacketQueue`) and `BbrProofs`
(`BbrSender`) EXTEND the module they are about;
`DNSRewriterProofs` goes on to `DNSClients` and `ConnectIpConnProofs` to `IPRange`. Operators named as
variants in comments ("Variant: ...") are what the code would be with a
plausible bug; `PROJECT.json` pairs each with the property that notices it.

## 3. Runs

| Run | Instance | What it shows |
|---|---|---|
| `tunnel_h3` | HTTP/3, own socket, dial at once, 2 connections | types, `ReportNeverBlocks`, `ShutdownClosedOnce`, `PumpExitIsSignalled`, `ReleasedBetweenDials`; under fairness `ReturnsAfterCancel`, `LossIsNoticed`, `AllGoroutinesEnd` |
| `tunnel_idle_h2` | HTTP/2, waits for traffic before dialling | the liveness questions where only the pumps notice a loss |
| `tunnel_caller_socket` | the caller's UDP socket | `ReleasedBetweenDials`: transports closed, that socket never, the QUIC connection of a failed request too; `ImplementsTunnelLife` |
| `tunnel_device_readers` | as `tunnel_h3` | violation: two device readers on the open device |
| `dns_clients` | 4 sockets on one shard of 2 slots (and an empty shard) | types, `PendingBounded`, `ImplementsTable`, `SequentialClientsServed`, `FIFOWhenExact` |
| `dns_answers` | no overflow | violation: an answer from an address its socket did not ask for it |
| `dns_non_udp` | packets that are not UDP | violation: such a packet is rewritten |
| `connect_ip` | HTTP/3, 2 senders, 1 taker, 1 closer, 2 contents, 1 kind; all ranges of 5-bit addresses | types, `NoLostNotification`, `OffersEnd`, `SidesAgree`, `ImplementsLife`, `RangeCovered`; under fairness `AllEnd` |
| `mobile` | 2 `StartTunnel`, 2 `StopTunnel`, 2 descriptor numbers | `OneEngine`, `DescriptorsFollowEngine`, `StoppedIsTheLastWord`, `UsesTunnelLife`; under fairness `StopReturns` |
| `inbounds` | 2 flows, 2 handlers, 1 relay; one TCP connection per proxy; 4 platforms, 2 starts, 2 failing commands each | `ExchangesSound`, `CleanExitRestores`, `OriginalSurvives`, `OnlyTunnelDNS`; under fairness `HandlersEnd`, `TornDown` |
| `congestion` | filter, sampler and sender, each on its own | `FilterBounds`, `InFlightIsTracked`, `SamplesAreSound`, `WindowUsable`, `ModesAgree` |
| `mss_clamp` | IPv4, up to 2 option bytes before the MSS | violation: a wrong checksum after the clamp |

**Bounds.** `MaxDials = 2` is the least number at which goroutines of one
connection meet those of another, and everything a connection has is its own:
a third would repeat the second (the proofs have no such bound). Dials that fail
are not bounded. `NumShards = 2` lets a wrong shard exist; `MaxPerShard = 2` with
four sockets makes the ring wrap, the shard overflow and the map exceed the ring
(it reaches 3 = 2·2 − 1). `MaxWaiting = 1` still lets a socket have queries to two
servers on their way. `DNSClients.cfg` uses a VIEW without `io`, which only
records the latest call: no action reads it, and every property that mentions it
speaks of `io'`, which TLC evaluates on every step it generates.
`ConnectIp.cfg` has one kind, since two only share the goroutines (the proofs are
for any number), two senders so that calls meet, and counts nothing: calls and
capsules go on for ever. Five bits of address give every way a range can begin and end
within blocks, and the last address, which has no successor.
`Mobile.cfg`: two starts race between `StartTunnel`'s two looks, two stops race
for one tunnel or stop one each; a third tunnel meets its predecessor as the second does
the first. Two numbers let the two starts be given one or one each. Of the four states a tunnel can report two
(`Reported`) are enough to tell one report from another; the proofs are for any.
`Inbounds.cfg`: two handlers can dial for one flow at once, one relay slot makes
them wait for it; `MaxStarts = 2` is a crash and the start after it; with two failures per
start a command and the one that takes its place both fail. `UDPTimeout` is the code's
constant and names the one wait that has an end.
`Congestion.cfg`: `MaxRound` lets the filter's window of 4 pass twice; a ring of 2
has to grow and to wrap; a packet is lost when 3
later ones were acknowledged (`PacketThreshold`). `Earlier` installs the sampler at once or after two
packets, which may be in flight, acknowledged or gone; `MaxSilent = 1` lets one packet it was told of
leave without a word, before or between others. In the sender windows are counted in
small units: `MinPackets` to `MaxPackets` datagrams of 1 or 2 units, products 0
(no estimate) and 3 (above the minimum), gain cycles of 4 phases begun at two of them, the conservative and aggressive
profiles, which differ from the standard one on either side.
`MaxRecovery` bounds the recovery window: in GROWTH the code adds to it without
looking at the maximum, and `WindowUsable` says nothing of its upper end.
`MaxTime`, `MaxInFlight`, `MaxPacket` and `MaxBatch` stop the environment.

**Fairness** (`Tunnel!Fairness`). Goroutines that can run do (`WF` per
goroutine). Nothing is assumed of traffic: no pump is owed a packet or a
successful write. What is assumed of the environment is that a dial ends (the
QUIC handshake and idle timeouts; `net.Dialer`), that a read of a closed device fails
(`TunnelDevice.Close` is documented as safe beside `ReadPacket` and ends
it), that a read of a dead connection fails (QUIC idle timeout, TCP), and
that over HTTP/3 connect-ip's stream reader notices a dead session and closes
`closeChan`. `CancelCtx`, `CloseDevice` and the losses are not fair: they may
never happen. `ReturnsAfterCancel` asks for a closed device only where the
supervisor may be in its idle read, which no context ends.
In `ConnectIpConn` the goroutines run, and a read or write that the transport
holds up is only owed an end when the session is over (or, for the read, when
`Close` cancels it). No capsule, call, `Close` or cancelled context is owed.
`AllEnd` says, with more, that a lost session sets `closeErr`: this is Tunnel's
assumption on `CloseChanClosed`.
In `Mobile` a `StopTunnel` that has begun goes on, the goroutine gets to run, the listener
comes back, and `MaintainTunnel` returns after its cancel (`ReturnsAfterCancel` of
Tunnel, which asks for no closed device because the binding dials at once; `SF`, as
the goroutine may be reporting again and again). No
call is owed. In `SocksUdp` handlers and relays run, a
remote host falls silent in the end, so that the deadline of its relay expires,
and a handler that waits for the semaphore of relays gets it if it is free again
and again (`SF`; Go's channels serve senders in order). In
`Relay` goroutines that can run do; no peer is owed an end, so `TornDown` starts
from the end of the deciding peer. `RouteManager` and `MCCongestion` have no fairness and no
liveness question.

**Deadlock** is off in the Tunnel, `connect_ip`, `mobile` and `inbounds` runs: after a
cancel the supervisor returns, after its session a connection is done, after
the last call or connection nothing is left to do, and the system stops. It is
off in `congestion` and `mss_clamp`, which end at their bounds. It is on in the
DNS runs.

## 4. Proofs

`TunnelProofs`, from `TunnelAssumption` alone, for every `MaxDials`:
`TypeCorrect`, `ReportsNeverBlock`, `ShutdownIsClosedOnce`,
`PumpExitsAreSignalled`, `DialsReleaseTheirResources`. The inductive invariant
`IInv` ties program counters to channels. None of the properties is
inductive: `ReportNeverBlocks` needs `Loads`, the number of errors a connection
can still produce (buffered, being sent, or not yet decided) bounded by three
before the supervisor's receive and by two after; `PumpExitIsSignalled` needs
`Signals`, which says who cancelled `pumpCtx` and that he has not yet passed his
send; the resources need `Holdings`, which relates `open` to `held` per stage, and `Sessions`, which says whose QUIC connection may live;
`ShutdownClosedOnce` needs `Closes`; and every function needs `Fresh`, that
connections not yet dialled are untouched.

`DNSRewriterProofs`, from `PacketsAssumption` and `ShardsAssumption`, for every
set of packets, number of shards and ring size: `TypeCorrect`,
`PendingIsBounded`, `Implements`. `PendingBounded` needs `FewOrphans`: a map
holds keys that are in its ring and keys whose slot was written over
(orphans), and a slot is written over without forgetting its key only while
the map has room, so there are fewer than `MaxPerShard` orphans. `Implements`
needs `InOwnShard`, that a key is only ever in the shard of its port, and
shows for each call that it is the table's call of the same name.
Among the clients, with `ClientsAssumption` (answers to queries can arrive) and for
every `MaxWaiting`: `ClientsCallTheRewriter`, `SequentialClientsAreServed`,
`EvictionIsFIFO`. `OneAnswerAwaited` says that a socket which is not `overlapped` waits for at
most one answer, and that its entry still says whom it asked unless it is `lost`.
`RingFollowsOrder` compares two orders: if `j` asked before `k` and `j` has a slot,
`k` has one that is written over later. `pos` turns under it, so it is stated by the
distance of a slot from `pos` (`Rank`). That the evicted entry is the oldest then follows if every
slot holds a different entry, which is what `RingKeys(s) = Occupied(s)` and a full ring give by
counting.

`ConnectIpConnProofs`, from `ConnAssumption`, for any senders, takers, closers,
kinds and contents, with control capsules or without: `TypeCorrect`,
`NoNotificationIsLost`, `OffersAreRefused`, `SidesDoAgree`, `Implements`.
`SidesAgree` is not inductive: `Requests` says that the writer's request is that
of a caller that still waits and has no result, or of nobody, and `Alone` that
behind a kind that is sure there is at most one call and that it is the one that
stored last. `Implements` needs `Marked`: `Close` sets `closeErr` before it cancels the
stream, so datagrams never stop arriving on an open session without a reason. No other
goroutine's steps matter to it, since all of them close in the same way.

Its second part, from `AddressAssumption`, is `RangesAreCovered`: for any width of address,
and so for IPv4 and IPv6, the prefixes of a route cover its range exactly and overlap
nowhere. A recursive function is a CHOOSE, so `LoopExists` first makes one, from the end of
the range downwards; `LargestPrefix` shows that `findLargestPrefix` stops at a
prefix that fits, and `AlignedMembers` that an aligned prefix holds the addresses from its own to
its last. `PrefixesCover` is then induction over how far the loop is from the end. The
induction theorems of the library cannot be used (they take an operator), so `Induction`
is stated over a set of numbers, from the well-foundedness of `<`. The sizes are powers of
two only in that they are positive and that the smallest is 1 (`PowersOfTwo`).

`TunnelProofs!ImplementsLife` shows, from the same invariant, that every step of the
supervisor is one of `TunnelLife` or a stutter: with `AlwaysReconnect` no
branch returns before the context is done.

`MobileProofs`, from `MobileAssumption`, for any number of calls:
`OneEngineAtMost`, `DescriptorsDoFollow`, `StoppedIsLast`, `UsesLife`. Its `IInv`
conjoins `TypeOK` with `Opened` (which descriptors a call has made by when),
`Owned` (what belongs to the tunnel in `cur`), `Exclusive` (one `StopTunnel`
between `BeginStop` and `Clear`, which is why the copied fields are still the manager's),
`Stages` (what each stage of a stop has done), `Held` and `Numbers` (a closed number was
closed by a wrapper of that number). Without `Exclusive` no step after
`BeginStop` can be said to work on the current tunnel.

`InboundProofs`, for any flows and slots: `ExchangesAreSound`.
`HandlersOwn`, `RelaysOwn` and `Owned` give every open socket one owner; `Entered` says
whose socket may be in the table and when, without which nothing relates an entry to
the relay that will take it out.

`RouteProofs`, for any first rule, and any number of starts and failures: `CleanExits`,
`OriginalIsKept`, `OnlyTheTunnelAnswers`. What is left to do is always the end of a
script (`EndsWith`), so the invariant says what the host holds as a function of how many
commands are left: `ConfAt` and `RestoredAt` for `resolv.conf` and its backup, `StagedAt` for
the transaction of the firewall, `Leftovers` for rules and routes whose command to remove
them is still to run. Of the rules this excepts the last, which matches the one before it too:
`RuleMatches` shows that the request for any other rule matches that rule only,
`RestMatches` what the last one matches, and `DelRuleFacts` what a deletion leaves of the list. None of the three properties is inductive: they do
not say how much of a script is left, and so not which of the two files is whole or what
is still to be undone. `SetupShape` and `CleanupShape` show of each platform's script
that it ends as the invariant wants; `EffectKeeps`, `FileEffects` and `FirewallEffects`
say what a command does. A failed command only matters to the firewall and to types: the other
promises are made of runs without one.

`SamplerProofs` has three parts. For any window, samples and rounds: `FilterIsBounded`.
`Ordered` says how the estimates relate in value and time, `Sound` that a sample of
a later round than an estimate's is not above it.

Its second part says of each operation of the ring and the queue what it does to their
contents, whatever their size and wherever the front lies: `RingAt` before and after
(`PushBackIs`, `GrowIs`, `PopFrontIs`), and over it the slot of each packet number
(`EmplaceIs`, `RemoveIs`, `ClearupIs`). A queue is `Loose` while `RemoveUpTo`
is under way, when its front may be absent.

On it stand `PacketsAreTracked` and `SoundSamples`, for rings that begin with any size, for any
packets in flight when the sampler is installed and any sent after, from `SamplerAssumption`. Neither property is inductive. `Tracked` is, once `LeastIs` has
shown that what the sender calls obsolete is never in flight; that is where the threshold
of quic-go must be no more than 3. `Lines` adds to the promises about samples what they
rest on: the two recent points are in order and not beyond what is acknowledged; the
candidates are in order and not beyond the point that may be pushed next; the totals noted in the
entries rise with the packet numbers; and the front candidate is not beyond what had been
acknowledged when any packet newer than the largest acknowledged was sent. `Fresh` is about a sampler that keeps candidates before it has
the first: then nothing was acknowledged that the sampler was told of, and no packet in
flight can give a sample. An event
is a fold over its packets: `Midway` is what holds after those up to a number, `AckStep` and
`SkipStep` carry it on, and `AcknowledgedIs` makes the function and then the induction.

`BbrProofs`, for any sizes of windows and datagrams: `WindowsAreUsable`, `ModesDoAgree`.
`SInv` is types, windows and modes together; an event is a record
handed on from step to step, and the lemmas say what holds of it before the
full bandwidth is looked for (`Early`), after it (`Later`) and at the end (`Done`).

**Only model-checked:** liveness (`ReturnsAfterCancel`, `LossIsNoticed`, `AllGoroutinesEnd`,
`AllEnd`, `StopReturns`, `HandlersEnd`, `TornDown`), which needs ENABLED.

## 5. What the code does otherwise than it says

Four runs expect a violation; `PROJECT.json` quotes the lines.

- `readMu` does not serialise readers of different connections, as the comment
  at `api/tunnel.go:186` and the log line at 570 say: it is declared inside the loop. The reader
  that is left over takes a packet, sees its context is done and drops it.
- `udpOffset` takes every IPv4 packet for UDP.
- An answer is restored from the latest query of its socket, not from the query
  it answers.
- The MSS is added to the checksum as one word, also when it begins at an odd
  offset (`internal/mss_clamp.go:91-99`); with `MaxBefore = 0` the property holds.

Seen while modelling, without a run:

- `connect-ip/conn.go:147-156`: of two overlapping calls of
  `AssignAddresses` the filter may keep the one and the peer be told the other,
  and a call that fails (always, over HTTP/2) has changed the filter;
  `SidesAgree` states when the two agree.
- The QUIC connection of a dial that succeeded is closed by nobody (`api/masque.go:171`;
  `ipConn.Close` closes its stream). It ends with an own socket; on the caller's it goes on beside
  the next dial's and after the return, until a timeout, its peer or `StopTunnel` (which closes the
  duplicate next, `mobile/mobile.go:318`) ends it. The comment at `mobile/mobile.go:305-307`
  says that after the return nobody touches the socket.
- The same comment says that the caller may reuse the numbers. A `StartTunnel` that was refused or lost
  the race leaves a wrapper of its number to the finalizer, which may close that number under the
  tunnel of another call that was given it, or after `StopTunnel` under the next owner.
- DNS: the eviction is not "oldest first" when the map holds keys without a slot (such an
  entry is never evicted), nor when a key answered and asked again sits in an
  older slot; `FIFOWhenExact` states the condition under which it is.
  `SequentialClientsServed` states what a resolver may count on. `adjustChecksum`
  (`internal/dns_hijack.go:298`) may leave 0 in a UDP checksum in use.
- Mobile: "stopped" is told to the listener after the lock is let go
  (`mobile/mobile.go:330`), so it may come after the next tunnel's "connecting";
  a pump that outlives its tunnel stores its totals in the next one's status (248); the
  guarantee of the comment at 303-306 does not hold when the grace expires; a
  `StartTunnel` that lost the race (178) leaves its descriptors to the finalizer.
- Route manager: on macOS the clean-up sets a service's DNS to "empty" where it may have
  had servers (`cmd/route_darwin.go:150`); the backup of `resolv.conf` is removed
  even if it could not be restored; after a crash the
  endpoint's route stays on macOS and FreeBSD, and adding it again is fatal on macOS; a
  start after a crash backs up the tunnel's own `resolv.conf` over the original. This is
  why `OriginalSurvives` speaks of hosts without a trace of an earlier
  failure (`overTrace`). A clean exit on Linux leaves one rule: the request that deletes the last IPv6
  rule, without interface and source (`cmd/route_linux.go:220-224`), takes the one before it (210-218) of the same
  priority, and the next request finds none. `CleanExitRestores` allows exactly that rule. The fall-back of `cleanupRules` by priority is not reachable.
- Relays: the end of the side that does not decide is not passed on to the other
  (`cmd/run_inbound_httpproxy.go:141`, `cmd/run_inbound_portfw.go:171`, the side goroutine of
  `internal/socks5.go`). A failed start-up self-check (`cmd/run_inbound_portfw.go:92`) ends the
  program also when it should always reconnect.
- Dials over HTTP/2: each makes an `http2.Transport` (`api/masque.go:230`) whose pool nobody closes, so the TCP
  connection stays after its stream. It is no resource of `Tunnel`.
- BBR: quic-go tells the controller packet numbers without their number space, and the queue holds one
  packet per number. `BandwidthSampler` assumes that what is sent and acknowledged after the installation
  is numbered in one space; a handshake packet still in flight then would pass for the
  application's packet of its number, and `InFlightIsTracked` would fail.
- Sampler: an aggregation event inserted again at a new height carries no round
  (`bandwidth_sampler.go:206-210`), so its round is 0; after reordered acknowledgements the
  older point of the rate may be later than the packet's sending, and `SamplesAreSound` says
  what holds of the newest. `startNewAggregationEpochAfterFullRound` is never set.
- Filter: of the samples of the best's own round a better one may be dropped after a
  promotion; `FilterBounds` is strict for later rounds only.
- MSS: with an MTU below 40 the maximum is negative and becomes a large `uint16`: no
  clamping. `IPRoute.Prefixes` is called by nothing in the repository; it is its public API.

## 6. Not modelled

- Of the tunnel: byte totals and `OnTraffic` (two pumps add without a lock; a
  number shown to the user), the noise goroutine, `NetBuffer`, packet
  contents, connect-ip's packet filter, HTTP/2 framing, TLS: parsing or arithmetic
  on bytes without a state the properties could relate.
- The Windows device: calls of a ring buffer in the host. Its contract, that a read fails
  after `Close`, is an assumption of Tunnel.
- Hooks' child processes: which hook is launched when is in Tunnel; `RunHook`
  starts a goroutine per hook and the order in which they run is the host's.
- Capsules and ICMP replies: encoding without state; a capsule is a value in
  `ConnectIpConn`.
- SOCKS5's idle TCP connection of a UDP association (`internal/socks5.go:317-327`), plain
  HTTP requests, the parsing of port mappings.
- The resolver: servers asked one after the other, or all at once for the first
  answer; nothing is kept.
- BBR: the pacing rate (`bbr_sender.go:925-962`) and the pacer, the detection of
  overshooting (off by default), RTT statistics, debug output; `Remove` and
  `OnPacketNeutered`, which have no caller. Brutal: a rate from counters over five
  slots, in floating point.
- Interface updater: one function under one lock that scores names and addresses.
- Account API, registration, configuration, command line, research notes: sequential
  input and output, no state after start-up.
