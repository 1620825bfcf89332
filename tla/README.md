# fips2go: TLA+ models, checks and proofs

fips2go puts a fips mesh node on an Android phone. A VPN service written in Kotlin owns a
TUN interface and drives a Rust library (`shim`) that runs the node, pumps packets between
the TUN fd and the node, answers DNS, filters inbound mesh traffic and carries some
clearnet and relay traffic itself. The parts are small; what is hard is that five kinds of
threads and Android's main thread share them, and that a session is rebuilt under the user's
feet whenever the network changes.

## 1. Inventory

| Component | State | Operations | Interacts with | Hard behaviour |
|---|---|---|---|---|
| Inbound firewall (`filter.rs`) | flow table, allowed ports | `note_outbound`, `allow_inbound` | called by the pump's reader and bridge | stamps read before the lock; table limit |
| TUN pump (`pump.rs`) | reader, writer, bridge threads; writer channel; one `live` flag and wake pipe per generation | `spawn`, `swap_fd`, `stop_io`, `join` | engine calls it; node's channels; forwarder and DNS send into the writer channel | swaps under traffic, leftover sentinels, threads blocked in `write()`, fds closed under threads |
| Engine (`engine.rs`) | `LIFECYCLE`, `ENGINE`, `STARTING`, `REBINDING`, the node thread, dup of the fd | `start`, `stop`, `network_changed` | called from connect, disconnect and rebind threads; owns pump, node, resolver | every step can fail, starts time out, callers overlap |
| VPN service session (`FipsVpnService.kt`) | `tunnelActive`, `connectAttempt`, `stopping`, `connectQueued`, `tunFd`, tunnel routes and app selection | intents, connect thread, disconnect thread, network callbacks, `onDestroy` | engine through JNI | disconnect between any two statements of connect, reconnect during teardown |
| Rebind queue (`rebindNode`) | `rebindRequested`, `rebinding` | request, worker loop | network callbacks, settings, connect | lost request between last look and giving up the slot |
| Mesh TCP relay (`meshtcp.rs`) | listener, slots, pipe loop, backlog, event channel | accept, pipe, half-close, drop | resolver dials it; smoltcp; Divert | backpressure, half-closes, three threads that must all end |
| DNS proxy (`dns.rs`) | sockets, upstreams, prefetches | `serve`, relay to responder, names, upstreams | pump sends queries | answers race timeouts, budget |
| Public names (`names.rs`) | resolver, caches, probes, Internet flag | lookup, set flag | DNS proxy, relay proxies | flag pushed while a resolver is built |
| Mesh HTTP and Divert (`meshhttp.rs`) | flow table, counter of open flows, one exchange | `open`, `claim`, the guard's drop, `get` | bridge, HostsSync, relay | a counter read without the table's lock; packets for a flow being opened or closed; a send that ignores the deadline |
| Mesh UDP (`meshudp.rs`) | sends and refusals counted | `query`, `ping` | bridge, public names | resends, late answers and refusals |
| Clearnet forwarder (`forward.rs`) | thread, stored shutdown permit, done channel, a task per flow | `spawn`, `join`, drop, accept loop | reader, ipstack, engine | a signal at any statement, wedged libraries, flows whose server is lost |
| Mesh names sync (`HostsSync.kt`) | one pending run, generation, hosts file | save, sync now, connect, disconnect, run | service, mesh HTTP | a cancel that hits the wrong run |
| Hotspot (`FipsVpnService.kt:398-735`) | join state, backoff | join, lose, scan | ConnectivityManager | callbacks of an old request |
| Underlying-network choice (`:850-970`) | candidates, current | callbacks | rebind queue | stale choice |
| Configuration (`config.rs`, `ConfigStore.kt`), packet helpers, log buffer, JNI surface, UI, identity store, updater, smoke test | - | - | - | sequential translation, rendering or I/O |

What makes each modelled component correct: the filter denies by default, never denies a
live flow and stays bounded; the pump neither loses nor reorders a packet across swaps, never
lets a live thread work on a closed fd, and can be stopped; the engine is one engine, whose
calls take effect one at a time, a restart in two steps; the session ends up on one tunnel or on none; no rebind request is
lost; the relay proxy is bounded, carries what it accepted, and ends when it is dropped; every
DNS query is answered, by the party that should, for as long as it should; a request over the
mesh gets its own replies, reports what happened and closes its flow; the forwarder can be
stopped from any state and tells applications what they lost.
`PROJECT.json` lists the components, the hazards at their lines, and the correspondence
of definitions to source lines.

## 2. Modules

| Module | Models | Composed of |
|---|---|---|
| `Filter`, `MCFilter`, `FilterProofs` | `filter.rs` | |
| `Pump`, `MCPump`, `PumpProofs` | `pump.rs`, with the node's channels and the engine's two callers of it | |
| `EngineApi` | what `start`, `stop`, `network_changed` promise (abstract) | |
| `Engine`, `EngineProofs` | `engine.rs` lifecycle; a swap or a join is one step with the outcomes `Pump` gives it | implements `EngineApi` |
| `VpnService`, `MCVpn`, `VpnProofs` | the session in `FipsVpnService.kt` | uses the engine as `EngineApi` describes it |
| `RebindFlags` | the two flags that `VpnService` and `RebindQueue` share | extended by both |
| `RebindQueue` | `rebindNode` statement by statement, any number of callers and workers; proved in `VpnProofs` | |
| `Relay`, `RelayProofs` | `meshtcp.rs` | |
| `Dns`, `DnsProofs` | one query through `dns.rs` and `Names::lookup` of `names.rs` | |
| `MeshFetch`, `MCMeshFetch`, `MeshFetchProofs` | `meshhttp.rs` and `meshudp.rs`: requests of three kinds over one divert | |
| `Forwarder`, `ForwarderProofs` | `forward.rs`, with the engine that owns it | |
| `HostsSync` | `HostsSync.kt`: main thread and worker | |

Every component module but `EngineApi`, `MeshFetch` and `HostsSync` has a type invariant
`TypeOK` (`QueueTypeOK` in `RebindQueue`). It is a property of the run `filter`, and proved for every module that has it: for
`RebindQueue` as part of its inductive invariant, for the others as a theorem `TypeCorrect`.
`MeshFetchProofs` states and proves the types of `MeshFetch`.

### Filter
`flows` is the table; `call[t]` is a call between `Instant::now` and the lock; `used` is a
history variable: when a key was really last used. `NoteOutbound` is everything under the
lock (purge, evict, insert), `AllowInbound` the verdict with its removal or refresh.
`MaxSkew` is how long a thread may be descheduled between clock and lock: the code has no
such bound, so the properties state how much a lag of `MaxSkew` can cost.

### Pump
One record of thread states per generation (`reader`, `writer`, `live`, `woken`, `marks`);
`wq` is the writer channel with sentinels, `rx` the generation that has its receiver (it
travels through the join handle). `hand[g]` is the packet that generation's writer took and has
not written, or 0; packets are numbered as they are sent, so their order is that of the numbers,
and `InOrder` says it by positions of the channel. `ctl` is the engine's thread inside `spawn`, `swap_fd` or
`stop_locked`. A packet's kind is where the reader sends it, a nondeterministic choice.
`spawn_io`, which a start and a swap share, fails in one of two ways: without a thread
(`SpawnIoFails`, `SwapIoFails`), or, when only the writer cannot be created, with the reader
already up and at work on the fd (`ReaderAlone`); then `live` is cleared, the eventfd written and
the reader joined (`UndoLive`, `UndoWake`, `UndoJoin`). That join has no bound (`pump.rs:335`), so
`CallsEnd` excepts it for as long as that reader hangs, in a start as in a swap. The node ends when
told (`NodeEnds`) or by itself, on an error of its rx loop (`NodeFails`).
`env` is the scenario a behaviour is in: which failures happen, and whether the pump's
threads may hang for good.

### Engine and EngineApi
Every thread in `Procs` runs `start`, `stop` or `network_changed` statement by statement
wherever another thread or the node can observe the difference. `node[i]`, `pump[i]`, `dups`
belong to the i-th call's start. A node that came up ends when told (`NodeStops`), or by itself
with its engine left in the slot (`NodeBreaks`, `engine.rs:239-245`); `broken` are those, and
`QuiescentIsClean` says of the installed engine's node that it is up or one of them. A start or a
swap whose pump got a reader and no writer waits at `threadsUndo` or `swapUndo` for the join of
`Pump`, to which no fairness is given: `CallsReturn` says that every call returns provided no
call is stuck there for good, since the one that is keeps `LIFECYCLE`. In `EngineApi` the whole engine is one variable, `session`;
a restart is a pair of steps that no other call comes between. The refinement maps the slot
to the session and "the result is fixed" to "the call took effect".

### VpnService
The main thread runs one handler at a time (`main`), but a handler is as many steps as the
other threads can come between; the connect thread of each attempt, the disconnect thread and
the rebind worker are stepped. `shutdown` is on the thread that calls it, the main one or, when
a connect fails, the connect thread: it cancels (`Cancel`), begins the teardown (`Teardown`),
reads the field (`TakeRead`, kt:1164) and nulls it (`TakeClear`, kt:1165), and `onDestroy` stops
the engine, closes the tunnel and nulls the field in as many steps. A settings change looks at
the field and the engine (`ConfigChanged`, kt:257) before it sets the deferred flag
(`ConfigDefer`, kt:259). Tunnels are numbered, `open` are those whose descriptor is open.

Engine calls are single steps, as `Engine => EngineApi` shows, except a restart inside
`onNetworkChanged`: `WorkTell` empties the slot, `WorkRestart` fills it again or fails. In
between `isRunning()` is false for a settings change and a connect thread, while `start` and
`stop` wait for `LIFECYCLE` (`EngineFree`). Calls are assumed to return; the exception `Engine`
makes for the unbounded join is not carried over. Two history variables name what these gaps
cost: `dropped`, the tunnels nulled in the field by a thread that had read or closed another
value of it, and `late`, that a settings change was deferred when no connect thread was going to
look at the flag. `StoppedIsDown` excepts the first, `SettledSession` and `SelectionApplied` the
second, and nothing else.

Abstractions: one service instance; a raw fd number is not reused; the hotspot, the multicast
lock and the names sync are left out; reading `fd` of a closed `ParcelFileDescriptor` throws,
which ends the process in the connect thread (`ProcessDies`) and only the pass in the worker.
`env` is the scenario: how many intents, network flips and settings changes there still are, and
what may fail; `SettledSession`, `SelectionApplied` and `StoppedIsDown` name the scenario they
speak of. A restart that fails inside a rebind leaves the session active without an engine, as
the code does.

### Relay
One connection in full and others that take and return slots. Data is counted in reads; the
admitted head is one of them. `iface.poll` is part of the loop step that calls it; what the
mesh delivers becomes visible while the pipe waits, which is when the forwarder's events
pile up. An iteration of `run` is three steps (`LoopUp`, `LoopDown`, `LoopWake`), split
where the reader or the client can come between. smoltcp is external. `HalfClosesInOrder`
follows both reasons for our FIN to the relay: the client's end, behind all that was read of it
(and all it wrote, if it half-closed); or the relay's own FIN with `to_mesh` empty at that moment
(`meshtcp.rs:491`), behind which reads may still be on their way (`Held`, `unread`): the property
accounts for every one of them, and they are what the proxy loses when the pipe ends.

### Dns
One query, from `serve` to the packet it writes. `pc` is the query's thread, `task` the
spawned lookup, `prefetch` the thread that fetches the legacy answer ahead, `validated` the
flag the service pushes, read once for the prefetch and once for the select. `overrun` and
`give_up` are the two uses of `BUDGET`. A reply is its origin and whether its TTLs were
capped. Queries of different apps share only the resolver, so one is enough. The library's
lookup ends in any result or never; an upstream denies a record only where the code probes
plainly. `inTime` is a history variable: the decision to answer came before anything else
was in hand.

### MeshFetch
A request is its caller's thread: `pc`, the locals of `exchange` or `echo`, and its flow's
channel (`inbox`). `Open` and `OpenCount`, and the two steps of the guard's drop, are split
because the bridge reads `active` without the lock (`ClaimLoad`) and the table with it
(`ClaimLookup`). One turn of the loop is `Top` (stop flag, poll, the processor's verdict),
`Egress` (the blocking send), `CheckHttp`/`CheckUdp`/`CheckPing` (what the code looks at after
the poll, in its order) and `Receive`/`Received`. smoltcp is a connection that takes its own
segments in order and retransmits when it likes. The far side frames its response in one of four
ways; a response is whole, cut short or absent. A reply may be lost, be an ICMPv6 error, or
arrive after the request ended and its port was taken by another. `refused` counts the ICMPv6
errors the mesh really sent; `stale` marks a request that was handed a predecessor's packet,
which the code cannot tell apart for UDP and echoes. The node ends after `EngineStops` or by
itself (`NodeFails`: its channel is closed while the engine's flag is still set), and either makes
a request report a restart.

### Forwarder
`owner` is what the engine does with the handle, `thread` the forwarder's thread, `permit`
the one permit a `Notify` stores, `signal` the done channel. A `select!` takes any ready branch.
`Wedge` stops the thread for good, as the comment on `join` reports from devices. Per flow,
`task` is its task and `app` what the application sees of its connection.

### HostsSync
`pending` is the one scheduled run; `schedule()` replaces it and `onDisconnected` drops it.
`run` is the worker inside `run()`, `main` the main thread inside `save()`. The block of
the hosts file is whose names it holds. Delays are not modelled, so `onConnected`'s
schedule and a retry differ only in who asks.

## 3. Runs

| Run | Bounds | Shows |
|---|---|---|
| `filter` | 1 peer, 2 ports, 2 table entries, 7 ticks, idle limits 3 and 2, skew 1 | limit, default deny, replies get through, fair eviction. Two entries and three keys make eviction happen; 7 ticks let a flow expire, be purged and return |
| `pump` | 3 generations, 2 packets; once with every failure and threads that may hang, once with scheduled threads and a tunnel that may hang up | no fd closed under a live thread unless abandoned, order across swaps, every call ends with its fds closed though threads hang (but for the join of a reader without a writer), delivery across swaps |
| `engine` | 2 threads, 2 configurations, 3 calls, every failure, nodes that end by themselves | serialized nodes, nothing left over, calls return unless one is stuck in `spawn_io`, refinement of `EngineApi` |
| `vpn` | "steady": 1 connect, 2 flips, 2 settings changes; "cancelled": 1 connect, 2 disconnects, every failure; "mixed": 2 connects with 1 disconnect, 1 flip and every failure, or with 2 disconnects and starts that fail | the session settles on one tunnel and a changed selection is applied unless deferred too late; a destroyed service has no engine and no tunnel but a `dropped` one; a teardown spares the next session's tunnel, ends, and serves the queued connect |
| `rebind_queue` | 2 callers, 3 workers, 4 requests | serialized passes, no lost request, every request served |
| `relay` | limits of 1 (backlog limit 0: one read passes it), 2 reads up, 1 down, every failure | slots and backlog bounded, each FIN behind the data of its direction or the rest accounted for, data carried, all threads end |
| `dns` | 2 upstreams, 2 changes of the flag, every failure | answered always, decision before legacy, pinned names private, undecided replies short-lived |
| `mesh_fetch` | an HTTP GET alone, two datagrams, a datagram and an echo; one port, 1 reply in flight, 2 resends, 2 TCP packets and a limit of 2 refused SYNs | replies claimed, counter and table agree, repeats only when refused, true verdicts, every request ends |
| `forwarder` | 2 flows, every failure, a thread that may wedge | signals not lost, join returns and leaves nothing, idle applications told |
| `hosts_sync_off_doc` | 2 upstreams, 2 saves, 1 connect | finding |
| `vpn_reconnect_doc` | 2 connects, 1 disconnect | finding, see below |
| `vpn_burst_doc` | 1 connect, 2 flips | finding |

The bounds are chosen for the cases: three generations are needed for a sentinel to outlive
the generation it was meant for; three calls for a restart to overlap a stop and a start;
two flips for a network that changes back during a pass; one port so that the two datagrams
have to reuse a key, and an echo beside a datagram so that two flows are open at once; two
resends so that "refused as often as sent" differs from "refused"; two reads up for one to be parked
in the backlog behind another; two changes of the flag for it to differ at both reads and
after. `mesh_fetch` has one reply in flight at a time (`MaxFlight`): with two, 611,338 states,
every property holds as well, but the run takes four minutes; the theorems of `MeshFetchProofs`
cover any number. Deadlock is not checked where a system may stop: a session
that is over, a pump that has been joined, a bounded number of calls used up.

### Fairness
Threads that can run do (weak fairness per thread): the OS schedules them. Nothing is owed by
users, networks, peers or packets. One scenario of `Pump` withdraws fairness from the pump's
own threads (`Scheduled`), because `join` and `stop_io` are written for threads that hang. In `Engine` a
node that is up stops when told (its drain and runtime shutdown are bounded) but
`node.start` may hang, and the join of a reader without a writer (`Undo`) is owed nothing. In
`VpnService` every thread proceeds, the engine's calls return, and what is posted to the main
thread or registered with the system is run; users and networks owe nothing. In `Relay` the relay acknowledges what it is sent as long as the
connection is up (otherwise keep-alive resets it), a local client that is open reads, and
time passes; each of these is seen only when the pipe waits, hence strong fairness. In
`Dns` the two threads run and time passes (every exchange has a read timeout), but the
lookup's task owes nothing. In `MeshFetch` the node takes what is queued for it until it ends,
and ends once told; a reply, a deadline, a stop and a claim are owed to nobody. In `Forwarder` a permit that stays is
taken (strong fairness: tokio's `select!` tries its branches in random order), but flows need
not come and the device need not close. In `HostsSync` `save()` runs to its end and the worker
runs what is due.

## 4. Findings

Three runs state a sentence of the repository and show the code not keeping it:

* `vpn_reconnect_doc`: `finishShutdown` serves a queued connect "with nothing of the old
  session left to race it" (`FipsVpnService.kt:1176`). A connect cancelled while its engine
  was starting may still be before its `FipsNative.stop()`; the queued connect sees
  `isRunning()` and returns, and the late stop takes the engine away.
* `vpn_burst_doc`: "the last callback in a burst always results in a rebind against final
  network state" (`:1050`). A callback during a pass compares the network with the routes of
  the tunnel that is being replaced, finds them equal and requests nothing.
* `hosts_sync_off_doc`: "Turning sync off removes the block" (`HostsSync.kt:36`). While a run is
  in flight the removal waits behind it on the one worker; a disconnect cancels it with whatever
  else is pending (`:160`), and the next connect schedules nothing because the sync is off (`:152`).

Other disagreements met while modelling, not kept as runs: a settings change that finds the engine
slot empty during a restart, or whose deferral comes after connect() looked (kt:394), is put in
`rebindAfterConnect` and read by nobody, so the session keeps the old app selection until the next
change or connect (kt:257-259, against "It is served once the engine is up", kt:255-256); a tunnel
the connect thread assigns between shutdown's read of the field and its null is nulled unread, and
if the start then fails nobody closes it (kt:1164-1165, against "Never drop a tunnel fd on the
floor", kt:368); a request reports `restarted` for an engine that neither stopped nor was rebuilt
when its node's rx loop failed (`engine.rs:239-245` and `meshhttp.rs:249-251`, against
`meshhttp.rs:186`, `engine.rs:665`), and such an engine stays installed with its pump and no node,
reported as running; `Pump::spawn` failing to create
the bridge closes the fd under unjoined threads (`pump.rs:185`, against `:88`); packets queued
ahead of the sentinel are not written at the final stop (`:304`, against `:362`); the bridge
goes on queueing after the writer died (`:176`, against `:143`); a timed-out start leaves a
node thread that can hold the responder port (`engine.rs:263`, against `:66`); a coalesced
rebind drops its newer tunnel (`:453`, against `:454`); the Internet flag can be missed
between the resolver's construction and the installation (`:301`, against `:571`); two connect
threads can drop a tunnel (`FipsVpnService.kt:370`, against `:368`); a leftover pass can
establish a first tunnel (`:1113`, against `:1110`); a pass that throws loses a queued request
(`:1079`, against `:1050`); the mesh side is closed after the relay's FIN if nothing is
queued at that moment, whatever the client still writes or the reader holds, which is lost
(`meshtcp.rs:491`, against "close our side once ours is out", `:482`), and when both sides have
finished the closed socket ends `run` with data undelivered to a slow client (`:496`, against `:481`); a
sync reads its configuration before the generation it checks later, so a save between the two
(`HostsSync.kt:172`, `:183`) lets the older configuration write (against `:96`), and the run that
ends re-arms over the one that save queued (`:232`), which then waits for the interval. The properties of the passing runs
name the exceptions these force (`unjoined`, `abandoned`, `broken`, `late`, `dropped`, `died`).

## 5. Proofs

All for every value of the constants, by TLAPS.

* `FilterProofs`: `TypeCorrect`, `Bounded` (`TableBounded`), `DefaultDeny`
  (`AdmittedIsRecent`), `RepliesGetThrough` (`RecentIsAdmitted`), `EvictionIsFair`
  (`EvictsStalest`). Assumptions: the constants' (`MaxFlows` at least 1, limits and skew
  natural). None of the verdict properties is inductive: a verdict compares the stamp with
  the real last use, so the invariant `IInv` relates the two for every key, in the table
  (`StampsLag`: a stamp lags the last use by at most `MaxSkew`), in flight (`CallsFresh`),
  and removed (`RemovedIsIdle`: a key used but not in the table had been idle for its limit
  less two lags), with `TableFinite` for cardinalities and `UsedInPast` for the clock.
* `VpnProofs`, about `RebindQueue`: `OnePassAtATime` (`PassesSerialized`) and `NoLostRequest`
  (`LastRequestServed`), for any sets of callers and workers. `SlotHeld`: a worker at a
  statement inside the slot implies the flag and is alone. `PendingIsWatched`: while a
  request is pending somebody is still going to look at it (a caller about to take the slot,
  a worker holding it, or one that gave it up and looks again). `ClearedIsSeen`: with nothing
  pending, every request has been seen by a pass begun or about to begin.
* `DnsProofs`: `TypeCorrect`, `PinsArePrivate` (`PinnedStaysPrivate`), `DecisionWins`
  (`DecisionFirst`), `ShortLived` (`UndecidedIsShortLived`), `StillReachable`
  (`NeverUnreachable`), for any number of upstreams and of changes of the flag. The
  properties speak of the reply, so `IInv` says how the thread came to hold it: what a
  .fips or a pinned name can reach (`FipsPath`, `PinnedPath`), what is decided where
  (`NothingYet`, `Deciding`), that a decision in time is not overtaken (`InTimeHeld`), that
  an empty legacy reply means every upstream was asked (`Exhausted`), and that the reply is
  the function of these the code computes (`Replied`).
* `ForwarderProofs`: `TypeCorrect`, `JoinLeavesQuiet` (`JoinedIsQuiet`), for any set of flows.
  The property speaks of the moment after the join; `IInv` follows the shutdown there:
  no thread before `spawn` returned (`NoThreadYet`), tasks only while the runtime lives
  (`TasksNeedRuntime`), and the join begun only once the done channel spoke and over only once
  the thread is gone (`JoinAfterSignal`).
* `MeshFetchProofs`: `CounterRight` (`ActiveCountsFlows`), `RepliesAreClaimed`
  (`RepliesClaimed`, an action property), `RepeatsAreRefusals` (`RepeatsOnlyRefused`),
  `VerdictsJustified` (`VerdictJustified`), for any set of requests, keys, replies and limits.
  The assumptions are `FetchAssumption`'s: the limit of refusals and the number of resends are
  naturals, as the constants of `meshhttp.rs` and `meshudp.rs` are. The proof has two layers.
  `Divert` is inductive by itself: the table's entries and the threads that hold a guard
  correspond one to one (`TableHeld`), and the counter is their number give or take the threads
  between the table and the counter (`Counts`, cardinalities of the sets of threads by
  statement). On it rests the rest of `IInv`: every packet in flight has the key of its own
  request's flow (`PacketsOfFlows`); the refusals a request believed and those on their way to
  it are at most those the mesh made (`RefusalsCounted`), and these with the datagrams still to
  be sent are at most what it sent (`RefusedOnce`; packets in a channel are counted by their
  positions, so no induction over sequences is needed); unless it believed an error that was
  not its own, a copy is sent only after the earlier ones were refused (`UdpSends`); and the
  reasons a thread can have its result (`Verdicts`, with `StopOrder`: the node is told before
  the flag is cleared, and a node that failed by itself has ended). `VerdictsJustified` therefore does not
promise that an engine stopped when a request reports a restart: the code cannot tell.
* `RelayProofs`: `TypeCorrect`, `SlotsBounded` (`ConnectionsBounded`), `HeldBounded`
  (`BacklogBounded`), `HalfClosesKeepOrder` (`HalfClosesInOrder`), for any limits and amounts
  of data. The order of the half-closes is a conservation argument: everything the client wrote
  and the relay sent is at one named place on its way (`Conserved`), a buffer is empty before and
  after the loop (`Emptied`), and a FIN was queued either behind the end of its direction with its
  buffers empty, or behind the relay's FIN once that was passed on (`Closing`). The theorem has no
  exception for a client that closed or a relay that finished: for an early close it says what is
  not before the FIN. `Backlog`, that the counter of `meshtcp.rs` is at least what is held
  beyond the head, gives the bound.
* `EngineProofs`: `TypeCorrect`, `NodesAreSerialized` (`NodesSerialized`), `NothingLeftOver`
  (`QuiescentIsClean`) and the refinement `RefinesApi` (`ImplementsApi`), for any set of threads
  and configurations, any number of calls and any set of failures. Assumptions: there is a
  configuration, and `None` is no thread, engine or session. `IInv` says of every statement of a
  call what it owns: the lock and the two flags belong to the threads that set them
  (`Exclusive`, `StartingFlag`, `RebindingFlag`); a number not used yet has no node, pump or
  descriptor (`Unused`, `Fresh`); a start owns its node (`Begun`), a stop the engine it took
  (`Ending`), the slot an engine that runs, its node being up or broken (`Installed`); and conversely every open descriptor,
  running pump and living node has one of these owners, or its start gave up on it (`Dups`,
  `Pumps`, `Nodes`). The converse half is what `QuiescentIsClean` needs when nobody owns anything.
  The refinement then takes each statement in turn: it is the abstract step the call takes effect
  by, or leaves the mapped state alone. Three facts carry it. The holder of `LIFECYCLE` is alone
  inside, so nobody else is in the middle of a restart when a call takes effect. A rebind's own
  start finds the slot empty, as its stop has just emptied it. A rebind that returns at once
  because `REBINDING` is set has another rebind running, which is the condition under which
  `EngineApi` lets it do nothing.

* `PumpProofs`: `TypeCorrect`, `NoFdClosedInUse` (`ClosedUnused`) and `PacketsKeepOrder`
  (`InOrder`), for any number of tunnels and packets, any capacity, every failure and threads
  that hang anywhere. Assumptions: there is a tunnel, and the capacities are what `Pump` declares.
  `ClosedUnused` says nothing of who may close an fd next, so `IInv` follows the engine's thread
  (`Stage`: at which of its statements which generation's threads work, which fd it is about to
  close, and that the generation is `Retired` by then, ended or given up) and counts the done
  markers (`Marks`: two markers are two ended threads, which is what `stop_io` goes by); a
  generation still to come has no threads (`Future`). The order rests on `Receiver` (the receiver is
  with the one writer that has not ended, and comes back through its join handle) and `Channel`:
  what was taken, the one packet in a writer's hand and the queued ones are consecutive numbers, and
  positions in the queue are in the order of the numbers. Two lemmas about a queue with sentinels
  (what an append and what taking the head do to its packets) carry it; neither takes induction.
* `VpnProofs`, about `VpnService`: `TypeCorrect`, `DescriptorsApart`, `NewTunnelSpared`
  (`TeardownSparesNewTunnel`, an action property), `StoppedServiceIsDown` (`StoppedIsDown`) and
  `SessionSettles` (`SettledSession`), for any scenarios and any number of attempts. Assumptions:
  `ScenariosAssumption`, what a scenario is and that the bound on attempt numbers has room for
  it, and `ScenarioNames`, what the two scenarios the properties name stand for.
  - `DescriptorsApart` is the first layer (`Apart`): a tunnel a connect thread or the worker has made and
    not adopted is its alone, and the field's is never the one being torn down. `NewTunnelSpared`
    follows from it in one step: the descriptor the disconnect thread closes is not the field's.
  - `TypeCorrect` shows that the bound on attempt numbers is never met: every connect and
    disconnect to come, every queued connect and every unfinished thread may take a number yet, and
    these with the numbers taken stay within `MaxAttempts` (`Numbers`, the threads counted by a
    cardinality). So the bound that the model has and the code has not cuts nothing off.
  - `StoppedServiceIsDown`: `Stages` says for every statement of the one connect thread, against
    the teardown and the service's own end, where the engine and the tunnel are and who is
    still going to stop the one and close the other, or that the tunnel is `dropped`; `OneTeardown`
    that there is one teardown at a time, `Sole` that there is one connect thread, and `NoRebind`
    that no rebind interferes. The theorem covers every interleaving of the statements of `shutdown`
    on either thread with those of connect.
  - `SessionSettles`: `Connecting` and `Rebinding` say which tunnels are open at every statement
    of the connect thread and of the worker (one, or during a pass the old and the new) and where the engine is, down in the middle of a
    restart; `Deferral` that a selection the live tunnel lacks is owed to somebody, a connect that
    has not read it, the deferred flag with a connect that will look, a recorded request or a pass
    under way, or that the change was deferred too late (`late`); and `Quiet` that nothing of a
    teardown is there.

The inductive invariants of `Engine`, `MeshFetch`, `Relay`, `Pump` and `VpnService` were checked by
TLC before they were proved (that of `Engine` over 5 million states: two threads, four calls).

Only model-checked: all liveness, since fairness and `ENABLED` are outside the prover
(`CallsEnd` and `Delivered` of `Pump`, `CallsReturn` of `Engine`, `SelectionApplied` and
`TeardownEnds` of `VpnService`, `RequestServed` of `RebindQueue`, `DroppedEnds` and `Carried` of
`Relay`, `Answered` of `Dns`, `RequestsEnd` of `MeshFetch`, `SignalledEnds`, `JoinReturns` and
`ServerLossTold` of `Forwarder`), and `HostsSync`, whose one run refutes a sentence of the code.
Every invariant and every action property of a passing run is proved. The
scenario "mixed" has no theorem of its own beyond `TypeCorrect`, `DescriptorsApart` and
`NewTunnelSpared`, which hold for all scenarios: a rebind pass that is past its second check of
`tunnelActive` when a teardown begins adopts a tunnel that the teardown does not know
(`FipsVpnService.kt:1121`), so neither the stages of a steady nor those of a cancelled session hold there.

## 6. Plan

1. A rebind that overlaps a teardown or the next session, as a scenario of `VpnService` with
   properties of its own (`FipsVpnService.kt:1113`, `:1121`).
2. The Internet flag against the resolver's construction and installation (`engine.rs:301`),
   composed from `Engine` and the flag of `Dns`; the flush of the caches.
3. `Hotspot` and the choice of the underlying network, composed with `VpnService`.

## 7. Not modelled

Configuration translation, packet construction and checksums, JNI argument conversion and the
UI are sequential and keep no shared state; `config.rs` maps one JSON document to another and
the lifecycle needs only whether two are equal and whether one parses. The log buffer is one
ring under one lock. The hotspot and the ranking of networks are state machines over Android's
callbacks whose ordering guarantees the repository does not state; they are the largest part
left. The node, smoltcp, ipstack and Android are
external and appear as what the code sees of them. Real time is a nondeterministic timeout,
except in `Filter`, where it is a clock.
