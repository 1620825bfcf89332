-------------------------------- MODULE Pump --------------------------------
(***************************************************************************)
(* The TUN pump of shim/src/pump.rs: a reader and a writer thread per      *)
(* tunnel fd (a generation), a bridge thread that outlives them, the       *)
(* writer channel they share, and the engine's thread that swaps the fd    *)
(* under them (swap_tun_locked) or ends them (stop_locked).                *)
(*                                                                         *)
(* Generation g works on the g-th dup of a tunnel fd.  The writer channel  *)
(* is a sequence of packet numbers; 0 is the empty-Vec stop sentinel.      *)
(***************************************************************************)
EXTENDS Integers, Sequences

CONSTANTS
    MaxGen,     \* bound: tunnels handed to one engine
    MaxSends,   \* bound: packets sent into the writer channel
    OutCap,     \* capacity of the bounded channel into the node
    Scenarios   \* records: whether the pump's threads may hang for good (hung), and which
                \* of "write", "spawn", "timeout", "hangup" and "node" happen (failures)

ASSUME GenAssumption == MaxGen \in Nat \ {0}
ASSUME CapAssumption == OutCap \in Nat \ {0} /\ MaxSends \in Nat
ASSUME ScenariosAssumption ==
    Scenarios \subseteq [hung : BOOLEAN, failures : SUBSET {"write", "spawn", "timeout", "hangup", "node"}]

Gens == 1..MaxGen
Sentinel == 0

VARIABLES
    running,    \* the engine's running flag
    live,       \* per generation: Io.live
    woken,      \* per generation: its wake eventfd has been written
    reader,     \* per generation: where the reader thread is
    writer,     \* per generation: where the writer thread is
    hand,       \* per generation: the packet its writer took from the channel, or 0
    marks,      \* per generation: done markers sent (done_rx)
    wq,         \* the writer channel
    rx,         \* who holds the channel's receiver: a generation, 0 (the pump) or Dropped
    bridge,     \* where the bridge thread is
    inq,        \* mesh packets waiting in the node's inbound channel
    outq,       \* packets in the bounded channel into the node
    node,       \* "up", "stopping" (stop_tx sent or dropped) or "gone" (its channel ends dropped)
    io,         \* the generation in Pump.io, or 0 for None
    fd,         \* the engine's tun_fd
    gen,        \* the newest dup handed to the pump
    open,       \* the dups that are open
    ctl,        \* where the engine's thread is
    abandoned,  \* history: generations stop_io gave up on, or that a failed spawn left
    sent,       \* history: packets sent into the channel, in order
    env,        \* the scenario
    taken       \* history: packets a writer took out and wrote or failed to write, in order

vars == <<running, live, woken, reader, writer, hand, marks, wq, rx, bridge, inq, outq,
          node, io, fd, gen, open, ctl, abandoned, sent, env, taken>>

chan == <<wq, sent>>
threads == <<live, woken, reader, writer, hand, marks, rx>>
engine == <<running, io, fd, gen, open, ctl, abandoned>>

Dropped == -1
Ended == {"none", "done"}

\* Reader: at the loop head, in poll(), holding a packet it read, blocked in
\* outbound_tx.blocking_send, past its last statement.  Writer: at the loop
\* head, in recv(), about to write(), past its last statement.
ReaderPc == Ended \cup {"head", "poll", "packet", "send"}
WriterPc == Ended \cup {"head", "recv", "write"}
BridgePc == Ended \cup {"head", "recv"}

\* The engine's thread: before Pump::spawn; between calls; stop_io's steps and
\* waits, for a swap and for the final join; spawn_io retiring a reader that
\* got no writer; after a failed swap; done, or back from a failed start.
Ctl == {"new", "idle", "swapLive", "swapWake", "swapSentinel", "swapWait", "swapSpawn",
        "undoLive", "undoWake", "undoWait", "swapFailed", "joinLive", "joinWake",
        "joinSentinel", "joinWait", "joinBridge", "joinNode", "stopped", "failed"}

Init ==
    /\ running = TRUE
    /\ live = [g \in Gens |-> FALSE]
    /\ woken = [g \in Gens |-> FALSE]
    /\ reader = [g \in Gens |-> "none"]
    /\ writer = [g \in Gens |-> "none"]
    /\ hand = [g \in Gens |-> 0]
    /\ marks = [g \in Gens |-> 0]
    /\ wq = <<>> /\ rx = 0
    /\ bridge = "none" /\ inq = 0 /\ outq = 0 /\ node = "up"
    /\ io = 0 /\ fd = 1 /\ gen = 1 /\ open = {1}
    /\ ctl = "new"
    /\ abandoned = {} /\ sent = <<>> /\ taken = <<>>
    /\ env \in Scenarios

-----------------------------------------------------------------------------
(* The writer channel.                                                     *)

\* writer_tx.send of a packet: succeeds while the receiver exists.
Send ==
    /\ rx # Dropped
    /\ Len(sent) < MaxSends
    /\ sent' = Append(sent, Len(sent) + 1)
    /\ wq' = Append(wq, Len(sent) + 1)

\* Another sender of the channel (a DNS answer, the clearnet forwarder).
OtherSend ==
    /\ ctl \notin {"new", "stopped"}
    /\ Send
    /\ UNCHANGED <<env, threads, engine, bridge, inq, outq, node, taken>>

-----------------------------------------------------------------------------
(* spawn_io and Pump::spawn.                                               *)

\* Both threads of generation g start; the writer owns the receiver.
StartIo(g) ==
    /\ live' = [live EXCEPT ![g] = TRUE]
    /\ reader' = [reader EXCEPT ![g] = "head"]
    /\ writer' = [writer EXCEPT ![g] = "head"]
    /\ rx' = g
    /\ UNCHANGED <<woken, hand, marks>>

Spawn ==
    /\ ctl = "new"
    /\ StartIo(1)
    /\ bridge' = "head" /\ io' = 1 /\ ctl' = "idle"
    /\ UNCHANGED <<env, running, fd, gen, open, abandoned, chan, inq, outq, node, taken>>

\* A start that fails drops stop_tx, which tells the node.
TellNode == node' = IF node = "up" THEN "stopping" ELSE node

\* The eventfd or the reader thread cannot be created: no thread is left, the
\* receiver is dropped, and start_inner closes the fd.
SpawnIoFails ==
    /\ ctl = "new" /\ "spawn" \in env.failures
    /\ open' = {} /\ rx' = Dropped /\ ctl' = "failed" /\ TellNode
    /\ UNCHANGED <<env, running, io, fd, gen, abandoned, live, woken, reader, writer, hand, marks,
                   bridge, chan, inq, outq, taken>>

\* The bridge thread cannot be created: `?` returns with reader and writer
\* running and their handles dropped, and start_inner closes the fd.
SpawnBridgeFails ==
    /\ ctl = "new" /\ "spawn" \in env.failures
    /\ StartIo(1)
    /\ open' = {} /\ abandoned' = {1} /\ ctl' = "failed" /\ TellNode
    /\ UNCHANGED <<env, running, io, fd, gen, bridge, chan, inq, outq, taken>>

\* The writer thread cannot be created, in a start or in a swap: the reader is
\* up alone and already works on the fd.
ReaderAlone ==
    /\ ctl \in {"new", "swapSpawn"} /\ "spawn" \in env.failures
    /\ live' = [live EXCEPT ![gen] = TRUE]
    /\ reader' = [reader EXCEPT ![gen] = "head"]
    /\ ctl' = "undoLive"
    /\ UNCHANGED <<env, running, io, fd, gen, open, abandoned, woken, writer, hand, marks, rx,
                   chan, node, bridge, inq, outq, taken>>

\* spawn_io retires it: the receiver has gone with the writer's closure, live
\* is cleared, the eventfd written.
UndoLive ==
    /\ ctl = "undoLive"
    /\ live' = [live EXCEPT ![gen] = FALSE] /\ rx' = Dropped
    /\ ctl' = "undoWake"
    /\ UNCHANGED <<env, running, io, fd, gen, open, abandoned, woken, reader, writer, hand, marks,
                   chan, node, bridge, inq, outq, taken>>

UndoWake ==
    /\ ctl = "undoWake"
    /\ woken' = [woken EXCEPT ![gen] = TRUE]
    /\ ctl' = "undoWait"
    /\ UNCHANGED <<env, running, io, fd, gen, open, abandoned, live, reader, writer, hand, marks,
                   rx, chan, node, bridge, inq, outq, taken>>

\* Its join is unbounded.  Then the caller closes the fd: start_inner's only
\* one, which ends the start, or the new one of a swap, which fails.
UndoJoin ==
    /\ ctl = "undoWait" /\ reader[gen] = "done"
    /\ open' = open \ {gen}
    /\ \/ gen = fd /\ ctl' = "failed" /\ TellNode
       \/ gen # fd /\ ctl' = "swapFailed" /\ UNCHANGED node
    /\ UNCHANGED <<env, running, io, fd, gen, abandoned, threads, chan, bridge, inq, outq, taken>>

-----------------------------------------------------------------------------
(* The reader thread, run_reader.                                          *)

ReaderGoes(g, pc) == reader' = [reader EXCEPT ![g] = pc]

ReaderEnds(g) == ReaderGoes(g, "done") /\ marks' = [marks EXCEPT ![g] = @ + 1]

ReaderRest == <<engine, live, woken, writer, hand, rx, bridge, inq, node, taken>>

ReaderHead(g) ==
    /\ reader[g] = "head"
    /\ IF running /\ live[g] THEN ReaderGoes(g, "poll") /\ UNCHANGED marks ELSE ReaderEnds(g)
    /\ UNCHANGED <<env, ReaderRest, chan, outq>>

\* poll() returns because of the wake eventfd: shutdown or swap.
ReaderWake(g) ==
    /\ reader[g] = "poll" /\ woken[g]
    /\ ReaderEnds(g)
    /\ UNCHANGED <<env, ReaderRest, chan, outq>>

\* poll() fails or reports the fd gone, or read() fails.
ReaderHangup(g) ==
    /\ reader[g] = "poll" /\ ~woken[g] /\ "hangup" \in env.failures
    /\ ReaderEnds(g)
    /\ UNCHANGED <<env, ReaderRest, chan, outq>>

\* poll() reports input and read() takes a packet.
ReaderInput(g) ==
    /\ reader[g] = "poll" /\ ~woken[g]
    /\ ReaderGoes(g, "packet")
    /\ UNCHANGED <<env, ReaderRest, marks, chan, outq>>

\* The packet is dispatched: sent into the node's or the forwarder's bounded
\* channel (one channel here), answered into the writer channel (hairpin,
\* respond), or handed off or dropped without blocking (DNS, the processor's
\* Drop, clearnet without a forwarder).
ReaderDispatch(g) ==
    /\ reader[g] = "packet"
    /\ \/ ReaderGoes(g, "send") /\ UNCHANGED <<chan, marks>>
       \/ Send /\ ReaderGoes(g, "head") /\ UNCHANGED marks
       \/ rx = Dropped /\ ReaderEnds(g) /\ UNCHANGED chan
       \/ ReaderGoes(g, "head") /\ UNCHANGED <<chan, marks>>
    /\ UNCHANGED <<env, ReaderRest, outq>>

\* outbound_tx.blocking_send: waits for room, fails when the node is gone.
ReaderSend(g) ==
    /\ reader[g] = "send"
    /\ \/ node # "gone" /\ outq < OutCap /\ outq' = outq + 1
          /\ ReaderGoes(g, "head") /\ UNCHANGED marks
       \/ node = "gone" /\ ReaderEnds(g) /\ UNCHANGED outq
    /\ UNCHANGED <<env, ReaderRest, chan>>

-----------------------------------------------------------------------------
(* The writer thread.                                                      *)

WriterGoes(g, pc) == writer' = [writer EXCEPT ![g] = pc]

\* The last statement, then the receiver: kept for the joiner, or dropped with
\* the thread when its handle is gone.
WriterEnds(g) ==
    /\ WriterGoes(g, "done")
    /\ marks' = [marks EXCEPT ![g] = @ + 1]
    /\ rx' = IF g \in abandoned THEN Dropped ELSE rx

WriterRest == <<engine, live, woken, reader, bridge, inq, outq, node, sent>>

WriterHead(g) ==
    /\ writer[g] = "head"
    /\ IF running /\ live[g] THEN WriterGoes(g, "recv") /\ UNCHANGED <<marks, rx>> ELSE WriterEnds(g)
    /\ UNCHANGED <<env, WriterRest, hand, wq, taken>>

\* A mutant of WriterRecv: any sentinel ends the writer.
WriterRecvStops(g) ==
    /\ writer[g] = "recv" /\ wq # <<>>
    /\ wq' = Tail(wq)
    /\ \/ Head(wq) = Sentinel /\ WriterEnds(g) /\ UNCHANGED hand
       \/ Head(wq) # Sentinel /\ WriterGoes(g, "write") /\ UNCHANGED <<marks, rx>>
          /\ hand' = [hand EXCEPT ![g] = Head(wq)]
    /\ UNCHANGED <<env, WriterRest, taken>>

\* A sentinel sends the writer back to the loop head, which decides.
WriterRecv(g) ==
    /\ writer[g] = "recv" /\ wq # <<>>
    /\ wq' = Tail(wq)
    /\ \/ Head(wq) = Sentinel /\ WriterGoes(g, "head") /\ UNCHANGED hand
       \/ Head(wq) # Sentinel /\ WriterGoes(g, "write") /\ hand' = [hand EXCEPT ![g] = Head(wq)]
    /\ UNCHANGED <<env, WriterRest, marks, rx, taken>>

\* write(): a failure ends the writer.
WriterWrite(g) ==
    /\ writer[g] = "write"
    /\ taken' = Append(taken, hand[g])
    /\ hand' = [hand EXCEPT ![g] = 0]
    /\ \/ WriterGoes(g, "head") /\ UNCHANGED <<marks, rx>>
       \/ "write" \in env.failures /\ WriterEnds(g)
    /\ UNCHANGED <<env, WriterRest, wq>>

-----------------------------------------------------------------------------
(* The bridge thread and the node's ends of its channels.                  *)

BridgeRest == <<engine, threads, outq, node, taken>>

BridgeHead ==
    /\ bridge = "head"
    /\ bridge' = IF running THEN "recv" ELSE "done"
    /\ UNCHANGED <<env, BridgeRest, chan, inq>>

\* recv(): a packet is claimed by a divert or denied by the firewall, or sent
\* to the writer; a dropped receiver or a node that is gone ends the bridge.
BridgeRecv ==
    /\ bridge = "recv"
    /\ \/ inq > 0 /\ inq' = inq - 1 /\ bridge' = "head" /\ (UNCHANGED chan \/ Send)
       \/ inq > 0 /\ inq' = inq - 1 /\ rx = Dropped /\ bridge' = "done" /\ UNCHANGED chan
       \/ inq = 0 /\ node = "gone" /\ bridge' = "done" /\ UNCHANGED <<inq, chan>>
    /\ UNCHANGED <<env, BridgeRest>>

\* The node delivers a mesh packet (bounded: one at a time waits here), takes
\* an outbound one, and ends once told to stop, or by an error of its rx loop.
NodeDeliver ==
    /\ node # "gone" /\ inq = 0 /\ Len(sent) < MaxSends /\ ctl # "new"
    /\ inq' = 1
    /\ UNCHANGED <<env, engine, threads, chan, bridge, outq, node, taken>>

NodeDrain ==
    /\ node # "gone" /\ outq > 0
    /\ outq' = outq - 1
    /\ UNCHANGED <<env, engine, threads, chan, bridge, inq, node, taken>>

NodeFails ==
    /\ node = "up" /\ "node" \in env.failures
    /\ node' = "gone"
    /\ UNCHANGED <<env, engine, threads, chan, bridge, inq, outq, taken>>

NodeEnds ==
    /\ node = "stopping"
    /\ node' = "gone"
    /\ UNCHANGED <<env, engine, threads, chan, bridge, inq, outq, taken>>

-----------------------------------------------------------------------------
(* The engine's thread: stop_io, swap_fd, swap_tun_locked and stop_locked. *)

CtlGoes(pc) == ctl' = pc
Others == <<bridge, inq, outq, taken>>
IoThreads == <<reader, writer, hand, marks>>

\* swap_tun_locked dups the new tunnel fd and swap_fd takes the generation;
\* without one it fails at once.
SwapBegin ==
    /\ ctl = "idle" /\ gen < MaxGen
    /\ gen' = gen + 1 /\ open' = open \cup {gen + 1}
    /\ CtlGoes("swapLive")
    /\ UNCHANGED <<env, running, io, fd, abandoned, threads, chan, node, Others>>

\* stop_locked up to pump.join: the node is told, running is cleared.
StopBegin ==
    /\ ctl \in {"idle", "swapFailed"}
    /\ running' = FALSE /\ TellNode
    /\ CtlGoes(IF io = 0 THEN "joinBridge" ELSE "joinLive")
    /\ UNCHANGED <<env, io, fd, gen, open, abandoned, threads, chan, Others>>

\* stop_io, one store, one eventfd write and one send after the other.
StopIoLive ==
    /\ ctl \in {"swapLive", "joinLive"}
    /\ live' = [live EXCEPT ![io] = FALSE]
    /\ CtlGoes(IF ctl = "swapLive" THEN "swapWake" ELSE "joinWake")
    /\ UNCHANGED <<env, running, io, fd, gen, open, abandoned, woken, IoThreads, rx, chan, node, Others>>

StopIoWake ==
    /\ ctl \in {"swapWake", "joinWake"}
    /\ woken' = [woken EXCEPT ![io] = TRUE]
    /\ CtlGoes(IF ctl = "swapWake" THEN "swapSentinel" ELSE "joinSentinel")
    /\ UNCHANGED <<env, running, io, fd, gen, open, abandoned, live, IoThreads, rx, chan, node, Others>>

StopIoSentinel ==
    /\ ctl \in {"swapSentinel", "joinSentinel"}
    /\ wq' = IF rx = Dropped THEN wq ELSE Append(wq, Sentinel)
    /\ CtlGoes(IF ctl = "swapSentinel" THEN "swapWait" ELSE "joinWait")
    /\ UNCHANGED <<env, running, io, fd, gen, open, abandoned, threads, sent, node, Others>>

\* A mutant of StopIoJoined: one done marker taken for both.
StopIoJoinedOne ==
    /\ ctl \in {"swapWait", "joinWait"}
    /\ marks[io] >= 1
    /\ rx' = IF rx = io THEN 0 ELSE rx
    /\ io' = 0
    /\ CtlGoes(IF ctl = "swapWait" THEN "swapSpawn" ELSE "joinBridge")
    /\ UNCHANGED <<env, running, fd, gen, open, abandoned, live, woken, IoThreads, chan, node, Others>>

\* Both markers arrived: the threads are joined and the receiver comes back.
StopIoJoined ==
    /\ ctl \in {"swapWait", "joinWait"}
    /\ marks[io] = 2
    /\ rx' = IF rx = io THEN 0 ELSE rx
    /\ io' = 0
    /\ CtlGoes(IF ctl = "swapWait" THEN "swapSpawn" ELSE "joinBridge")
    /\ UNCHANGED <<env, running, fd, gen, open, abandoned, live, woken, IoThreads, chan, node, Others>>

\* The wait times out: the handles are dropped and the threads abandoned.  A
\* swap then fails (the new dup is closed); a join goes on to the bridge.
StopIoTimeout ==
    /\ ctl \in {"swapWait", "joinWait"} /\ "timeout" \in env.failures
    /\ marks[io] < 2
    /\ abandoned' = abandoned \cup {io}
    /\ rx' = IF rx = io /\ writer[io] = "done" THEN Dropped ELSE rx
    /\ io' = 0
    /\ IF ctl = "swapWait"
       THEN CtlGoes("swapFailed") /\ open' = open \ {gen}
       ELSE CtlGoes("joinBridge") /\ UNCHANGED open
    /\ UNCHANGED <<env, running, fd, gen, live, woken, IoThreads, chan, node, Others>>

\* spawn_io on the new fd, and the engine's exchange of the fds.
SwapSpawn ==
    /\ ctl = "swapSpawn"
    /\ StartIo(gen)
    /\ io' = gen /\ fd' = gen /\ open' = open \ {fd} /\ CtlGoes("idle")
    /\ UNCHANGED <<env, running, gen, abandoned, chan, node, Others>>

\* The eventfd or the reader thread of the new generation cannot be created:
\* the receiver is dropped, the new dup closed.
SwapIoFails ==
    /\ ctl = "swapSpawn" /\ "spawn" \in env.failures
    /\ rx' = Dropped /\ open' = open \ {gen} /\ CtlGoes("swapFailed")
    /\ UNCHANGED <<env, running, io, fd, gen, abandoned, live, woken, IoThreads, chan, node, Others>>

\* A mutant of JoinBridge: the bridge is waited for without a bound.
JoinBridgeUnbounded ==
    /\ ctl = "joinBridge"
    /\ bridge = "done"
    /\ CtlGoes("joinNode")
    /\ UNCHANGED <<env, running, io, fd, gen, open, abandoned, threads, chan, node, Others>>

\* Pump::join waits for the bridge, bounded.
JoinBridge ==
    /\ ctl = "joinBridge"
    /\ bridge = "done" \/ "timeout" \in env.failures
    /\ CtlGoes("joinNode")
    /\ UNCHANGED <<env, running, io, fd, gen, open, abandoned, threads, chan, node, Others>>

\* stop_locked joins the node thread, unbounded, and closes the fd.
JoinNode ==
    /\ ctl = "joinNode" /\ node = "gone"
    /\ open' = open \ {fd} /\ CtlGoes("stopped")
    /\ UNCHANGED <<env, running, io, fd, gen, abandoned, threads, chan, node, Others>>

Control ==
    \/ Spawn \/ SpawnIoFails \/ SpawnBridgeFails \/ SwapBegin \/ StopBegin
    \/ StopIoLive \/ StopIoWake \/ StopIoSentinel \/ StopIoJoined \/ StopIoTimeout
    \/ SwapSpawn \/ SwapIoFails \/ ReaderAlone \/ UndoLive \/ UndoWake \/ UndoJoin
    \/ JoinBridge \/ JoinNode

ReaderStep(g) == ReaderHead(g) \/ ReaderWake(g) \/ ReaderHangup(g) \/ ReaderInput(g)
                 \/ ReaderDispatch(g) \/ ReaderSend(g)
WriterStep(g) == WriterHead(g) \/ WriterRecv(g) \/ WriterWrite(g)
BridgeStep == BridgeHead \/ BridgeRecv
NodeStep == NodeDeliver \/ NodeDrain \/ NodeFails \/ NodeEnds

Next ==
    \/ Control
    \/ \E g \in Gens : ReaderStep(g) \/ WriterStep(g)
    \/ BridgeStep
    \/ NodeStep
    \/ OtherSend

Spec == Init /\ [][Next]_vars

\* The steps the engine's thread takes once it is in a call; a swap or a stop
\* need never be asked for.
InCall == Control /\ ctl # "idle"

\* A call the engine's thread is in proceeds, and the node ends when told.  Unless the
\* scenario lets them hang (say, in a write() that never returns), the pump's threads are
\* scheduled too and the node takes what is queued for it; packets need not arrive.
Scheduled(A) == ~env.hung /\ A
Fairness ==
    /\ WF_vars(InCall) /\ WF_vars(NodeEnds) /\ WF_vars(Scheduled(NodeDrain))
    /\ \A g \in Gens :
         /\ WF_vars(Scheduled(ReaderHead(g) \/ ReaderWake(g) \/ ReaderDispatch(g) \/ ReaderSend(g)))
         /\ WF_vars(Scheduled(WriterStep(g)))
    /\ WF_vars(Scheduled(BridgeStep))
FairSpec == Spec /\ Fairness

-----------------------------------------------------------------------------
(* Properties.                                                             *)

\* The threads are at their statements, the channels within their bounds, and a
\* generation sends at most one done marker per thread.
TypeOK ==
    /\ running \in BOOLEAN /\ live \in [Gens -> BOOLEAN] /\ woken \in [Gens -> BOOLEAN]
    /\ reader \in [Gens -> ReaderPc] /\ writer \in [Gens -> WriterPc] /\ bridge \in BridgePc
    /\ hand \in [Gens -> 0..MaxSends] /\ marks \in [Gens -> 0..2]
    /\ wq \in Seq(0..MaxSends) /\ rx \in Gens \cup {0, Dropped}
    /\ inq \in 0..1 /\ outq \in 0..OutCap /\ node \in {"up", "stopping", "gone"}
    /\ io \in 0..MaxGen /\ fd \in Gens /\ gen \in Gens /\ open \subseteq Gens
    /\ ctl \in Ctl /\ abandoned \subseteq Gens
    /\ sent \in Seq(1..MaxSends) /\ taken \in Seq(1..MaxSends)

IoEnded(g) == reader[g] \in Ended /\ writer[g] \in Ended

\* A tunnel fd is closed (swap_tun_locked, stop_locked) only when no thread of
\* the generation that worked on it is left, unless stop_io timed out on that
\* generation and abandoned it.
ClosedUnused == \A g \in 1..gen \ open : g \in abandoned \/ IoEnded(g)

\* Packets across swaps (Io's doc, pump.rs:58-60).  Packets are numbered as they are sent.
\* As long as the channel has its receiver, the writers of all generations took the first
\* packets in order, at most one of them holds one, and that and what is queued are just
\* the packets that were sent since, in order: a swap neither loses, duplicates nor
\* reorders a packet, whatever sentinels are left behind.
InOrder ==
    LET held == {g \in Gens : hand[g] # 0}
        queued == {i \in DOMAIN wq : wq[i] # Sentinel}
    IN  rx # Dropped =>
            /\ \A i \in DOMAIN taken : taken[i] = i
            /\ \A g, h \in held : g = h
            /\ {hand[g] : g \in held} \cup {wq[i] : i \in queued} = Len(taken) + 1 .. Len(sent)
            /\ \A g \in held, i \in queued : hand[g] < wq[i]
            /\ \A i, j \in queued : i < j => wq[i] < wq[j]

\* With threads that are scheduled, every packet sent into the writer channel is taken by
\* a writer, through any number of swaps, unless the engine stops or its start
\* fails: a sentinel left over by one generation does not stop the next (pump.rs:70-73).
Delivered == ~env.hung /\ Len(taken) < Len(sent) ~> taken = sent \/ ~running \/ ctl = "failed"

\* "a leaked parked thread beats a disconnect that never completes" (pump.rs:216-219):
\* start, swap and stop end although the pump's threads hang, and a start or swap that
\* fails ends with every fd closed.  The exception is the join of a reader whose writer
\* could not be created (pump.rs:335, in a start as in a swap), which lasts as long as
\* that reader hangs.  With threads that are scheduled there is no exception, a swap
\* leaves just the new fd open, and after a stop or a failed start no thread of the pump
\* is left but the two a start gives up that cannot create the bridge (pump.rs:185).
CallsEnd ==
    ctl # "idle" ~>
        \/ env.hung /\ ctl = "undoWait" /\ reader[gen] # "done"
        \/ ctl = "idle" /\ (env.hung \/ open = {gen})
        \/ /\ ctl \in {"stopped", "failed"} /\ open = {}
           /\ env.hung \/ (bridge \in Ended /\ \A g \in Gens : g \in abandoned \/ IoEnded(g))
=============================================================================
