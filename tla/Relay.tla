------------------------------- MODULE Relay --------------------------------
(***************************************************************************)
(* The mesh relay proxy of shim/src/meshtcp.rs: a loopback listener whose  *)
(* connections are carried to a Nostr relay over a userspace TCP stack.    *)
(*                                                                         *)
(* One connection (the resolver's) is modelled in full: the pipe thread,   *)
(* the local reader with its backlog, the mesh forwarder, both peers and   *)
(* half-closes; others only take and return connection slots.  Data is     *)
(* counted in reads of the pipe's 16 KiB buffer, of which the request head *)
(* is one.  smoltcp is external: a socket with a send and a receive        *)
(* buffer, which changes only while the pipe waits (iface.poll takes in    *)
(* what arrived meanwhile).                                                *)
(***************************************************************************)
EXTENDS Integers, Sequences, Functions

CONSTANTS
    MaxConns,       \* MAX_CONNECTIONS
    MaxUp, MaxDown, \* bound: reads of data the client and the relay send
    ToMeshLimit,    \* TO_MESH_LIMIT
    ToLocalLimit,   \* TO_LOCAL_LIMIT
    Cap,            \* socket buffers: smoltcp's two and the loopback connection's
    UnreachLimit,   \* ICMPv6 errors before giving up
    Failures        \* which of "spawn", "head", "port", "egress" happen

ASSUME BoundsAssumption == {MaxConns, MaxUp, MaxDown} \subseteq Nat
ASSUME LimitsAssumption == ToMeshLimit \in Nat /\ {ToLocalLimit, Cap, UnreachLimit} \subseteq Nat \ {0}
ASSUME FailuresAssumption == Failures \subseteq {"spawn", "head", "port", "egress"}

VARIABLES
    running,    \* the engine's flag (MeshLink.running)
    stop,       \* Relay.stop
    backlogged, \* the listener's queue of connections
    listener,   \* the accept loop: "accept" or "ended"
    active,     \* Relay.active
    others,     \* other connections whose pipe runs
    client,     \* the resolver's end: "idle", "queued", "open", "half" (sends no more), "gone"
    csent,      \* data the client wrote after its head
    unread,     \* of it, not yet read by the local reader
    pipe,       \* the pipe thread
    reader,     \* the local reader thread
    forwarder,  \* the mesh forwarder thread
    bytes,      \* Backlog.bytes
    done,       \* pipe's done flag
    locals,     \* Event::Local in the event channel
    closes,     \* Event::LocalClosed in the event channel (always behind the data)
    to_mesh, first_left, to_local,
    local_closed, close_sent, local_shut, established,
    late,       \* CONNECT_TIMEOUT has passed
    unreachable,
    socket,     \* "none", "syn", "est", "reset" (by the relay) or "closed"
    rfin,       \* the relay has finished sending
    txb, rxb,   \* the socket's buffers
    rsent, got, \* what the relay sent, and what it got (the head included)
    lbuf, seen  \* written to the client and not yet read; read by it

listen == <<backlogged, listener, active, others>>
flags == <<running, stop>>
peer == <<client, csent, unread, lbuf, seen>>
queue == <<bytes, done, locals, closes>>
loop == <<to_mesh, first_left, to_local, local_closed, close_sent, local_shut, established>>
mesh == <<late, unreachable, socket, rfin, txb, rxb, rsent, got>>
vars == <<listen, flags, peer, queue, loop, mesh, pipe, reader, forwarder>>

Min(a, b) == IF a < b THEN a ELSE b

Pc == {"none", "readHead", "open", "head", "down", "wait", "done", "wake", "drop", "ended"}

Init ==
    /\ running = TRUE /\ stop = FALSE
    /\ backlogged = <<>> /\ listener = "accept"
    /\ active = 0 /\ others = 0
    /\ client = "idle" /\ csent = 0 /\ unread = 0 /\ lbuf = 0 /\ seen = 0
    /\ pipe = "none" /\ reader = "none" /\ forwarder = "none"
    /\ bytes = 0 /\ done = FALSE /\ locals = 0 /\ closes = FALSE
    /\ to_mesh = 0 /\ first_left = 0 /\ to_local = 0
    /\ local_closed = FALSE /\ close_sent = FALSE /\ local_shut = FALSE /\ established = FALSE
    /\ late = FALSE /\ unreachable = 0 /\ socket = "none" /\ rfin = FALSE
    /\ txb = 0 /\ rxb = 0 /\ rsent = 0 /\ got = 0

-----------------------------------------------------------------------------
(* The listener.                                                           *)

\* accept and what the loop does with the connection are one step: the flags and the
\* counter are read after accept returns.  An accept that fails only pauses and looks at
\* the flags.

Dial ==
    /\ client = "idle" /\ listener # "ended"
    /\ client' = "queued" /\ backlogged' = Append(backlogged, "ours")
    /\ UNCHANGED <<listener, active, others, flags, csent, unread, lbuf, seen,
                   queue, loop, mesh, pipe, reader, forwarder>>

\* Another client dials: one at a time, and only while the resolver's connection is
\* not up (a bound).
OtherDials ==
    /\ listener # "ended" /\ pipe \in {"none", "ended"}
    /\ others < MaxConns /\ "other" \notin Range(backlogged)
    /\ backlogged' = Append(backlogged, "other")
    /\ UNCHANGED <<listener, active, others, flags, peer, queue, loop, mesh, pipe, reader, forwarder>>

Accepts == listener = "accept" /\ backlogged # <<>> /\ backlogged' = Tail(backlogged)

\* The listener is dropped with its loop, and with it the connections not accepted.
ListenerEnds ==
    /\ listener = "accept" /\ backlogged # <<>>
    /\ stop \/ ~running
    /\ listener' = "ended" /\ backlogged' = <<>>
    /\ client' = IF client = "queued" THEN "gone" ELSE client
    /\ UNCHANGED <<active, others, flags, csent, unread, lbuf, seen,
                   queue, loop, mesh, pipe, reader, forwarder>>

\* The accept loop drops what it accepted: too many connections, or no thread.
Refuse ==
    /\ Accepts /\ ~stop /\ running
    /\ active >= MaxConns \/ "spawn" \in Failures
    /\ client' = IF Head(backlogged) = "ours" THEN "gone" ELSE client
    /\ UNCHANGED <<listener, active, others, flags, csent, unread, lbuf, seen,
                   queue, loop, mesh, pipe, reader, forwarder>>

\* The connection's thread is spawned with its slot taken.
Connects ==
    /\ active' = active + 1
    /\ IF Head(backlogged) = "ours"
       THEN pipe' = "readHead" /\ client' = "open" /\ UNCHANGED others
       ELSE others' = others + 1 /\ UNCHANGED <<pipe, client>>
    /\ UNCHANGED <<listener, flags, csent, unread, lbuf, seen, queue, loop, mesh, reader, forwarder>>

Admit == Accepts /\ ~stop /\ running /\ active < MaxConns /\ Connects

\* Another connection's pipe ends and returns its slot.
OtherEnds ==
    /\ others > 0
    /\ others' = others - 1 /\ active' = active - 1
    /\ UNCHANGED <<backlogged, listener, flags, peer, queue, loop, mesh, pipe, reader, forwarder>>

\* MeshRelayProxy is dropped: the flag, then a connection that wakes the accept.
DropProxy ==
    /\ ~stop
    /\ stop' = TRUE
    /\ backlogged' = IF listener = "ended" THEN backlogged ELSE Append(backlogged, "wake")
    /\ UNCHANGED <<listener, active, others, running, peer, queue, loop, mesh, pipe, reader, forwarder>>

\* stop_locked clears running; the proxy is dropped with the resolver after it, or
\* alone when a start fails.
EngineStops ==
    /\ running /\ ~stop
    /\ running' = FALSE
    /\ UNCHANGED <<listen, stop, peer, queue, loop, mesh, pipe, reader, forwarder>>

-----------------------------------------------------------------------------
(* The two peers.                                                          *)

\* The client writes, stops writing (shutdown) or closes, after which it reads nothing.
ClientWrites ==
    /\ client = "open" /\ csent < MaxUp
    /\ csent' = csent + 1 /\ unread' = unread + 1
    /\ UNCHANGED <<listen, flags, client, lbuf, seen, queue, loop, mesh, pipe, reader, forwarder>>

ClientShuts ==
    /\ client = "open"
    /\ client' = "half"
    /\ UNCHANGED <<listen, flags, csent, unread, lbuf, seen, queue, loop, mesh, pipe, reader, forwarder>>

ClientCloses ==
    /\ client \in {"open", "half"}
    /\ client' = "gone"
    /\ UNCHANGED <<listen, flags, csent, unread, lbuf, seen, queue, loop, mesh, pipe, reader, forwarder>>

ClientReads ==
    /\ client \in {"open", "half"} /\ lbuf > 0
    /\ lbuf' = lbuf - 1 /\ seen' = seen + 1
    /\ UNCHANGED <<listen, flags, client, csent, unread, queue, loop, mesh, pipe, reader, forwarder>>

\* What the mesh brings while the pipe waits.
Waiting == pipe = "wait"

RelayAnswers ==
    /\ Waiting /\ socket = "syn"
    /\ socket' \in {"est", "closed"}
    /\ UNCHANGED <<listen, flags, peer, queue, loop, late, unreachable, rfin, txb, rxb, rsent, got,
                   pipe, reader, forwarder>>

RelayUnreachable ==
    /\ Waiting /\ socket = "syn" /\ unreachable < UnreachLimit
    /\ unreachable' = unreachable + 1
    /\ UNCHANGED <<listen, flags, peer, queue, loop, late, socket, rfin, txb, rxb, rsent, got,
                   pipe, reader, forwarder>>

RelayTakes ==
    /\ Waiting /\ socket = "est" /\ txb > 0
    /\ txb' = txb - 1 /\ got' = got + 1
    /\ UNCHANGED <<listen, flags, peer, queue, loop, late, unreachable, socket, rfin, rxb, rsent,
                   pipe, reader, forwarder>>

RelaySends ==
    /\ Waiting /\ socket = "est" /\ ~rfin /\ rsent < MaxDown /\ rxb < Cap
    /\ rsent' = rsent + 1 /\ rxb' = rxb + 1
    /\ UNCHANGED <<listen, flags, peer, queue, loop, late, unreachable, socket, rfin, txb, got,
                   pipe, reader, forwarder>>

RelayFinishes ==
    /\ Waiting /\ socket = "est" /\ ~rfin
    /\ rfin' = TRUE
    /\ UNCHANGED <<listen, flags, peer, queue, loop, late, unreachable, socket, txb, rxb, rsent, got,
                   pipe, reader, forwarder>>

\* Both sides have finished and all is acknowledged.
RelayAcksFin ==
    /\ Waiting /\ socket = "est" /\ rfin /\ close_sent /\ txb = 0
    /\ socket' = "closed"
    /\ UNCHANGED <<listen, flags, peer, queue, loop, late, unreachable, rfin, txb, rxb, rsent, got,
                   pipe, reader, forwarder>>

RelayResets ==
    /\ Waiting /\ socket = "est"
    /\ socket' = "reset" /\ rfin' = TRUE
    /\ UNCHANGED <<listen, flags, peer, queue, loop, late, unreachable, txb, rxb, rsent, got,
                   pipe, reader, forwarder>>

ConnectTimeout ==
    /\ Waiting /\ socket = "syn" /\ ~late
    /\ late' = TRUE
    /\ UNCHANGED <<listen, flags, peer, queue, loop, unreachable, socket, rfin, txb, rxb, rsent, got,
                   pipe, reader, forwarder>>

-----------------------------------------------------------------------------
(* The local reader and the mesh forwarder.                                *)

ReaderReads ==
    /\ reader = "read" /\ unread > 0
    /\ unread' = unread - 1 /\ reader' = "add"
    /\ UNCHANGED <<listen, flags, client, csent, lbuf, seen, queue, loop, mesh, pipe, forwarder>>

\* read returns 0 or an error: the client has finished, or the connection is closed
\* or reset (what it still held is read or lost).
ReaderEof ==
    /\ reader = "read"
    /\ (client = "half" /\ unread = 0) \/ client = "gone"
    /\ reader' = "done" /\ closes' = (pipe # "ended")
    /\ UNCHANGED <<listen, flags, peer, bytes, done, locals, loop, mesh, pipe, forwarder>>

\* Backlog::add: waits while more than the limit is in flight, and gives up when the
\* pipe is done.
ReaderAdd ==
    /\ reader = "add"
    /\ \/ /\ bytes <= ToMeshLimit
          /\ bytes' = bytes + 1 /\ reader' = "send"
       \/ /\ bytes > ToMeshLimit /\ done
          /\ reader' = "done" /\ UNCHANGED bytes
    /\ UNCHANGED <<listen, flags, peer, done, locals, closes, loop, mesh, pipe, forwarder>>

\* The channel takes the event as long as the pipe holds its receiver.
ReaderSend ==
    /\ reader = "send"
    /\ IF pipe = "ended" THEN reader' = "done" /\ UNCHANGED locals
                         ELSE reader' = "read" /\ locals' = locals + 1
    /\ UNCHANGED <<listen, flags, peer, bytes, done, closes, loop, mesh, pipe, forwarder>>

\* The flow's sender goes with its guard.
ForwarderEnds ==
    /\ forwarder = "run" /\ pipe = "ended"
    /\ forwarder' = "done"
    /\ UNCHANGED <<listen, flags, peer, queue, loop, mesh, pipe, reader>>

-----------------------------------------------------------------------------
(* The pipe thread.                                                        *)

\* Returning closes the local socket and gives the slot back.
Returned ==
    /\ pipe' = "ended" /\ active' = active - 1
    /\ client' = "gone" /\ csent' = 0 /\ unread' = 0

\* read_head and admit; without the head in time, or without the token, nothing else
\* happens.
ReadHead ==
    /\ pipe = "readHead"
    /\ \/ /\ client \in {"open", "half"}
          /\ pipe' = "open" /\ UNCHANGED <<active, client, csent, unread>>
       \/ /\ "head" \in Failures \/ client \in {"half", "gone"}
          /\ Returned
    /\ UNCHANGED <<backlogged, listener, others, flags, lbuf, seen,
                   queue, loop, mesh, reader, forwarder>>

\* A flow on a free local port, the two threads, and the SYN; the admitted head is the
\* first to go out and is not counted in the backlog.
OpenFlow ==
    /\ pipe = "open"
    /\ \/ /\ pipe' = "head" /\ reader' = "read" /\ forwarder' = "run" /\ socket' = "syn"
          /\ to_mesh' = 1 /\ first_left' = 1
          /\ UNCHANGED <<active, client, csent, unread>>
       \/ /\ "port" \in Failures
          /\ Returned
          /\ UNCHANGED <<reader, forwarder, socket, to_mesh, first_left>>
    /\ UNCHANGED <<backlogged, listener, others, flags, lbuf, seen,
                   queue, to_local, local_closed, close_sent, local_shut, established,
                   late, unreachable, rfin, txb, rxb, rsent, got>>

\* run returns, after resetting the relay's side where it gives up on it: what it held
\* is gone.
RunReturns ==
    /\ pipe' = "done"
    /\ to_mesh' = 0 /\ first_left' = 0 /\ to_local' = 0
    /\ local_closed' = FALSE /\ close_sent' = FALSE /\ local_shut' = FALSE /\ established' = FALSE
    /\ late' = FALSE /\ unreachable' = 0 /\ socket' = "closed" /\ rfin' = FALSE
    /\ txb' = 0 /\ rxb' = 0 /\ rsent' = 0 /\ got' = 0

\* The engine was rebuilt or the proxy dropped.
LoopStops ==
    /\ pipe = "head" /\ (~running \/ stop)
    /\ RunReturns
    /\ UNCHANGED <<listen, flags, peer, queue, reader, forwarder>>

\* A packet could not be sent: the node refused it, or its channel is gone.
EgressFails ==
    /\ pipe = "head" /\ "egress" \in Failures
    /\ RunReturns
    /\ UNCHANGED <<listen, flags, peer, queue, reader, forwarder>>

\* What send_slice takes of to_mesh.
Room == IF socket = "est" /\ ~close_sent THEN Min(to_mesh, Cap - txb) ELSE 0

\* Backlog::sent saturates.
Minus(b, n) == IF b < n THEN 0 ELSE b - n

\* A mutant of Sent: the head is taken off the backlog it was never counted in.
SentAll(n) == Minus(bytes, n)

\* A mutant of Sent: what goes to the socket is not taken off the backlog.
SentNone(n) == bytes

\* The backlog after n reads went to the socket, some of them the request head.
Sent(n) == Minus(bytes, n - Min(n, first_left))

\* A mutant of Up: our side is closed as soon as the client has finished.
UpClosesEarly ==
    /\ to_mesh' = to_mesh - Room /\ txb' = txb + Room
    /\ first_left' = first_left - Min(Room, first_left)
    /\ bytes' = Sent(Room)
    /\ close_sent' = (close_sent \/ local_closed)

\* Local to mesh, and our FIN once the client has finished and all of it is out.
Up ==
    /\ to_mesh' = to_mesh - Room /\ txb' = txb + Room
    /\ first_left' = first_left - Min(Room, first_left)
    /\ bytes' = Sent(Room)
    /\ close_sent' = (close_sent \/ (local_closed /\ to_mesh' = 0))

\* The socket is polled.  A client that gave up before the relay answered ends the
\* pipe; once established, the deadline and the ICMPv6 errors are not looked at again.
LoopUp ==
    LET est == established \/ socket = "est"
    IN  /\ pipe = "head" /\ running /\ ~stop
        /\ IF local_closed /\ ~est
           THEN RunReturns /\ UNCHANGED bytes
           ELSE /\ pipe' = "down" /\ established' = est
                /\ late' = (late /\ ~est) /\ unreachable' = IF est THEN 0 ELSE unreachable
                /\ Up
                /\ UNCHANGED <<to_local, local_closed, local_shut, socket, rfin, rxb, rsent, got>>
        /\ UNCHANGED <<listen, flags, peer, done, locals, closes, reader, forwarder>>

\* Mesh to local, bounded; the relay's end of data is passed on once all is delivered.
\* Then the socket's end and the connect deadline.
LoopDown ==
    LET r == Min(rxb, Minus(ToLocalLimit, to_local))
        t == to_local + r
        w == Min(t, Cap - lbuf)
        shut == established /\ rfin /\ rxb = r /\ t = w /\ ~local_shut
        broken == client = "gone" /\ t > 0
    IN  /\ pipe = "down"
        /\ lbuf' = IF broken THEN lbuf ELSE lbuf + w
        /\ IF broken \/ socket \in {"closed", "reset"} \/ (~established /\ late)
           THEN RunReturns
           ELSE /\ pipe' = "wait"
                /\ rxb' = rxb - r /\ to_local' = t - w
                /\ local_shut' = (local_shut \/ shut)
                /\ close_sent' = (close_sent \/ (shut /\ to_mesh = 0))
                /\ UNCHANGED <<to_mesh, first_left, local_closed, established, late, unreachable,
                               socket, rfin, txb, rsent, got>>
        /\ UNCHANGED <<listen, flags, client, csent, unread, seen, queue, reader, forwarder>>

\* recv_timeout: whatever events are there are taken; with none it times out.
LoopWake ==
    /\ pipe = "wait"
    /\ locals' = 0 /\ closes' = FALSE
    /\ IF unreachable >= UnreachLimit /\ ~established
       THEN RunReturns
       ELSE /\ pipe' = "head"
            /\ to_mesh' = to_mesh + locals /\ local_closed' = (local_closed \/ closes)
            /\ UNCHANGED <<first_left, to_local, close_sent, local_shut, established, mesh>>
    /\ UNCHANGED <<listen, flags, peer, bytes, done, reader, forwarder>>

\* pipe goes on: done is set,
PipeDone ==
    /\ pipe = "done"
    /\ done' = TRUE /\ pipe' = "wake"
    /\ UNCHANGED <<listen, flags, peer, bytes, locals, closes, loop, mesh, reader, forwarder>>

\* A mutant of PipeWake: the local connection is not shut down.
PipeWakeOnly ==
    /\ pipe = "wake"
    /\ bytes' = 0 /\ pipe' = "drop"
    /\ UNCHANGED <<listen, flags, peer, done, locals, closes, loop, mesh, reader, forwarder>>

\* the backlog is cleared, which wakes a parked reader, and the local connection shut
\* down both ways;
PipeWake ==
    /\ pipe = "wake"
    /\ bytes' = 0 /\ pipe' = "drop"
    /\ client' = "gone" /\ csent' = 0 /\ unread' = 0 /\ lbuf' = 0 /\ seen' = 0
    /\ UNCHANGED <<listen, flags, done, locals, closes, loop, mesh, reader, forwarder>>

\* A mutant of PipeEnds: the slot is not given back.
PipeEndsKeepsSlot ==
    /\ pipe = "drop"
    /\ pipe' = "ended"
    /\ locals' = 0 /\ closes' = FALSE
    /\ UNCHANGED <<listen, flags, peer, bytes, done, loop, mesh, reader, forwarder>>

\* the flow guard and the event receiver are dropped and the slot given back.
PipeEnds ==
    /\ pipe = "drop"
    /\ pipe' = "ended" /\ active' = active - 1
    /\ locals' = 0 /\ closes' = FALSE
    /\ UNCHANGED <<backlogged, listener, others, flags, peer, bytes, done,
                   loop, mesh, reader, forwarder>>

-----------------------------------------------------------------------------
ListenerStep == ListenerEnds \/ Refuse \/ Admit
ClientStep == Dial \/ ClientWrites \/ ClientShuts \/ ClientCloses \/ ClientReads
RelayStep == RelayAnswers \/ RelayUnreachable \/ RelayTakes \/ RelaySends \/ RelayFinishes
             \/ RelayAcksFin \/ RelayResets
ReaderStep == ReaderReads \/ ReaderEof \/ ReaderAdd \/ ReaderSend
PipeStep == ReadHead \/ OpenFlow \/ LoopStops \/ EgressFails \/ LoopUp \/ LoopDown \/ LoopWake
            \/ PipeDone \/ PipeWake \/ PipeEnds

Next ==
    \/ ListenerStep \/ OtherDials \/ OtherEnds \/ DropProxy \/ EngineStops
    \/ ClientStep \/ RelayStep \/ ConnectTimeout
    \/ ReaderStep \/ ForwarderEnds \/ PipeStep

Spec == Init /\ [][Next]_vars

\* The proxy's threads run and its clock advances; a relay that holds the connection
\* open takes data and acknowledges our FIN, and the client reads what it is sent.
\* Nobody owes an answer to the SYN, data, or a close.  What the mesh brings is seen
\* only at a wait, which the loop comes to again and again: strong fairness.
Fairness ==
    /\ WF_vars(ListenerStep) /\ WF_vars(ReaderStep) /\ WF_vars(ForwarderEnds) /\ WF_vars(PipeStep)
    /\ WF_vars(ClientReads)
    /\ SF_vars(RelayTakes) /\ SF_vars(RelayAcksFin) /\ SF_vars(ConnectTimeout)

FairSpec == Spec /\ Fairness

-----------------------------------------------------------------------------
(* Properties.                                                             *)

Live == IF pipe \in {"none", "ended"} THEN 0 ELSE 1

\* Threads at their statements and buffers within their sizes.
TypeOK ==
    /\ {running, stop, done, closes, local_closed, close_sent, local_shut, established, late, rfin} \subseteq BOOLEAN
    /\ listener \in {"accept", "ended"} /\ pipe \in Pc
    /\ client \in {"idle", "queued", "open", "half", "gone"}
    /\ reader \in {"none", "read", "add", "send", "done"} /\ forwarder \in {"none", "run", "done"}
    /\ socket \in {"none", "syn", "est", "reset", "closed"}
    /\ {txb, rxb, lbuf} \subseteq 0..Cap /\ to_local \in 0..ToLocalLimit
    /\ csent \in 0..MaxUp /\ rsent \in 0..MaxDown /\ got \in 0..(MaxUp + 1) /\ seen \in 0..MaxDown

\* "At most MAX_CONNECTIONS at a time" (meshtcp.rs:15), although slots are taken by
\* the accept loop and given back by the connection threads: a slot is taken by just
\* the connections that have a thread, so the proxy does not run out of them either.
ConnectionsBounded == active = others + Live /\ active <= MaxConns

\* "the reader pauses - backpressure towards the local client" (meshtcp.rs:46-48): what
\* a relay that takes nothing makes the proxy hold is bounded: the head, the limit and
\* the read that passed it.
BacklogBounded ==
    ~done => to_mesh + locals + (IF reader = "send" THEN 1 ELSE 0) <= first_left + ToMeshLimit + 1

\* What the client wrote and the reader has read that the socket has not taken.
Held == to_mesh + locals + (IF reader \in {"add", "send"} THEN 1 ELSE 0)

\* Each half is closed behind its data (meshtcp.rs:433-490).  Our FIN to the relay has one
\* of two reasons.  While the relay's own end is not passed on it is the client's: then all
\* that was read of the client is in the socket, and all it wrote if it did not close
\* outright.  Otherwise the relay may have finished first, and our side is closed behind
\* what to_mesh held: what the client has still on its way (Held + unread) is accounted for
\* and is what the proxy loses when the pipe ends (meshtcp.rs:491-496).  The shutdown of the
\* local side follows all the relay sent.
HalfClosesInOrder ==
    /\ close_sent => got + txb + Held + unread = 1 + csent
    /\ close_sent /\ ~local_shut => Held = 0 /\ reader = "done" /\ (client = "half" => unread = 0)
    /\ local_shut => seen + lbuf = rsent

\* "dropping it stops the listener (open connections end with it)" (meshtcp.rs:59-60):
\* every thread of the proxy ends, the reader included, which may be parked in read or
\* in the backlog.
DroppedEnds ==
    stop ~> /\ listener = "ended" /\ pipe \in {"none", "ended"}
            /\ reader \in {"none", "done"} /\ forwarder \in {"none", "done"}

\* Data is carried, in both directions, unless the connection ends: no read is parked
\* for good in the backlog, the channel or a full buffer (meshtcp.rs:227-243, 433-480).
Carried ==
    []<>(client \in {"open", "half"} => (csent > 0 => got = csent + 1) /\ seen = rsent)
=============================================================================
