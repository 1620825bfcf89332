------------------------------ MODULE MeshFetch ------------------------------
(***************************************************************************)
(* Requests the process itself makes over the mesh: an HTTP GET            *)
(* (meshhttp.rs), a DNS datagram and an ICMPv6 echo (meshudp.rs).  Each    *)
(* runs on its caller's thread: it opens a flow in the divert table, hands *)
(* its packets to the node and waits for what the pump's bridge claims for *)
(* it, until it is answered, refused, past its deadline or its engine      *)
(* stops.  The requests share the divert: a table under a lock and a       *)
(* counter of open flows that the bridge reads without it.                 *)
(*                                                                         *)
(* External: the node and the far side (a packet is lost, refused with an  *)
(* ICMPv6 error or answered, and replies are delayed and reordered), and   *)
(* smoltcp (a TCP connection is a state and the segments received in       *)
(* order; it retransmits when it likes).  All requests go to one node.     *)
(***************************************************************************)
EXTENDS Integers, Sequences, FiniteSets

CONSTANTS
    Requests,          \* requests, each made once
    Mixes,             \* the kinds of request made together: request -> kind, or None
    Ports,             \* LOCAL_PORTS
    OutCap,            \* capacity of the node's outbound channel
    MaxSegs,           \* bound: packets one HTTP connection sends
    MaxFlight,         \* bound: replies in flight
    UNREACHABLE_LIMIT, RESENDS

None == "none"

ASSUME FetchAssumption ==
    /\ Mixes \subseteq [Requests -> {"http", "udp", "ping", None}]
    /\ OutCap \in Nat \ {0} /\ UNREACHABLE_LIMIT \in Nat /\ RESENDS \in Nat

VARIABLES
    req,               \* request -> its thread (see New)
    inbox,             \* request -> the channel of its flow
    flows, active, lock,  \* Divert: table, counter, who holds the table
    bridge,            \* the packet the bridge looks up, if any
    outbound, mesh,    \* packets for the node; replies in flight
    running, node,     \* the engine's flag; the node: "up", "told" to stop, "gone" after
                       \* it, or "failed" by itself
    refused            \* history: request -> ICMPv6 errors its packets caused

divert == <<flows, active, lock, inbox, bridge>>
net    == <<outbound, mesh, running, node, refused>>
vars   == <<req, divert, net>>

Whole == 2             \* segments of a whole HTTP response

\* How the far HTTP server frames the body; a "big" one is past MAX_BODY.
Frames == {"length", "chunked", "close", "big"}

\* A thread before its request: its statement, flow key, result, packets given to the
\* stack and not polled yet, packets sent, ICMPv6 errors counted, socket, response
\* segments received in order, the locals established and resent, whether its deadline
\* has passed, and (history) whether it was handed another request's packet.
New(k, f) ==
    [kind |-> k, frame |-> f, pc |-> "idle", key |-> None, result |-> None, queued |-> FALSE,
     sends |-> 0, unreachable |-> 0, socket |-> "none", got |-> 0, established |-> FALSE,
     resent |-> FALSE, expired |-> FALSE, stale |-> FALSE]

Init ==
    /\ \E mix \in Mixes, f \in Frames :
         req = [r \in Requests |-> New(mix[r], IF mix[r] = "http" THEN f ELSE None)]
    /\ inbox = [r \in Requests |-> <<>>] /\ refused = [r \in Requests |-> 0]
    /\ flows = <<>> /\ active = 0 /\ lock = None /\ bridge = {}
    /\ outbound = <<>> /\ mesh = {} /\ running = TRUE /\ node = "up"

\* The node's end of the outbound channel is dropped.
Closed == node \in {"gone", "failed"}

Goes(r, label) == req' = [req EXCEPT ![r].pc = label]
\* The request has its result; its flow's guard is dropped next.
Ends(r, what) == req' = [req EXCEPT ![r] = [@ EXCEPT !.pc = "drop", !.result = what]]

-----------------------------------------------------------------------------
(* Divert.                                                                 *)

\* Echoes are keyed on remote port 0; both other kinds may ask the same port.
FreeKeys(r) == {k \in {IF req[r].kind = "ping" THEN 0 ELSE 1} \X Ports : k \notin DOMAIN flows}

\* Divert::open takes the table and a free key of it (any: the first tried is random).
Open(r) ==
    /\ req[r].pc = "idle" /\ req[r].kind # None /\ lock = None
    /\ \E k \in FreeKeys(r) :
         /\ flows' = [j \in DOMAIN flows \cup {k} |-> IF j = k THEN r ELSE flows[j]]
         /\ req' = [req EXCEPT ![r] = [@ EXCEPT !.pc = "count", !.key = k]]
    /\ lock' = r
    /\ UNCHANGED <<active, inbox, bridge, net>>

\* No flow is opened when no port is free, nor to this node's own address (which
\* answers an echo and is an error for the others).
NotOpened(r) ==
    /\ req[r].pc = "idle" /\ req[r].kind # None /\ lock = None
    /\ req' = [req EXCEPT ![r].pc = "done"]
    /\ UNCHANGED <<divert, net>>

\* The socket of each kind: TCP connects, UDP binds, and the first echo is queued.
Connect(q) == [q EXCEPT !.socket = "synSent"]
Bind(q) == [q EXCEPT !.socket = "bound"]
BindEcho(q) == [q EXCEPT !.socket = "bound", !.queued = TRUE]

\* ... counts it and lets go of the table.  Then the socket is made.
OpenCount(r) ==
    /\ req[r].pc = "count"
    /\ active' = active + 1 /\ lock' = None
    /\ LET q == [req[r] EXCEPT !.pc = "top"] IN
       req' = [req EXCEPT ![r] = CASE q.kind = "http" -> Connect(q)
                                   [] q.kind = "udp"  -> Bind(q)
                                   [] q.kind = "ping" -> BindEcho(q)]
    /\ UNCHANGED <<flows, inbox, bridge, net>>

\* A mutant of DropRemove: the key stays in the table.
DropKeepsKey(r) ==
    /\ req[r].pc = "drop" /\ lock = None
    /\ Goes(r, "uncount")
    /\ UNCHANGED <<flows, active, lock, inbox, bridge, net>>

\* Dropping the guard: the key leaves the table, and then the count goes down.
DropRemove(r) ==
    /\ req[r].pc = "drop" /\ lock = None
    /\ flows' = [k \in DOMAIN flows \ {req[r].key} |-> flows[k]]
    /\ Goes(r, "uncount")
    /\ UNCHANGED <<active, lock, inbox, bridge, net>>

\* The thread has returned; its locals and the flow's channel are gone.
Returned(r) ==
    /\ req' = [req EXCEPT ![r] = [New(req[r].kind, None) EXCEPT !.pc = "done"]]
    /\ inbox' = [inbox EXCEPT ![r] = <<>>]

\* A mutant of DropUncount: the counter is cleared instead of lowered.
DropUncountAll(r) ==
    /\ req[r].pc = "uncount"
    /\ active' = 0 /\ Returned(r)
    /\ UNCHANGED <<flows, lock, bridge, net>>

DropUncount(r) ==
    /\ req[r].pc = "uncount"
    /\ active' = active - 1 /\ Returned(r)
    /\ UNCHANGED <<flows, lock, bridge, net>>

\* The bridge claims a reply: first it reads the counter, without the lock; with no
\* flow open the packet is the applications'.
ClaimLoad ==
    /\ bridge = {}
    /\ \E p \in mesh : mesh' = mesh \ {p} /\ bridge' = IF active = 0 THEN {} ELSE {p}
    /\ UNCHANGED <<req, flows, active, lock, inbox, outbound, running, node, refused>>

\* ... then the table, by the packet's addresses and ports (or those it quotes).
ClaimLookup ==
    /\ lock = None
    /\ \E p \in bridge :
         IF p.key \in DOMAIN flows
         THEN inbox' = [inbox EXCEPT ![flows[p.key]] = Append(@, p)]
         ELSE UNCHANGED inbox
    /\ bridge' = {}
    /\ UNCHANGED <<req, flows, active, lock, net>>

-----------------------------------------------------------------------------
(* The loop of exchange (TCP, UDP) and echo.                               *)

\* A mutant of SendsNow: any refusal so far is a reason to send again.
SendsAgain(r) ==
    LET q == req[r] IN q.kind = "udp" /\ (q.sends = 0 \/ (q.unreachable > 0 /\ q.sends <= RESENDS))

\* The UDP loop sends its datagram once, and again for each refusal, RESENDS times.
SendsNow(r) ==
    LET q == req[r] IN
    q.kind = "udp" /\ (q.sends = 0 \/ (q.unreachable > 0 /\ q.sends <= RESENDS
                                       /\ q.unreachable >= q.sends))

\* What the node's processor makes of a packet, as where the thread goes and its result:
\* forwarded, dropped, refused, or found to be for this node, which an echo ignores.
Processed(kind) ==
    {<<"egress", None>>, <<"check", None>>, <<"drop", "unreachable">>,
     IF kind = "ping" THEN <<"check", None>> ELSE <<"drop", "other">>}

\* Top of the loop: a stopped engine ends the request.  Else iface.poll may put a packet
\* on the wire: the datagram or echo queued for it, or what TCP (re)transmits.
Top(r) ==
    /\ req[r].pc = "top"
    /\ LET q      == req[r]
           owed   == q.queued \/ SendsNow(r) \/ (q.kind = "http" /\ q.sends = 0)
       IN
       \/ ~running /\ Ends(r, "restarted")
       \/ running /\ ~owed /\ Goes(r, "check")
       \/ /\ running /\ (owed \/ (q.kind = "http" /\ q.sends < MaxSegs))
          /\ \E to \in Processed(q.kind) :
               req' = [req EXCEPT ![r] = [q EXCEPT !.pc = to[1], !.result = to[2],
                                                   !.queued = FALSE, !.sends = @ + 1]]
    /\ UNCHANGED <<divert, net>>

\* A mutant of Egress: the node's end of the channel being dropped goes unnoticed.
EgressBlocks(r) ==
    /\ req[r].pc = "egress" /\ ~Closed /\ Len(outbound) < OutCap
    /\ outbound' = Append(outbound, [of |-> r, key |-> req[r].key, n |-> req[r].sends, what |-> "fin"])
    /\ Goes(r, "check")
    /\ UNCHANGED <<divert, mesh, running, node, refused>>

\* blocking_send to the node: waits for room for as long as it takes, and fails when the
\* node is gone.  The FIN of a finished exchange is best effort.
Egress(r) ==
    /\ req[r].pc = "egress"
    /\ LET q == req[r]
           done == q.result # None IN
       \/ /\ Closed
          /\ IF done THEN Goes(r, "drop") ELSE Ends(r, "restarted")
          /\ UNCHANGED outbound
       \/ /\ ~Closed /\ Len(outbound) < OutCap
          /\ outbound' = Append(outbound, [of |-> r, key |-> q.key, n |-> q.sends,
               what |-> IF done THEN "fin" ELSE IF q.socket = "synSent" THEN "syn" ELSE q.kind])
          /\ Goes(r, IF done THEN "drop" ELSE "check")
    /\ UNCHANGED <<divert, mesh, running, node, refused>>

\* is_complete: a Content-Length response that is all here.
is_complete(q) == q.frame = "length" /\ q.got = Whole

\* A mutant of parse_response: a body cut short is returned.
parse_response_short(q) == IF q.got = 0 THEN "other" ELSE "ok"

\* parse_response: headers must be there, and a framed body whole.
parse_response(q) ==
    IF q.got = 0 \/ (q.frame # "close" /\ q.got < Whole) THEN "other" ELSE "ok"

\* After the poll: TCP.  A finished exchange closes, and sends its FIN if it can.
CheckHttp(r) ==
    /\ req[r].pc = "check" /\ req[r].kind = "http"
    /\ LET q == [req[r] EXCEPT !.established = @ \/ req[r].socket \in {"open", "finRcvd"}]
           End(what, label) == req' = [req EXCEPT ![r] = [q EXCEPT !.pc = label, !.result = what]]
       IN
       IF q.frame = "big" /\ q.got = Whole THEN End("other", "drop")
       ELSE IF q.established /\ (q.socket # "open" \/ is_complete(q))
       THEN \/ End(parse_response(q), "drop")
            \/ q.socket # "reset" /\ End(parse_response(q), "egress")
       ELSE IF q.socket = "reset" THEN End("unreachable", "drop")
       ELSE IF q.expired THEN End("timeout", "drop")
       ELSE End(None, "wait")
    /\ UNCHANGED <<divert, net>>

\* After the poll: UDP.
CheckUdp(r) ==
    /\ req[r].pc = "check" /\ req[r].kind = "udp"
    /\ IF req[r].got > 0 THEN Ends(r, "ok")
       ELSE IF req[r].unreachable > RESENDS THEN Ends(r, "noroute")
       ELSE IF req[r].expired THEN Ends(r, "timeout")
       ELSE Goes(r, "wait")
    /\ UNCHANGED <<divert, net>>

\* After the poll: echo.  The second request is queued when half the time is gone.
CheckPing(r) ==
    /\ req[r].pc = "check" /\ req[r].kind = "ping"
    /\ \/ req[r].got > 0 /\ Ends(r, "reached")
       \/ req[r].got = 0 /\ req[r].expired /\ Ends(r, "silent")
       \/ req[r].got = 0 /\ ~req[r].expired /\ Goes(r, "wait")
       \/ /\ req[r].got = 0 /\ ~req[r].expired /\ ~req[r].resent
          /\ req' = [req EXCEPT ![r] = [@ EXCEPT !.pc = "wait", !.queued = TRUE, !.resent = TRUE]]
    /\ UNCHANGED <<divert, net>>

\* What a packet of the flow does: an ICMPv6 error is counted (an echo's is not claimed),
\* anything else goes to the socket, which takes a TCP segment of its own connection
\* only, in order.
Handles(q, r, p) ==
    LET own  == q.kind = "http" /\ p.of = r
        data == p.what = "data" /\ own /\ q.socket = "open" /\ p.n > q.got
        fin  == p.what = "fin" /\ own /\ q.socket = "open" /\ p.n >= q.got
    IN [q EXCEPT
          !.stale       = @ \/ p.of # r,
          !.unreachable = IF p.what = "unreach" THEN @ + 1 ELSE @,
          !.got         = IF p.what = q.kind THEN 1 ELSE IF data \/ fin THEN p.n ELSE @,
          !.socket      = IF p.what = "synack" /\ own /\ @ = "synSent" THEN "open"
                          ELSE IF fin THEN "finRcvd"
                          ELSE IF p.what = "rst" /\ own THEN "reset" ELSE @]

\* recv_timeout, and try_recv until the channel is empty.
Receive(r) ==
    /\ req[r].pc = "wait" /\ inbox[r] # <<>>
    /\ req' = [req EXCEPT ![r] = Handles(@, r, Head(inbox[r]))]
    /\ inbox' = [inbox EXCEPT ![r] = Tail(@)]
    /\ UNCHANGED <<flows, active, lock, bridge, net>>

\* Nothing left, or nothing came: TCP gives up on a SYN refused too often.
Received(r) ==
    /\ req[r].pc = "wait" /\ inbox[r] = <<>>
    /\ IF req[r].kind = "http" /\ req[r].unreachable >= UNREACHABLE_LIMIT /\ ~req[r].established
       THEN Ends(r, "noroute")
       ELSE Goes(r, "top")
    /\ UNCHANGED <<divert, net>>

Step(r) ==
    \/ Open(r) \/ OpenCount(r) \/ DropRemove(r) \/ DropUncount(r)
    \/ Top(r) \/ Egress(r)
    \/ CheckHttp(r) \/ CheckUdp(r) \/ CheckPing(r) \/ Receive(r) \/ Received(r)

-----------------------------------------------------------------------------
(* Time, the engine and the mesh.                                          *)

\* The deadline passes.  It is looked at only after the poll, so it may as well pass while
\* the thread is there or still in the blocking send.
Expire(r) ==
    /\ req[r].pc \in {"egress", "check"} /\ ~req[r].expired
    /\ req' = [req EXCEPT ![r].expired = TRUE]
    /\ UNCHANGED <<divert, net>>

\* stop_locked tells the node, if it still runs, and then clears the flag.
EngineStops ==
    /\ node \in {"up", "failed"}
    /\ node' = IF node = "up" THEN "told" ELSE "gone"
    /\ UNCHANGED <<req, divert, outbound, mesh, running, refused>>

StopClears ==
    /\ running /\ node \in {"told", "gone"}
    /\ running' = FALSE
    /\ UNCHANGED <<req, divert, outbound, mesh, node, refused>>

\* The node ends and drops its end of the channel.
NodeEnds ==
    /\ node = "told"
    /\ node' = "gone" /\ outbound' = <<>>
    /\ UNCHANGED <<req, divert, mesh, running, refused>>

\* Its rx loop exits with an error: the node ends untold, the engine stays and its flag is
\* still set.
NodeFails ==
    /\ node = "up"
    /\ node' = "failed" /\ outbound' = <<>>
    /\ UNCHANGED <<req, divert, mesh, running, refused>>

\* What the far side may answer to a packet, as what the answer is and its number: an
\* ICMPv6 error carries its packet's, data the segments up to it.
Answers(m) ==
    CASE m.what = "fin"  -> {}
      [] m.what = "ping" -> {<<"ping", 0>>}
      [] m.what = "udp"  -> {<<"udp", 0>>, <<"unreach", m.n>>}
      [] m.what = "syn"  -> {<<"synack", 0>>, <<"rst", 0>>, <<"unreach", m.n>>}
      [] m.what = "http" -> {<<"fin", 0>>, <<"rst", 0>>, <<"unreach", m.n>>}
                            \cup ({"data", "fin"} \X (1..Whole))

\* What may come back for a packet: nothing, or one answer of the far side; to a
\* request, all of the response the server sends, in packets of their own.
Replies(m) ==
    {{}} \cup {{[of |-> m.of, key |-> m.key, what |-> a[1], n |-> a[2]]} : a \in Answers(m)}

NodeTakes ==
    /\ ~Closed /\ outbound # <<>>
    /\ outbound' = Tail(outbound)
    /\ \E ps \in Replies(Head(outbound)) :
         /\ mesh' = mesh \cup ps /\ Cardinality(mesh') <= MaxFlight
         /\ refused' = [refused EXCEPT ![Head(outbound).of] =
                          @ + Cardinality({p \in ps : p.what = "unreach"})]
    /\ UNCHANGED <<req, divert, running, node>>

Next ==
    \/ \E r \in Requests : NotOpened(r) \/ Step(r) \/ Expire(r)
    \/ ClaimLoad \/ ClaimLookup
    \/ EngineStops \/ StopClears \/ NodeEnds \/ NodeFails \/ NodeTakes

\* Every thread runs; the node takes what is queued for it, and ends when told to.  A
\* stop, a deadline and a reply are owed to nobody, nor is a claim.
Fairness ==
    /\ \A r \in Requests : WF_vars(Step(r) /\ req[r].pc # "idle")
    /\ WF_vars(ClaimLookup) /\ WF_vars(NodeTakes) /\ WF_vars(NodeEnds) /\ WF_vars(StopClears)
Spec == Init /\ [][Next]_vars /\ Fairness

-----------------------------------------------------------------------------
(* Properties.                                                             *)

\* The divert's counter is the table's size but for the flows whose open has not
\* counted them yet and the ones whose guard has not lowered it yet, and every flow in
\* the table leads to the thread that holds its guard: no flow outlives its request,
\* and the bridge's fast path is taken again when the last one is gone.
ActiveCountsFlows ==
    /\ active = Cardinality(DOMAIN flows)
                + Cardinality({r \in Requests : req[r].pc = "uncount"})
                - Cardinality({r \in Requests : req[r].pc = "count"})
    /\ \A k \in DOMAIN flows : req[flows[k]].key = k /\ req[flows[k]].pc \notin {"idle", "uncount", "done"}
    /\ \A r \in Requests : req[r].pc \notin {"idle", "uncount", "done"} => req[r].key \in DOMAIN flows

\* The packet the bridge gives back to the firewall and the TUN in this step.
GivenBack(p) ==
    \/ p \in mesh \ mesh' /\ bridge' = {}
    \/ p \in bridge \ bridge' /\ inbox' = inbox

\* A reply of a request is given back as ordinary traffic only once that request's flow
\* is closed, although Divert::claim looks at the counter and the table separately and
\* without the requests (meshhttp.rs:77-92).
RepliesClaimed ==
    [][\A r \in Requests : (\E p \in mesh \cup bridge : p.of = r /\ GivenBack(p))
         => req[r].pc \in {"uncount", "done"}]_vars

\* A datagram is repeated only when every earlier copy was refused, so the server is not
\* asked twice because it is slow (meshudp.rs:122), and at most RESENDS times.
RepeatsOnlyRefused ==
    \A r \in Requests : req[r].kind = "udp" /\ ~req[r].stale =>
        req[r].sends <= 1 + refused[r] /\ req[r].sends <= 1 + RESENDS

\* What a request reports is what happened: a restart only when the engine's flag is cleared
\* or the node has ended, which it also does by itself with the engine in place (an engine
\* "stopped or rebuilt", as meshhttp.rs:186 has it, is more than the code knows); no route
\* only after every copy (or UNREACHABLE_LIMIT SYNs) was refused; and a framed HTTP body
\* only when all of it came, whatever came late, reordered or for a request that had the
\* same key before.
VerdictJustified ==
    \A r \in Requests : LET q == req[r] IN
        /\ q.result = "restarted" => ~running \/ Closed
        /\ q.result = "noroute" /\ ~q.stale =>
             IF q.kind = "udp" THEN q.sends = 1 + RESENDS /\ refused[r] = q.sends
             ELSE refused[r] >= UNREACHABLE_LIMIT /\ ~q.established
        /\ q.result = "ok" /\ q.kind = "http" /\ q.frame # "close" => q.got = Whole

\* Once its deadline has passed or its engine stops a request ends and its flow is
\* closed; the send to the node has no timeout and waits only for a node that is draining.
RequestsEnd ==
    \A r \in Requests :
        req[r].pc # "idle" /\ (req[r].expired \/ node \in {"told", "gone"}) ~> req[r].pc = "done"
=============================================================================
