------------------------------- MODULE Filter -------------------------------
(***************************************************************************)
(* The stateful inbound firewall of shim/src/filter.rs.                    *)
(*                                                                         *)
(* The pump's reader thread records outbound mesh flows (note_outbound)    *)
(* and its bridge thread asks for a verdict on every inbound mesh packet   *)
(* (allow_inbound).  Both read the clock BEFORE they take the flow table's *)
(* lock, so each call is two steps here, Enter (parse, key, Instant::now)  *)
(* and the locked half, and a call may apply a stamp that is older than    *)
(* what the table already holds.                                           *)
(***************************************************************************)
EXTENDS Integers, FiniteSets

CONSTANTS
    Addrs,          \* mesh addresses of peers
    Ports,          \* transport ports
    Traffic,        \* the packets that occur, outbound and inbound
    AllowedPorts,   \* local ports the user opened (allowed_ports)
    MaxFlows,       \* MAX_FLOWS
    TcpIdle,        \* TCP_IDLE, in clock ticks
    UdpIdle,        \* UDP_IDLE, in clock ticks
    MaxSkew,        \* longest a call may be descheduled between Instant::now and lock
    MaxTime         \* bound on the clock, for model checking

Threads == {"reader", "bridge"}

Tracked == {"tcp", "udp"}

\* A packet as far as the filter looks at it: the next-header field, whether
\* it is IPv6 and long enough to parse, the peer's address (destination of an
\* outbound packet, source of an inbound one) and the two ports.
Packet == [next : Tracked \cup {"icmpv6", "other"}, whole : BOOLEAN,
           peer : Addrs, src_port : Ports, dst_port : Ports]

ASSUME TrafficAssumption == Traffic \subseteq Packet
ASSUME MaxFlowsAssumption == MaxFlows \in Nat \ {0}
ASSUME IdleAssumption == TcpIdle \in Nat /\ UdpIdle \in Nat
ASSUME SkewAssumption == MaxSkew \in Nat
ASSUME TimeAssumption == MaxTime \in Nat

-----------------------------------------------------------------------------
(* Parsing and flow keys.                                                  *)

FlowKey == [proto : Tracked, local_port : Ports, remote_addr : Addrs, remote_port : Ports]

\* parse: the fixed header must be there and be followed directly by a known
\* transport header; anything else (extension headers, truncation) is None.
parses(p) == p.whole /\ p.next \in Tracked \cup {"icmpv6"}

\* The key note_outbound builds: our port is the source port.
outbound_key(p) == [proto |-> p.next, local_port |-> p.src_port,
                    remote_addr |-> p.peer, remote_port |-> p.dst_port]

\* A mutant of inbound_key: the ports not mirrored.
inbound_key_unmirrored(p) == outbound_key(p)

\* The key allow_inbound builds: the mirror image, our port is the destination.
inbound_key(p) == [proto |-> p.next, local_port |-> p.dst_port,
                   remote_addr |-> p.peer, remote_port |-> p.src_port]

\* idle_limit
idle_limit(proto) == IF proto = "tcp" THEN TcpIdle ELSE UdpIdle

\* Instant::duration_since, which saturates at zero.
duration_since(t, seen) == IF t < seen THEN 0 ELSE t - seen

-----------------------------------------------------------------------------
VARIABLES
    now,        \* the monotonic clock
    flows,      \* the flow table: from the tracked keys to their last-seen stamps
    call,       \* per thread, the call between Instant::now and the lock: a set of at most one
    used,       \* history: the clock when each key was last inserted or refreshed, for
                \* every key ever recorded and not evicted for room since
    verdict     \* the verdict the last step returned, if it was a verdict: a set of at most one

vars == <<now, flows, call, used, verdict>>

\* A call that read the clock and has not locked the table yet.
Call == [pkt : Packet, stamp : Nat]

\* A verdict: the packet, the stamp, the answer, and (at most one element) when
\* the packet's key had last been used.
Verdict == [pkt : Packet, stamp : Nat, allow : BOOLEAN, since : SUBSET Nat]

\* A function with finitely many keys, none at first (HashMap::new).
Empty == [k \in {} |-> 0]

Init ==
    /\ now = 0
    /\ flows = Empty
    /\ call = [t \in Threads |-> {}]
    /\ used = Empty
    /\ verdict = {}

-----------------------------------------------------------------------------
(* Table operations, under the lock.                                       *)

Only(f, K) == [k \in K |-> f[k]]

Without(f, K) == Only(f, DOMAIN f \ K)

With(f, k, v) == [x \in DOMAIN f \cup {k} |-> IF x = k THEN v ELSE f[x]]

Live(f, k, t) == duration_since(t, f[k]) < idle_limit(k.proto)

\* What retain removes: entries idle for their limit at stamp t.
Expired(f, t) == {k \in DOMAIN f : ~Live(f, k, t)}

\* The candidates of min_by_key: the HashMap's order decides between ties.
Oldest(f) == {k \in DOMAIN f : \A j \in DOMAIN f : f[k] <= f[j]}

Full(f) == Cardinality(DOMAIN f) >= MaxFlows

\* Mutants of Evicted: nothing evicted, or any entry instead of the oldest.
EvictedNone(f, k, t) == {{}}

EvictedAny(f, k, t) ==
    IF Full(f) /\ k \notin DOMAIN f THEN {{o} : o \in DOMAIN f} ELSE {{}}

\* The choices of what note_outbound evicts to make room for key k at stamp t:
\* one oldest entry when the table is full of live flows, otherwise nothing.
Evicted(f, k, t) ==
    LET g == Without(f, Expired(f, t))
    IN  IF Full(f) /\ k \notin DOMAIN f /\ Full(g)
        THEN {{o} : o \in Oldest(g)}
        ELSE {{}}

\* What note_outbound purges first: a table that is full and lacks the key
\* loses its expired entries.
Purged(f, k, t) == IF Full(f) /\ k \notin DOMAIN f THEN Expired(f, t) ELSE {}

-----------------------------------------------------------------------------
(* The calls.                                                              *)

\* A mutant of EnterOutbound: ICMPv6 is tracked as if it had ports.
EnterOutboundIcmp(p) ==
    /\ call["reader"] = {}
    /\ parses(p)
    /\ call' = [call EXCEPT !["reader"] = {[pkt |-> p, stamp |-> now]}]
    /\ verdict' = {}
    /\ UNCHANGED <<now, flows, used>>

\* The reader enters note_outbound: the packet parses, is not ICMPv6 (both
\* early returns change nothing), and the clock is read.
EnterOutbound(p) ==
    /\ call["reader"] = {}
    /\ parses(p) /\ p.next # "icmpv6"
    /\ call' = [call EXCEPT !["reader"] = {[pkt |-> p, stamp |-> now]}]
    /\ verdict' = {}
    /\ UNCHANGED <<now, flows, used>>

\* note_outbound from the lock on: make room, then insert with the stamp.
NoteOutbound ==
    /\ \E c \in call["reader"] :
         LET k == outbound_key(c.pkt)
         IN  \E out \in Evicted(flows, k, c.stamp) :
               /\ flows' = With(Without(flows, Purged(flows, k, c.stamp) \cup out), k, c.stamp)
               /\ used' = With(Without(used, out), k, now)
    /\ call' = [call EXCEPT !["reader"] = {}]
    /\ verdict' = {}
    /\ UNCHANGED now

\* allow_inbound's answers that need no table: unparsable packets are denied,
\* ICMPv6 and packets to an opened port are allowed.
Static(p) == ~parses(p) \/ p.next = "icmpv6" \/ p.dst_port \in AllowedPorts

AllowStatic(p) ==
    /\ call["bridge"] = {}
    /\ Static(p)
    /\ verdict' = {[pkt |-> p, stamp |-> now, allow |-> parses(p), since |-> {}]}
    /\ UNCHANGED <<now, flows, call, used>>

\* The bridge enters allow_inbound and reads the clock.
EnterInbound(p) ==
    /\ call["bridge"] = {}
    /\ ~Static(p)
    /\ call' = [call EXCEPT !["bridge"] = {[pkt |-> p, stamp |-> now]}]
    /\ verdict' = {}
    /\ UNCHANGED <<now, flows, used>>

Answer(c, allow) ==
    LET k == inbound_key(c.pkt)
    IN  verdict' = {[pkt |-> c.pkt, stamp |-> c.stamp, allow |-> allow,
                     since |-> IF k \in DOMAIN used THEN {used[k]} ELSE {}]}

\* Mutants of AdmitLive: an admitted packet does not refresh its flow, or the
\* idle limit is not looked at.
AdmitLiveNoRefresh(c, k) ==
    /\ k \in DOMAIN flows /\ Live(flows, k, c.stamp)
    /\ used' = With(used, k, now)
    /\ Answer(c, TRUE)
    /\ UNCHANGED flows

AdmitStale(c, k) ==
    /\ k \in DOMAIN flows
    /\ flows' = With(flows, k, c.stamp)
    /\ used' = With(used, k, now)
    /\ Answer(c, TRUE)

\* A live flow admits the packet and is refreshed.
AdmitLive(c, k) ==
    /\ k \in DOMAIN flows /\ Live(flows, k, c.stamp)
    /\ flows' = With(flows, k, c.stamp)
    /\ used' = With(used, k, now)
    /\ Answer(c, TRUE)

\* An expired flow is removed and denies the packet.
DenyExpired(c, k) ==
    /\ k \in DOMAIN flows /\ ~Live(flows, k, c.stamp)
    /\ flows' = Without(flows, {k})
    /\ Answer(c, FALSE)
    /\ UNCHANGED used

\* A packet of no tracked flow is denied.
DenyUnknown(c, k) ==
    /\ k \notin DOMAIN flows
    /\ Answer(c, FALSE)
    /\ UNCHANGED <<flows, used>>

\* allow_inbound from the lock on.
AllowInbound ==
    /\ \E c \in call["bridge"] :
         LET k == inbound_key(c.pkt)
         IN  AdmitLive(c, k) \/ DenyExpired(c, k) \/ DenyUnknown(c, k)
    /\ call' = [call EXCEPT !["bridge"] = {}]
    /\ UNCHANGED now

\* Time passes; a call between its clock read and its lock is descheduled for
\* at most MaxSkew ticks.
Tick ==
    /\ now < MaxTime
    /\ \A t \in Threads : \A c \in call[t] : now - c.stamp < MaxSkew
    /\ now' = now + 1
    /\ verdict' = {}
    /\ UNCHANGED <<flows, call, used>>

Next ==
    \/ \E p \in Traffic : EnterOutbound(p) \/ EnterInbound(p) \/ AllowStatic(p)
    \/ NoteOutbound
    \/ AllowInbound
    \/ Tick

Spec == Init /\ [][Next]_vars

-----------------------------------------------------------------------------
(* Properties.                                                             *)

\* The table maps flow keys to stamps the clock has reached.
TypeOK ==
    /\ now \in 0..MaxTime
    /\ DOMAIN flows \subseteq FlowKey /\ \A k \in DOMAIN flows : flows[k] \in Nat
    /\ DOMAIN used \subseteq FlowKey /\ \A k \in DOMAIN used : used[k] \in Nat
    /\ call \in [Threads -> SUBSET Call]
    /\ verdict \in SUBSET Verdict

\* MAX_FLOWS (filter.rs:36-39): the table never holds more, although
\* note_outbound inserts unconditionally and purges with a stamp that may be
\* older than the entries.
TableBounded == Cardinality(DOMAIN flows) <= MaxFlows

\* Default deny (filter.rs:147-176): a packet that needs a flow is admitted
\* only when its key had been recorded outbound and was last used, in either
\* direction, within the idle limit, whatever the order the reader and the
\* bridge take the lock in.
AdmittedIsRecent ==
    \A v \in verdict : v.allow /\ ~Static(v.pkt) =>
        \E u \in v.since : duration_since(v.stamp, u) < idle_limit(v.pkt.next)

\* Replies get through: a packet is denied only when its key was never used,
\* was evicted from a table full of live flows, or was last used at least the
\* idle limit ago, less the two descheduling delays by which the bridge's and
\* the reader's stamps may lag (the entry's stamp and the purge's stamp).
RecentIsAdmitted ==
    \A v \in verdict : ~v.allow /\ ~Static(v.pkt) =>
        \A u \in v.since : v.stamp - u + 2 * MaxSkew >= idle_limit(v.pkt.next)

\* Eviction (filter.rs:134-139) takes a live flow only from a full table, only
\* for a key that is not in it, and only the stalest of the flows that stay.
EvictsStalest ==
    [][\A k \in DOMAIN used \ DOMAIN used' :
         /\ Cardinality(DOMAIN flows) = MaxFlows
         /\ DOMAIN flows' \ DOMAIN flows # {}
         /\ \A j \in DOMAIN flows \cap DOMAIN flows' : flows[k] <= flows[j]]_vars
=============================================================================
