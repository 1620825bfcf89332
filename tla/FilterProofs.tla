---------------------------- MODULE FilterProofs ----------------------------
(***************************************************************************)
(* What Filter's runs check on a small table, for every table size, idle   *)
(* limit, descheduling delay and traffic.                                  *)
(***************************************************************************)
EXTENDS Filter, FiniteSetTheorems, TLAPS

-----------------------------------------------------------------------------
(* The inductive invariant.                                                *)

\* Every call holds a stamp at most MaxSkew old; the bridge only asks the table
\* about packets that need a flow, the reader only records trackable ones.
CallsFresh ==
    /\ \A t \in Threads : \A c \in call[t] : c.stamp <= now /\ now - c.stamp <= MaxSkew
    /\ \A c \in call["bridge"] : ~Static(c.pkt)
    /\ \A c \in call["reader"] : parses(c.pkt) /\ c.pkt.next # "icmpv6"

\* An entry's stamp lags the entry's last use by at most MaxSkew.
StampsLag ==
    /\ DOMAIN flows \subseteq DOMAIN used
    /\ \A k \in DOMAIN flows : flows[k] <= used[k] /\ used[k] - flows[k] <= MaxSkew

\* A key that left the table without being evicted had been idle for its limit,
\* less the lag of its stamp.
RemovedIsIdle ==
    \A k \in DOMAIN used \ DOMAIN flows : now - used[k] + MaxSkew >= idle_limit(k.proto)

\* History never runs ahead of the clock.
UsedInPast == \A k \in DOMAIN used : used[k] <= now

TableFinite == IsFiniteSet(DOMAIN flows)

IInv ==
    /\ TypeOK
    /\ TableFinite
    /\ TableBounded
    /\ CallsFresh
    /\ StampsLag
    /\ RemovedIsIdle
    /\ UsedInPast
    /\ AdmittedIsRecent
    /\ RecentIsAdmitted

-----------------------------------------------------------------------------
(* The constants and operators.                                            *)

\* idle_limit is a natural number for every protocol.
LEMMA IdleNat == ASSUME NEW p PROVE idle_limit(p) \in Nat
  BY IdleAssumption DEF idle_limit

\* The keys of trackable packets are flow keys.
LEMMA KeysTyped ==
  ASSUME NEW p \in Packet, parses(p), p.next # "icmpv6"
  PROVE  /\ outbound_key(p) \in FlowKey /\ outbound_key(p).proto = p.next
         /\ inbound_key(p) \in FlowKey /\ inbound_key(p).proto = p.next
  BY DEF Packet, parses, outbound_key, inbound_key, FlowKey, Tracked

\* Making room (note_outbound's purge and eviction) leaves a table that one
\* insert cannot take over MAX_FLOWS.
LEMMA RoomIsMade ==
  ASSUME NEW f, NEW k, NEW t, IsFiniteSet(DOMAIN f), Cardinality(DOMAIN f) <= MaxFlows,
         NEW out \in Evicted(f, k, t)
  PROVE  LET D == (DOMAIN f \ (Purged(f, k, t) \cup out)) \cup {k}
         IN  IsFiniteSet(D) /\ Cardinality(D) <= MaxFlows
<1> DEFINE D == (DOMAIN f \ (Purged(f, k, t) \cup out)) \cup {k}
           G == DOMAIN f \ Expired(f, t)
<1>1. MaxFlows \in Nat /\ MaxFlows > 0
  BY MaxFlowsAssumption
<1>2. \A S : S \subseteq DOMAIN f => /\ IsFiniteSet(S) /\ Cardinality(S) \in Nat
                                     /\ Cardinality(S) <= Cardinality(DOMAIN f)
  BY FS_Subset, FS_CardinalityType
<1>3. \A S : IsFiniteSet(S) /\ Cardinality(S) < MaxFlows =>
             IsFiniteSet(S \cup {k}) /\ Cardinality(S \cup {k}) <= MaxFlows
  BY <1>1, FS_AddElement, FS_CardinalityType
<1>4. DOMAIN Without(f, Expired(f, t)) = G
  BY DEF Without, Only
<1>5. CASE k \in DOMAIN f
  <2>1. Purged(f, k, t) = {} /\ out = {}
    BY <1>5 DEF Purged, Evicted
  <2>2. D = DOMAIN f
    BY <2>1, <1>5
  <2> QED BY <2>2
<1>6. CASE k \notin DOMAIN f /\ ~Full(f)
  <2>1. D = DOMAIN f \cup {k}
    BY <1>6 DEF Purged, Evicted
  <2>2. Cardinality(DOMAIN f) < MaxFlows
    BY <1>1, <1>2, <1>6 DEF Full
  <2> QED BY <2>1, <2>2, <1>3
<1>7. CASE k \notin DOMAIN f /\ Full(f) /\ ~Full(Without(f, Expired(f, t)))
  <2>1. D = G \cup {k}
    BY <1>7 DEF Purged, Evicted
  <2>2. Cardinality(G) < MaxFlows /\ IsFiniteSet(G)
    BY <1>1, <1>2, <1>4, <1>7 DEF Full
  <2> QED BY <2>1, <2>2, <1>3
<1>8. CASE k \notin DOMAIN f /\ Full(f) /\ Full(Without(f, Expired(f, t)))
  <2>1. PICK o \in G : out = {o}
    BY <1>4, <1>8 DEF Evicted, Oldest
  <2>2. D = (G \ {o}) \cup {k}
    BY <2>1, <1>8 DEF Purged
  <2>3. IsFiniteSet(G) /\ Cardinality(G) \in Nat /\ Cardinality(G) <= MaxFlows
    BY <1>1, <1>2, FS_CardinalityType
  <2>4. IsFiniteSet(G \ {o}) /\ Cardinality(G \ {o}) = Cardinality(G) - 1
    BY <2>1, <2>3, FS_RemoveElement
  <2>5. Cardinality(G \ {o}) < MaxFlows
    BY <2>3, <2>4, <1>1
  <2> QED BY <2>2, <2>4, <2>5, <1>3
<1> QED BY <1>5, <1>6, <1>7, <1>8

\* What note_outbound evicts was in the table.
LEMMA EvictedFromTable ==
  ASSUME NEW f, NEW k, NEW t, NEW out \in Evicted(f, k, t)
  PROVE  out \subseteq DOMAIN f
  BY DEF Evicted, Oldest, Without, Only

-----------------------------------------------------------------------------
(* Preservation, one lemma per locked half.                                *)

\* The invariant holds of the empty table.
LEMMA InitIInv == Init => IInv
<1> SUFFICES ASSUME Init PROVE IInv
  OBVIOUS
<1>1. DOMAIN flows = {} /\ DOMAIN used = {}
  BY DEF Init, Empty
<1>2. TypeOK
  BY <1>1, TimeAssumption DEF Init, TypeOK, Call, Verdict, Threads
<1>3. TableFinite /\ TableBounded
  BY <1>1, FS_EmptySet, MaxFlowsAssumption DEF TableFinite, TableBounded
<1>4. CallsFresh /\ StampsLag /\ RemovedIsIdle /\ UsedInPast
  BY <1>1 DEF Init, CallsFresh, StampsLag, RemovedIsIdle, UsedInPast, Threads
<1>5. AdmittedIsRecent /\ RecentIsAdmitted
  BY DEF Init, AdmittedIsRecent, RecentIsAdmitted
<1> QED BY <1>2, <1>3, <1>4, <1>5 DEF IInv

\* note_outbound's locked half preserves the invariant.
LEMMA NoteOutboundIInv == ASSUME IInv, NoteOutbound PROVE IInv'
<1> USE DEF IInv
<1>1. PICK c \in call["reader"] :
        \E out \in Evicted(flows, outbound_key(c.pkt), c.stamp) :
          /\ flows' = With(Without(flows, Purged(flows, outbound_key(c.pkt), c.stamp) \cup out),
                           outbound_key(c.pkt), c.stamp)
          /\ used' = With(Without(used, out), outbound_key(c.pkt), now)
  BY DEF NoteOutbound
<1> DEFINE k == outbound_key(c.pkt)
           gone == Purged(flows, k, c.stamp)
<1>2. PICK out \in Evicted(flows, k, c.stamp) :
          /\ flows' = With(Without(flows, gone \cup out), k, c.stamp)
          /\ used' = With(Without(used, out), k, now)
  BY <1>1
<1>3. /\ now' = now /\ verdict' = {}
      /\ call' = [call EXCEPT !["reader"] = {}]
  BY DEF NoteOutbound
<1>4. /\ c \in Call /\ c.pkt \in Packet /\ c.stamp \in Nat
      /\ c.stamp <= now /\ now - c.stamp <= MaxSkew
      /\ parses(c.pkt) /\ c.pkt.next # "icmpv6"
  BY DEF TypeOK, CallsFresh, Call, Threads
<1>5. k \in FlowKey
  BY <1>4, KeysTyped
<1>6. /\ DOMAIN flows' = (DOMAIN flows \ (gone \cup out)) \cup {k}
      /\ DOMAIN used' = (DOMAIN used \ out) \cup {k}
  BY <1>2 DEF With, Without, Only
<1>7. /\ flows'[k] = c.stamp /\ used'[k] = now
      /\ \A j \in DOMAIN flows' \ {k} : flows'[j] = flows[j] /\ j \in DOMAIN flows
      /\ \A j \in DOMAIN used' \ {k} : used'[j] = used[j] /\ j \in DOMAIN used
  BY <1>2, <1>6 DEF With, Without, Only
<1>8. now \in Nat /\ MaxSkew \in Nat
  BY TimeAssumption, SkewAssumption DEF TypeOK
<1> HIDE DEF k, gone
<1>9. TypeOK'
  BY <1>3, <1>4, <1>5, <1>6, <1>7, <1>8 DEF TypeOK, Threads
<1>10. TableFinite' /\ TableBounded'
  BY <1>6, RoomIsMade DEF TableFinite, TableBounded, gone
<1>11. CallsFresh'
  BY <1>3 DEF CallsFresh, TypeOK, Threads
<1>12. StampsLag'
  BY <1>4, <1>6, <1>7, <1>8 DEF StampsLag, TypeOK
<1>13. UsedInPast'
  BY <1>3, <1>7, <1>8 DEF UsedInPast, TypeOK
<1>14. RemovedIsIdle'
  <2> SUFFICES ASSUME NEW j \in DOMAIN used' \ DOMAIN flows'
               PROVE  now' - used'[j] + MaxSkew >= idle_limit(j.proto)
    BY DEF RemovedIsIdle
  <2>1. j # k /\ j \in DOMAIN used /\ used'[j] = used[j] /\ j \notin out
    BY <1>6, <1>7
  <2>2. CASE j \notin DOMAIN flows
    BY <1>3, <2>1, <2>2 DEF RemovedIsIdle
  <2>3. CASE j \in DOMAIN flows
    <3>1. j \in gone
      BY <1>6, <2>1, <2>3
    <3>2. ~Live(flows, j, c.stamp)
      BY <3>1 DEF gone, Purged, Expired
    <3>3. duration_since(c.stamp, flows[j]) >= idle_limit(j.proto)
      BY <3>2, <2>3, <1>4, IdleNat DEF Live, duration_since, TypeOK
    <3>4. flows[j] <= used[j] /\ used[j] - flows[j] <= MaxSkew /\ used[j] <= now
          /\ flows[j] \in Nat /\ used[j] \in Nat
      BY <2>1, <2>3 DEF StampsLag, UsedInPast, TypeOK
    <3> QED BY <3>3, <3>4, <2>1, <1>3, <1>4, <1>8, IdleNat DEF duration_since
  <2> QED BY <2>2, <2>3
<1>15. AdmittedIsRecent' /\ RecentIsAdmitted'
  BY <1>3 DEF AdmittedIsRecent, RecentIsAdmitted
<1> QED BY <1>9, <1>10, <1>11, <1>12, <1>13, <1>14, <1>15

\* allow_inbound's locked half preserves the invariant.
LEMMA AllowInboundIInv == ASSUME IInv, AllowInbound PROVE IInv'
<1> USE DEF IInv
<1>1. PICK c \in call["bridge"] :
        \/ AdmitLive(c, inbound_key(c.pkt))
        \/ DenyExpired(c, inbound_key(c.pkt))
        \/ DenyUnknown(c, inbound_key(c.pkt))
  BY DEF AllowInbound
<1> DEFINE k == inbound_key(c.pkt)
           since == IF k \in DOMAIN used THEN {used[k]} ELSE {}
<1>2. now' = now /\ call' = [call EXCEPT !["bridge"] = {}]
  BY DEF AllowInbound
<1>3. /\ c \in Call /\ c.pkt \in Packet /\ c.stamp \in Nat
      /\ c.stamp <= now /\ now - c.stamp <= MaxSkew
      /\ ~Static(c.pkt) /\ parses(c.pkt) /\ c.pkt.next # "icmpv6"
  BY DEF TypeOK, CallsFresh, Call, Threads, Static
<1>4. k \in FlowKey /\ k.proto = c.pkt.next
  BY <1>3, KeysTyped
<1>5. now \in Nat /\ MaxSkew \in Nat
  BY TimeAssumption, SkewAssumption DEF TypeOK
<1>6. since \in SUBSET Nat
  BY DEF TypeOK
<1>7. \A allow \in BOOLEAN : Answer(c, allow) =>
        verdict' = {[pkt |-> c.pkt, stamp |-> c.stamp, allow |-> allow, since |-> since]}
  BY DEF Answer
<1> HIDE DEF k, since
<1>8. CallsFresh'
  BY <1>2 DEF CallsFresh, TypeOK, Threads
<1>9. CASE AdmitLive(c, k)
  <2>1. /\ k \in DOMAIN flows /\ Live(flows, k, c.stamp)
        /\ flows' = With(flows, k, c.stamp) /\ used' = With(used, k, now)
        /\ verdict' = {[pkt |-> c.pkt, stamp |-> c.stamp, allow |-> TRUE, since |-> since]}
    BY <1>7, <1>9 DEF AdmitLive
  <2>2. /\ DOMAIN flows' = DOMAIN flows /\ DOMAIN used' = DOMAIN used
        /\ flows'[k] = c.stamp /\ used'[k] = now
        /\ \A j \in DOMAIN flows \ {k} : flows'[j] = flows[j]
        /\ \A j \in DOMAIN used \ {k} : used'[j] = used[j]
        /\ k \in DOMAIN used
    BY <2>1 DEF With, StampsLag
  <2>3. TypeOK'
    <3>1. verdict' \in SUBSET Verdict
      BY <1>3, <1>6, <2>1 DEF Verdict
    <3>2. call' \in [Threads -> SUBSET Call]
      BY <1>2 DEF TypeOK
    <3>3. /\ DOMAIN flows' \subseteq FlowKey /\ \A j \in DOMAIN flows' : flows'[j] \in Nat
          /\ DOMAIN used' \subseteq FlowKey /\ \A j \in DOMAIN used' : used'[j] \in Nat
      BY <1>3, <1>5, <2>1, <2>2 DEF TypeOK
    <3> QED BY <1>2, <3>1, <3>2, <3>3 DEF TypeOK
  <2>4. TableFinite' /\ TableBounded'
    BY <2>2 DEF TableFinite, TableBounded
  <2>5. StampsLag'
    BY <1>3, <1>5, <2>2 DEF StampsLag
  <2>6. UsedInPast'
    BY <1>2, <1>5, <2>2 DEF UsedInPast, TypeOK
  <2>7. RemovedIsIdle'
    BY <1>2, <2>1, <2>2 DEF RemovedIsIdle
  <2>8. AdmittedIsRecent'
    <3>1. since = {used[k]}
      BY <2>2 DEF since
    <3>2. flows[k] <= used[k] /\ flows[k] \in Nat /\ used[k] \in Nat
      BY <2>1, <2>2 DEF StampsLag, TypeOK
    <3>3. duration_since(c.stamp, used[k]) < idle_limit(c.pkt.next)
      BY <2>1, <3>2, <1>3, <1>4, IdleNat DEF Live, duration_since
    <3> QED BY <2>1, <3>1, <3>3 DEF AdmittedIsRecent
  <2>9. RecentIsAdmitted'
    BY <2>1 DEF RecentIsAdmitted
  <2> QED BY <1>8, <2>3, <2>4, <2>5, <2>6, <2>7, <2>8, <2>9
<1>10. CASE DenyExpired(c, k)
  <2>1. /\ k \in DOMAIN flows /\ ~Live(flows, k, c.stamp)
        /\ flows' = Without(flows, {k}) /\ used' = used
        /\ verdict' = {[pkt |-> c.pkt, stamp |-> c.stamp, allow |-> FALSE, since |-> since]}
    BY <1>7, <1>10 DEF DenyExpired
  <2>2. /\ DOMAIN flows' = DOMAIN flows \ {k}
        /\ \A j \in DOMAIN flows' : flows'[j] = flows[j]
    BY <2>1 DEF Without, Only
  <2>3. TypeOK'
    <3>1. verdict' \in SUBSET Verdict
      BY <1>3, <1>6, <2>1 DEF Verdict
    <3>2. call' \in [Threads -> SUBSET Call]
      BY <1>2 DEF TypeOK
    <3>3. /\ DOMAIN flows' \subseteq FlowKey /\ \A j \in DOMAIN flows' : flows'[j] \in Nat
          /\ DOMAIN used' \subseteq FlowKey /\ \A j \in DOMAIN used' : used'[j] \in Nat
      BY <1>3, <1>5, <2>1, <2>2 DEF TypeOK
    <3> QED BY <1>2, <3>1, <3>2, <3>3 DEF TypeOK
  <2>4. TableFinite' /\ TableBounded'
    <3>1. /\ IsFiniteSet(DOMAIN flows') /\ Cardinality(DOMAIN flows') \in Nat
          /\ Cardinality(DOMAIN flows) \in Nat
          /\ Cardinality(DOMAIN flows') <= Cardinality(DOMAIN flows)
      BY <2>2, FS_Subset, FS_CardinalityType DEF TableFinite
    <3> QED BY <3>1, MaxFlowsAssumption DEF TableFinite, TableBounded
  <2>5. StampsLag' /\ UsedInPast'
    BY <1>2, <2>1, <2>2 DEF StampsLag, UsedInPast
  <2>6. c.stamp - used[k] + MaxSkew >= idle_limit(k.proto)
    <3>1. /\ flows[k] <= used[k] /\ used[k] - flows[k] <= MaxSkew
          /\ flows[k] \in Nat /\ used[k] \in Nat
      BY <2>1 DEF StampsLag, TypeOK
    <3>2. used[k] <= now
      BY <2>1 DEF UsedInPast, StampsLag
    <3>3. duration_since(c.stamp, flows[k]) >= idle_limit(k.proto)
      BY <2>1, <3>1, <1>3, IdleNat DEF Live, duration_since
    <3>4. CASE c.stamp >= flows[k]
      BY <3>1, <3>3, <3>4, <1>3, <1>5, IdleNat DEF duration_since
    <3>5. CASE c.stamp < flows[k]
      <4>1. idle_limit(k.proto) <= 0
        BY <3>1, <3>3, <3>5, <1>3, IdleNat DEF duration_since
      <4>2. c.stamp - used[k] + MaxSkew >= 0
        BY <3>1, <3>2, <1>3, <1>5
      <4> QED BY <4>1, <4>2, <3>1, <1>3, <1>5, IdleNat
    <3> QED BY <3>4, <3>5, <3>1, <1>3
  <2>7. RemovedIsIdle'
    <3> SUFFICES ASSUME NEW j \in DOMAIN used' \ DOMAIN flows'
                 PROVE  now' - used'[j] + MaxSkew >= idle_limit(j.proto)
      BY DEF RemovedIsIdle
    <3>1. CASE j = k
      BY <1>2, <1>3, <1>5, <2>1, <2>6, <3>1, IdleNat DEF StampsLag, TypeOK
    <3>2. CASE j # k
      BY <1>2, <2>1, <2>2, <3>2 DEF RemovedIsIdle
    <3> QED BY <3>1, <3>2
  <2>8. AdmittedIsRecent'
    BY <2>1 DEF AdmittedIsRecent
  <2>9. RecentIsAdmitted'
    <3>1. since = {used[k]} /\ used[k] \in Nat
      BY <2>1 DEF since, StampsLag, TypeOK
    <3>2. c.stamp - used[k] + 2 * MaxSkew >= idle_limit(c.pkt.next)
      BY <2>6, <3>1, <1>3, <1>4, <1>5, IdleNat
    <3> QED BY <2>1, <3>1, <3>2 DEF RecentIsAdmitted
  <2> QED BY <1>8, <2>3, <2>4, <2>5, <2>7, <2>8, <2>9
<1>11. CASE DenyUnknown(c, k)
  <2>1. /\ k \notin DOMAIN flows /\ flows' = flows /\ used' = used
        /\ verdict' = {[pkt |-> c.pkt, stamp |-> c.stamp, allow |-> FALSE, since |-> since]}
    BY <1>7, <1>11 DEF DenyUnknown
  <2>2. TypeOK'
    BY <1>2, <1>3, <1>6, <2>1 DEF TypeOK, Threads, Verdict
  <2>3. TableFinite' /\ TableBounded' /\ StampsLag' /\ UsedInPast' /\ RemovedIsIdle'
    BY <1>2, <2>1 DEF TableFinite, TableBounded, StampsLag, UsedInPast, RemovedIsIdle
  <2>4. AdmittedIsRecent'
    BY <2>1 DEF AdmittedIsRecent
  <2>5. RecentIsAdmitted'
    <3>1. ASSUME NEW u \in since PROVE c.stamp - u + 2 * MaxSkew >= idle_limit(c.pkt.next)
      <4>1. k \in DOMAIN used /\ u = used[k] /\ used[k] \in Nat
        BY <3>1 DEF since, TypeOK
      <4>2. now - used[k] + MaxSkew >= idle_limit(k.proto)
        BY <4>1, <2>1 DEF RemovedIsIdle
      <4> QED BY <4>1, <4>2, <1>3, <1>4, <1>5, IdleNat
    <3> QED BY <2>1, <3>1 DEF RecentIsAdmitted
  <2> QED BY <1>8, <2>2, <2>3, <2>4, <2>5
<1> QED BY <1>1, <1>9, <1>10, <1>11 DEF k

\* Entering a call, which reads the clock and keeps the packet, preserves the
\* invariant.
LEMMA EnterIInv ==
  ASSUME IInv, NEW p \in Traffic, EnterOutbound(p) \/ EnterInbound(p)
  PROVE  IInv'
<1> USE DEF IInv
<1>1. now \in Nat /\ MaxSkew \in Nat /\ p \in Packet
  BY TimeAssumption, SkewAssumption, TrafficAssumption DEF TypeOK
<1>2. PICK t \in Threads :
        /\ t = "reader" => parses(p) /\ p.next # "icmpv6"
        /\ t = "bridge" => ~Static(p)
        /\ call' = [call EXCEPT ![t] = {[pkt |-> p, stamp |-> now]}]
  BY DEF EnterOutbound, EnterInbound, Threads
<1>3. now' = now /\ flows' = flows /\ used' = used /\ verdict' = {}
  BY DEF EnterOutbound, EnterInbound
<1>4. TypeOK'
  BY <1>1, <1>2, <1>3 DEF TypeOK, Call
<1>5. CallsFresh'
  BY <1>1, <1>2, <1>3 DEF CallsFresh, TypeOK, Threads
<1>6. TableFinite' /\ TableBounded' /\ StampsLag' /\ UsedInPast' /\ RemovedIsIdle'
  BY <1>3 DEF TableFinite, TableBounded, StampsLag, UsedInPast, RemovedIsIdle
<1>7. AdmittedIsRecent' /\ RecentIsAdmitted'
  BY <1>3 DEF AdmittedIsRecent, RecentIsAdmitted
<1> QED BY <1>4, <1>5, <1>6, <1>7

\* The steps that leave the table alone preserve the invariant.
LEMMA OtherIInv ==
  ASSUME IInv,
         \/ \E p \in Traffic : EnterOutbound(p) \/ EnterInbound(p) \/ AllowStatic(p)
         \/ Tick
         \/ UNCHANGED vars
  PROVE  IInv'
<1> USE DEF IInv
<1>1. now \in Nat /\ MaxSkew \in Nat
  BY TimeAssumption, SkewAssumption DEF TypeOK
<1>2. ASSUME NEW p \in Traffic, EnterOutbound(p) \/ EnterInbound(p) PROVE IInv'
  BY <1>2, EnterIInv
<1>3. ASSUME NEW p \in Traffic, AllowStatic(p) PROVE IInv'
  <2>1. p \in Packet
    BY TrafficAssumption
  <2>2. /\ now' = now /\ flows' = flows /\ used' = used /\ call' = call /\ Static(p)
        /\ verdict' = {[pkt |-> p, stamp |-> now, allow |-> parses(p), since |-> {}]}
    BY <1>3 DEF AllowStatic
  <2>3. parses(p) \in BOOLEAN
    BY <2>1 DEF parses, Packet
  <2>4. TypeOK'
    BY <1>1, <2>1, <2>2, <2>3 DEF TypeOK, Verdict
  <2>5. TableFinite' /\ TableBounded' /\ CallsFresh' /\ StampsLag' /\ UsedInPast' /\ RemovedIsIdle'
    BY <2>2 DEF TableFinite, TableBounded, CallsFresh, StampsLag, UsedInPast, RemovedIsIdle
  <2>6. AdmittedIsRecent' /\ RecentIsAdmitted'
    BY <2>2 DEF AdmittedIsRecent, RecentIsAdmitted
  <2> QED BY <2>4, <2>5, <2>6
<1>4. CASE Tick
  <2>1. /\ now' = now + 1 /\ flows' = flows /\ used' = used /\ call' = call /\ verdict' = {}
        /\ now < MaxTime
        /\ \A t \in Threads : \A c \in call[t] : now - c.stamp < MaxSkew
    BY <1>4 DEF Tick
  <2>2. TypeOK'
    BY <1>1, <2>1, TimeAssumption DEF TypeOK
  <2>3. CallsFresh'
    <3>1. \A t \in Threads : \A c \in call'[t] : c.stamp <= now' /\ now' - c.stamp <= MaxSkew
      <4> SUFFICES ASSUME NEW t \in Threads, NEW c \in call'[t]
                   PROVE  c.stamp <= now' /\ now' - c.stamp <= MaxSkew
        OBVIOUS
      <4>1. c \in call[t]
        BY <2>1
      <4>2. c.stamp \in Nat /\ c.stamp <= now /\ now - c.stamp < MaxSkew
        BY <2>1, <4>1 DEF TypeOK, Call, CallsFresh
      <4> QED BY <2>1, <4>2, <1>1
    <3>2. /\ \A c \in call'["bridge"] : ~Static(c.pkt)
          /\ \A c \in call'["reader"] : parses(c.pkt) /\ c.pkt.next # "icmpv6"
      BY <2>1 DEF CallsFresh
    <3> QED BY <3>1, <3>2 DEF CallsFresh
  <2>4. TableFinite' /\ TableBounded' /\ StampsLag'
    BY <2>1 DEF TableFinite, TableBounded, StampsLag
  <2>5. UsedInPast'
    BY <1>1, <2>1 DEF UsedInPast, TypeOK
  <2>6. RemovedIsIdle'
    BY <1>1, <2>1, IdleNat DEF RemovedIsIdle, TypeOK
  <2>7. AdmittedIsRecent' /\ RecentIsAdmitted'
    BY <2>1 DEF AdmittedIsRecent, RecentIsAdmitted
  <2> QED BY <2>2, <2>3, <2>4, <2>5, <2>6, <2>7
<1>5. CASE UNCHANGED vars
  BY <1>5 DEF vars, TypeOK, TableFinite, TableBounded, CallsFresh, StampsLag, RemovedIsIdle,
              UsedInPast, AdmittedIsRecent, RecentIsAdmitted
<1> QED BY <1>2, <1>3, <1>4, <1>5

-----------------------------------------------------------------------------
(* The theorems.                                                           *)

\* The invariant is inductive.
THEOREM Invariance == Spec => []IInv
<1>1. Init => IInv
  BY InitIInv
<1>2. IInv /\ [Next]_vars => IInv'
  BY NoteOutboundIInv, AllowInboundIInv, OtherIInv DEF Next
<1> QED BY <1>1, <1>2, PTL DEF Spec

\* Type correctness of the filter for every value of the constants.
THEOREM TypeCorrect == Spec => []TypeOK
<1>1. IInv => TypeOK
  BY DEF IInv
<1> QED BY <1>1, Invariance, PTL

\* The flow table of filter.rs never exceeds MAX_FLOWS entries.
THEOREM Bounded == Spec => []TableBounded
<1>1. IInv => TableBounded
  BY DEF IInv
<1> QED BY <1>1, Invariance, PTL

\* allow_inbound admits a packet that needs a flow only when that flow was
\* recorded outbound and was used within the idle limit.
THEOREM DefaultDeny == Spec => []AdmittedIsRecent
<1>1. IInv => AdmittedIsRecent
  BY DEF IInv
<1> QED BY <1>1, Invariance, PTL

\* allow_inbound never denies a reply on a flow that is recent enough and was
\* not evicted for room, whatever stale stamps the two threads apply.
THEOREM RepliesGetThrough == Spec => []RecentIsAdmitted
<1>1. IInv => RecentIsAdmitted
  BY DEF IInv
<1> QED BY <1>1, Invariance, PTL

\* note_outbound evicts a live flow only from a full table, and the stalest.
THEOREM EvictionIsFair == Spec => EvictsStalest
<1>1. IInv /\ [Next]_vars => [\A k \in DOMAIN used \ DOMAIN used' :
         /\ Cardinality(DOMAIN flows) = MaxFlows
         /\ DOMAIN flows' \ DOMAIN flows # {}
         /\ \A j \in DOMAIN flows \cap DOMAIN flows' : flows[k] <= flows[j]]_vars
  <2> SUFFICES ASSUME IInv, Next, NEW k \in DOMAIN used \ DOMAIN used'
               PROVE  /\ Cardinality(DOMAIN flows) = MaxFlows
                      /\ DOMAIN flows' \ DOMAIN flows # {}
                      /\ \A j \in DOMAIN flows \cap DOMAIN flows' : flows[k] <= flows[j]
    OBVIOUS
  <2>1. NoteOutbound
    BY DEF Next, EnterOutbound, EnterInbound, AllowStatic, AllowInbound, AdmitLive, DenyExpired,
           DenyUnknown, Tick, With
  <2>2. PICK c \in call["reader"] :
          \E out \in Evicted(flows, outbound_key(c.pkt), c.stamp) :
            /\ flows' = With(Without(flows, Purged(flows, outbound_key(c.pkt), c.stamp) \cup out),
                             outbound_key(c.pkt), c.stamp)
            /\ used' = With(Without(used, out), outbound_key(c.pkt), now)
    BY <2>1 DEF NoteOutbound
  <2> DEFINE n == outbound_key(c.pkt)
             G == Without(flows, Expired(flows, c.stamp))
  <2>3. PICK out \in Evicted(flows, n, c.stamp) :
            /\ flows' = With(Without(flows, Purged(flows, n, c.stamp) \cup out), n, c.stamp)
            /\ used' = With(Without(used, out), n, now)
    BY <2>2
  <2> HIDE DEF n
  <2>4. k \in out
    BY <2>3 DEF With, Without, Only
  <2>5. Full(flows) /\ n \notin DOMAIN flows /\ k \in Oldest(G) /\ out = {k}
    BY <2>4 DEF Evicted
  <2>6. Cardinality(DOMAIN flows) = MaxFlows
    BY <2>5, MaxFlowsAssumption, FS_CardinalityType DEF IInv, TableFinite, TableBounded, Full
  <2>7. DOMAIN flows' = (DOMAIN flows \ (Expired(flows, c.stamp) \cup {k})) \cup {n}
    BY <2>3, <2>5 DEF With, Without, Only, Purged
  <2>8. \A j \in DOMAIN flows \cap DOMAIN flows' : flows[k] <= flows[j]
    <3> SUFFICES ASSUME NEW j \in DOMAIN flows \cap DOMAIN flows' PROVE flows[k] <= flows[j]
      OBVIOUS
    <3>1. j \in DOMAIN G /\ k \in DOMAIN G /\ G[j] = flows[j] /\ G[k] = flows[k]
      BY <2>5, <2>7 DEF Without, Only, Oldest
    <3>2. G[k] <= G[j]
      BY <2>5, <3>1 DEF Oldest
    <3> QED BY <3>1, <3>2
  <2> QED BY <2>5, <2>6, <2>7, <2>8
<1> QED BY <1>1, Invariance, PTL DEF Spec, EvictsStalest
=============================================================================
