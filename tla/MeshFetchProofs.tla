--------------------------- MODULE MeshFetchProofs ---------------------------
(***************************************************************************)
(* Proofs about the requests over the mesh and the divert they share, for  *)
(* any requests, kinds, ports and channel size.                            *)
(***************************************************************************)
EXTENDS MeshFetch, FiniteSetTheorems, SequenceTheorems, TLAPS

-----------------------------------------------------------------------------
(* The inductive invariant.                                                *)

\* A thread between its flow's count and the drop of its guard.
Held == {"top", "egress", "check", "wait", "drop"}
\* A thread whose flow is in the table.
Holds == Held \cup {"count"}
\* A thread the counter counts.
Counted == Held \cup {"uncount"}

Keys == {0, 1} \X Ports
Sockets == {"none", "synSent", "bound", "open", "finRcvd", "reset"}
Results == {None, "ok", "noroute", "restarted", "unreachable", "other", "timeout", "reached", "silent"}

Thread ==
    [kind : {"http", "udp", "ping", None}, frame : Frames \cup {None},
     pc : Held \cup {"idle", "count", "uncount", "done"}, key : Keys \cup {None},
     result : Results, queued : BOOLEAN, sends : Nat, unreachable : Nat,
     socket : Sockets, got : 0..Whole, established : BOOLEAN, resent : BOOLEAN,
     expired : BOOLEAN, stale : BOOLEAN]

\* A packet on its way to a request, and one a request sends.
Reply == [of : Requests, key : Keys, n : Nat, what : {"unreach", "udp", "ping", "synack", "rst"}]
         \cup [of : Requests, key : Keys, n : 0..Whole, what : {"data", "fin"}]
Sent == [of : Requests, key : Keys, n : Nat, what : {"fin", "syn", "http", "udp", "ping"}]

TypeOK ==
    /\ req \in [Requests -> Thread] /\ inbox \in [Requests -> Seq(Reply)]
    /\ active \in Int /\ mesh \subseteq Reply /\ IsFiniteSet(mesh)
    /\ bridge \subseteq Reply /\ \A p, q \in bridge : p = q
    /\ outbound \in Seq(Sent) /\ running \in BOOLEAN /\ node \in {"up", "told", "gone", "failed"}
    /\ refused \in [Requests -> Nat]

\* A thread that has begun makes a request; only an echo is queued ahead of the loop.
Kinds ==
    \A r \in Requests :
        /\ req[r].pc # "idle" => req[r].kind # None
        /\ req[r].queued => req[r].kind = "ping"

\* The table's entries and the threads that hold a guard correspond one to one.
TableHeld ==
    /\ \A k \in DOMAIN flows :
         k \in Keys /\ flows[k] \in Requests /\ req[flows[k]].key = k /\ req[flows[k]].pc \in Holds
    /\ \A r \in Requests : req[r].pc \in Holds =>
         req[r].key \in DOMAIN flows /\ flows[req[r].key] = r

At(labels) == {r \in Requests : req[r].pc \in labels}

\* The counter counts the threads between their count and their uncount, and so the
\* table's entries, give or take the threads in between.
Counts ==
    /\ IsFiniteSet(At(Counted)) /\ active = Cardinality(At(Counted))
    /\ IsFiniteSet(DOMAIN flows) /\ IsFiniteSet(At({"uncount"})) /\ IsFiniteSet(At({"count"}))
    /\ active = Cardinality(DOMAIN flows) + Cardinality(At({"uncount"})) - Cardinality(At({"count"}))

Divert == TypeOK /\ Kinds /\ TableHeld /\ Counts

\* A packet belongs to a request whose flow was opened under the packet's key and, unless
\* the request has returned, still has it.
OfFlow(threads, p) ==
    /\ threads[p.of].pc \in Counted \cup {"done"}
    /\ threads[p.of].pc # "done" => p.key = threads[p.of].key

PacketsOfFlows ==
    /\ \A p \in mesh \cup bridge : OfFlow(req, p)
    /\ \A i \in 1..Len(outbound) : OfFlow(req, outbound[i])

\* Where the elements of E are in a sequence.
Places(s, E) == {i \in 1..Len(s) : s[i] \in E}

\* The ICMPv6 errors that packets of request r caused, and the packets it sent.
Errors(r) == {p \in Reply : p.of = r /\ p.what = "unreach"}
SentBy(r) == {m \in Sent : m.of = r}

\* The errors of its own packets that request r counted, if it counted no others.
Believed(r) == IF req[r].stale THEN 0 ELSE req[r].unreachable

\* Every error is somewhere once: on the mesh, with the bridge, in the channel of its
\* request or counted there.
RefusalsCounted ==
    \A r \in Requests :
        Believed(r) + Cardinality(Places(inbox[r], Errors(r)))
            + Cardinality(mesh \cap Errors(r)) + Cardinality(bridge \cap Errors(r)) <= refused[r]

\* A datagram that is in the send or queued for the node has not been refused yet.
RefusedOnce ==
    \A r \in Requests : req[r].kind = "udp" /\ req[r].pc # "done" =>
        refused[r] + Cardinality(Places(outbound, SentBy(r)))
            + (IF req[r].pc = "egress" THEN 1 ELSE 0) <= req[r].sends

UdpSends ==
    \A r \in Requests : req[r].kind = "udp" =>
        /\ req[r].sends <= 1 + RESENDS
        /\ req[r].stale \/ req[r].sends <= 1 + refused[r]

\* What a thread that runs takes for a restart: the flag is cleared or the node has ended.
Over == ~running \/ Closed

\* Why a thread has its result, and that it does nothing more than finish with it.
Verdict(q, over) ==
    /\ q.pc \in {"idle", "count", "top", "check", "wait", "done"} => q.result = None
    /\ q.pc = "egress" /\ q.result # None => q.kind = "http"
    /\ q.result = "restarted" => over
    /\ q.result = "noroute" /\ q.kind = "udp" => q.unreachable > RESENDS
    /\ q.result = "noroute" /\ q.kind # "udp" => q.unreachable >= UNREACHABLE_LIMIT /\ ~q.established
    /\ q.result = "ok" /\ q.kind = "http" /\ q.frame # "close" => q.got = Whole

Verdicts == \A r \in Requests : Verdict(req[r], Over)

IInv ==
    /\ Divert /\ PacketsOfFlows
    /\ RefusalsCounted /\ RefusedOnce /\ UdpSends
    /\ Verdicts

-----------------------------------------------------------------------------
(* Counting in sequences.                                                  *)

\* A sequence has finitely many places.
LEMMA PlacesFinite ==
    ASSUME NEW S, NEW s \in Seq(S), NEW E
    PROVE  IsFiniteSet(Places(s, E)) /\ Cardinality(Places(s, E)) \in Nat
<1>1. Len(s) \in Nat OBVIOUS
<1>2. IsFiniteSet(1..Len(s)) BY <1>1, FS_Interval
<1>3. Places(s, E) \in SUBSET (1..Len(s)) BY DEF Places
<1>4. QED BY <1>2, <1>3, FS_Subset, FS_CardinalityType

\* Appending adds a place for an element of E.
LEMMA PlacesAppend ==
    ASSUME NEW S, NEW s \in Seq(S), NEW x \in S, NEW E
    PROVE  Cardinality(Places(Append(s, x), E))
              = IF x \in E THEN Cardinality(Places(s, E)) + 1 ELSE Cardinality(Places(s, E))
<1>1. /\ Len(s) \in Nat /\ Len(Append(s, x)) = Len(s) + 1
      /\ \A i \in 1..Len(s) : Append(s, x)[i] = s[i]
      /\ Append(s, x)[Len(s) + 1] = x
    BY AppendProperties
<1>2. IsFiniteSet(Places(s, E)) BY PlacesFinite
<1>3. CASE x \in E
    <2>1. Places(Append(s, x), E) = Places(s, E) \cup {Len(s) + 1} /\ Len(s) + 1 \notin Places(s, E)
        BY <1>1, <1>3 DEF Places
    <2>2. QED BY <1>2, <1>3, <2>1, FS_AddElement
<1>4. CASE x \notin E
    <2>1. Places(Append(s, x), E) = Places(s, E) BY <1>1, <1>4 DEF Places
    <2>2. QED BY <1>4, <2>1
<1>5. QED BY <1>3, <1>4

\* Taking the head off frees its place.
LEMMA PlacesTail ==
    ASSUME NEW S, NEW s \in Seq(S), s # <<>>, NEW E
    PROVE  Cardinality(Places(Tail(s), E))
              = IF Head(s) \in E THEN Cardinality(Places(s, E)) - 1 ELSE Cardinality(Places(s, E))
<1>1. /\ Len(s) \in Nat \ {0} /\ Tail(s) \in Seq(S) /\ Len(Tail(s)) = Len(s) - 1
      /\ \A i \in 1..Len(Tail(s)) : Tail(s)[i] = s[i + 1]
      /\ Head(s) = s[1]
    BY HeadTailProperties, EmptySeq
<1> DEFINE T == Places(Tail(s), E)
           U == Places(s, E) \ {1}
           f == [i \in T |-> i + 1]
<1>2. f \in Bijection(T, U)
    <2>1. f \in [T -> U] BY <1>1 DEF Places
    <2>2. \A i, j \in T : f[i] = f[j] => i = j BY <1>1 DEF Places
    <2>3. \A j \in U : \E i \in T : f[i] = j
        <3> SUFFICES ASSUME NEW j \in U PROVE \E i \in T : f[i] = j OBVIOUS
        <3>1. j - 1 \in T /\ j \in Nat BY <1>1 DEF Places
        <3>2. QED BY <3>1
    <2> HIDE DEF f, T, U
    <2>4. QED BY <2>1, <2>2, <2>3 DEF Bijection, Injection, Surjection, IsInjective
<1>3. ExistsBijection(T, U) BY <1>2 DEF ExistsBijection
<1>4. IsFiniteSet(T) /\ IsFiniteSet(Places(s, E)) BY <1>1, PlacesFinite
<1>5. Cardinality(U) = Cardinality(T) BY <1>3, <1>4, FS_Bijection
<1>6. Cardinality(U) = IF 1 \in Places(s, E) THEN Cardinality(Places(s, E)) - 1
                                             ELSE Cardinality(Places(s, E))
    BY <1>4, FS_RemoveElement
<1>7. 1 \in Places(s, E) <=> Head(s) \in E BY <1>1 DEF Places
<1>8. QED BY <1>5, <1>6, <1>7

-----------------------------------------------------------------------------
(* What the steps of a request's thread do to its locals, field by field.  *)

\* Request r's thread, and no other, has stepped.
Own(r) == req' \in [Requests -> Thread] /\ \A s \in Requests \ {r} : req'[s] = req[s]

Keeps(q, z) == z.kind = q.kind /\ z.frame = q.frame /\ z.key = q.key

\* It moved, perhaps with a result.
Moves(q, z, label, what) ==
    /\ Keeps(q, z) /\ z.pc = label /\ z.result = what
    /\ z.sends = q.sends /\ z.unreachable = q.unreachable /\ z.stale = q.stale
    /\ z.got = q.got /\ z.established = q.established /\ (z.queued => q.queued \/ q.kind = "ping")

\* It gave a packet to the node's processor.
Gives(q, z, to) ==
    /\ Keeps(q, z) /\ z.pc = to[1] /\ z.result = to[2]
    /\ z.sends = q.sends + 1 /\ z.unreachable = q.unreachable /\ z.stale = q.stale
    /\ z.got = q.got /\ z.established = q.established /\ ~z.queued

\* It looked at its TCP socket.
Looks(q, z) ==
    /\ Keeps(q, z) /\ z.sends = q.sends /\ z.unreachable = q.unreachable /\ z.stale = q.stale
    /\ z.got = q.got /\ z.queued = q.queued
    /\ z.result \in {None, "other", "ok", "unreachable", "timeout"}
    /\ z.pc \in {"egress", "drop"} \/ (z.pc = "wait" /\ z.result = None)
    /\ z.result = "ok" /\ z.frame # "close" => z.got = Whole

\* It took packet p from its channel.
Takes(q, z, r, p) ==
    /\ Keeps(q, z) /\ z.pc = q.pc /\ z.result = q.result /\ z.sends = q.sends
    /\ z.unreachable = IF p.what = "unreach" THEN q.unreachable + 1 ELSE q.unreachable
    /\ z.stale = (q.stale \/ p.of # r) /\ z.queued = q.queued /\ z.established = q.established

Labels == Held \cup {"idle", "count", "uncount", "done"}

\* Writing one thread's record leaves the others alone.
LEMMA PutThread ==
    ASSUME NEW r \in Requests, NEW q \in Thread, req \in [Requests -> Thread],
           req' = [req EXCEPT ![r] = q]
    PROVE  Own(r) /\ req'[r] = q
BY DEF Own

\* A thread that moves to another statement.
LEMMA GoesEffect ==
    ASSUME NEW r \in Requests, req \in [Requests -> Thread], NEW label \in Labels, Goes(r, label)
    PROVE  Own(r) /\ Moves(req[r], req'[r], label, req[r].result)
<1> DEFINE q == req[r]
           z == [q EXCEPT !.pc = label]
<1>0. q \in Thread OBVIOUS
<1>1. req' = [req EXCEPT ![r] = z] BY Zenon DEF Goes
<1> HIDE DEF q
<1>2. z \in Thread BY <1>0, Zenon DEF Thread, Labels
<1>3. Moves(q, z, label, q.result) BY <1>0 DEF Moves, Keeps, Thread
<1> HIDE DEF z
<1>4. QED BY <1>1, <1>2, <1>3, PutThread DEF q

\* A thread that has its result.
LEMMA EndsEffect ==
    ASSUME NEW r \in Requests, req \in [Requests -> Thread], NEW what \in Results, Ends(r, what)
    PROVE  Own(r) /\ Moves(req[r], req'[r], "drop", what)
<1> DEFINE q == req[r]
           z == [q EXCEPT !.pc = "drop", !.result = what]
<1>0. q \in Thread OBVIOUS
<1>1. req' = [req EXCEPT ![r] = z] BY Zenon DEF Ends
<1> HIDE DEF q
<1>2. z \in Thread BY <1>0, Zenon DEF Thread, Held
<1>3. Moves(q, z, "drop", what) BY <1>0 DEF Moves, Keeps, Thread
<1> HIDE DEF z
<1>4. QED BY <1>1, <1>2, <1>3, PutThread DEF q

\* The top of the loop.
LEMMA TopEffect ==
    ASSUME NEW r \in Requests, req \in [Requests -> Thread], Top(r)
    PROVE  /\ Own(r)
           /\ \/ ~running /\ Moves(req[r], req'[r], "drop", "restarted")
              \/ Moves(req[r], req'[r], "check", req[r].result)
              \/ /\ req[r].kind = "udp" => req[r].queued \/ SendsNow(r)
                 /\ \E to \in Processed(req[r].kind) : Gives(req[r], req'[r], to)
<1> DEFINE q == req[r]
<1>0. q \in Thread OBVIOUS
<1>1. CASE ~running /\ Ends(r, "restarted")
    BY <1>1, EndsEffect DEF Results
<1>2. CASE Goes(r, "check")
    BY <1>2, GoesEffect DEF Labels, Held
<1>3. CASE /\ q.queued \/ SendsNow(r) \/ q.kind = "http"
           /\ \E to \in Processed(q.kind) :
                req' = [req EXCEPT ![r] = [q EXCEPT !.pc = to[1], !.result = to[2],
                                                    !.queued = FALSE, !.sends = @ + 1]]
    <2>1. PICK to \in Processed(q.kind) :
                req' = [req EXCEPT ![r] = [q EXCEPT !.pc = to[1], !.result = to[2],
                                                    !.queued = FALSE, !.sends = q.sends + 1]]
        BY <1>3
    <2>2. to[1] \in Labels /\ to[2] \in Results
        BY DEF Processed, Labels, Held, Results
    <2>3. q.sends + 1 \in Nat BY <1>0 DEF Thread
    <2> DEFINE z == [q EXCEPT !.pc = to[1], !.result = to[2], !.queued = FALSE, !.sends = q.sends + 1]
    <2> HIDE DEF q
    <2>4. z \in Thread
        <3> DEFINE l == to[1]
                   w == to[2]
                   n == q.sends + 1
        <3> HIDE DEF l, w, n
        <3>1. [q EXCEPT !.pc = l, !.result = w, !.queued = FALSE, !.sends = n] \in Thread
            BY <1>0, <2>2, <2>3, Zenon DEF Thread, Labels, l, w, n
        <3>2. QED BY <3>1 DEF l, w, n
    <2>5. Gives(q, z, to) BY <1>0 DEF Gives, Keeps, Thread
    <2> HIDE DEF z
    <2>6. Own(r) /\ req'[r] = z BY <2>1, <2>4, PutThread DEF z, q
    <2>7. q.kind = "udp" => q.queued \/ SendsNow(r)
        BY <1>3 DEF q
    <2>8. QED BY <2>5, <2>6, <2>7 DEF q
<1>4. QED BY <1>1, <1>2, <1>3 DEF Top

\* The send to the node.
LEMMA EgressEffect ==
    ASSUME NEW r \in Requests, req \in [Requests -> Thread], Egress(r)
    PROVE  /\ Own(r)
           /\ \/ /\ Closed /\ req[r].result = None
                 /\ Moves(req[r], req'[r], "drop", "restarted")
              \/ req[r].result # None /\ Moves(req[r], req'[r], "drop", req[r].result)
              \/ req[r].result = None /\ Moves(req[r], req'[r], "check", req[r].result)
<1>1. CASE Closed /\ req[r].result = None /\ Ends(r, "restarted")
    BY <1>1, EndsEffect DEF Results
<1>2. CASE req[r].result # None /\ Goes(r, "drop")
    BY <1>2, GoesEffect DEF Labels, Held
<1>3. CASE req[r].result = None /\ Goes(r, "check")
    BY <1>3, GoesEffect DEF Labels, Held
<1>4. QED BY <1>1, <1>2, <1>3 DEF Egress

\* The socket's end, the response's, or the deadline's.
LEMMA CheckHttpEffect ==
    ASSUME NEW r \in Requests, req \in [Requests -> Thread], CheckHttp(r)
    PROVE  Own(r) /\ Looks(req[r], req'[r])
<1> DEFINE e == req[r].established \/ req[r].socket \in {"open", "finRcvd"}
           q == [req[r] EXCEPT !.established = e]
           End(what, label) == req' = [req EXCEPT ![r] = [q EXCEPT !.pc = label, !.result = what]]
<1>0. req[r] \in Thread OBVIOUS
<1>1. e \in BOOLEAN OBVIOUS
<1>2. q \in Thread /\ Keeps(req[r], q) /\ q.sends = req[r].sends /\ q.stale = req[r].stale
      /\ q.unreachable = req[r].unreachable /\ q.got = req[r].got /\ q.queued = req[r].queued
    <2> DEFINE p == req[r]
    <2> HIDE DEF e, p
    <2>0. p \in Thread BY <1>0 DEF p
    <2>1. [p EXCEPT !.established = e] \in Thread BY <1>1, <2>0, Zenon DEF Thread
    <2>2. Keeps(p, [p EXCEPT !.established = e]) BY <2>0 DEF Keeps, Thread
    <2>3. \A z : z = [p EXCEPT !.established = e] =>
             z.sends = p.sends /\ z.stale = p.stale
             /\ z.unreachable = p.unreachable /\ z.got = p.got /\ z.queued = p.queued
        BY <2>0 DEF Thread
    <2>4. QED BY <2>1, <2>2, <2>3 DEF p
<1>3. \/ End("other", "drop")
      \/ End(parse_response(q), "drop")
      \/ End(parse_response(q), "egress")
      \/ End("unreachable", "drop") \/ End("timeout", "drop") \/ End(None, "wait")
    BY Zenon DEF CheckHttp
<1> HIDE DEF q, End
<1>4. ASSUME NEW what \in {None, "other", "ok", "unreachable", "timeout"},
             NEW label \in {"egress", "drop", "wait"}, End(what, label),
             label = "wait" => what = None,
             what = "ok" /\ q.frame # "close" => q.got = Whole
      PROVE  Own(r) /\ Looks(req[r], req'[r])
    <2> DEFINE z == [q EXCEPT !.pc = label, !.result = what]
    <2>1. z \in Thread
        <3>1. label \in Labels /\ what \in Results BY DEF Labels, Held, Results
        <3>2. QED BY <1>2, <3>1, Zenon DEF Thread, Labels
    <2>2. Moves(q, z, label, what) /\ z.queued = q.queued BY <1>2 DEF Moves, Keeps, Thread
    <2> HIDE DEF z
    <2>3. Own(r) /\ req'[r] = z BY <1>4, <2>1, PutThread DEF z, End
    <2>4. QED BY <1>2, <1>4, <2>2, <2>3 DEF Looks, Moves, Keeps
<1>5. /\ parse_response(q) \in {"other", "ok"}
      /\ parse_response(q) = "ok" /\ q.frame # "close" => q.got = Whole
    BY <1>2 DEF parse_response, Thread, Whole
<1>6. CASE End("other", "drop") \/ End("unreachable", "drop") \/ End("timeout", "drop")
    BY <1>4, <1>6
<1>7. CASE End(parse_response(q), "drop") \/ End(parse_response(q), "egress")
    BY <1>4, <1>5, <1>7
<1>8. CASE End(None, "wait") BY <1>4, <1>8 DEF None
<1>9. QED BY <1>3, <1>6, <1>7, <1>8

\* The datagram's answer, its last refusal or its deadline.
LEMMA CheckUdpEffect ==
    ASSUME NEW r \in Requests, req \in [Requests -> Thread], CheckUdp(r)
    PROVE  /\ Own(r)
           /\ \/ \E what \in {"ok", "timeout"} : Moves(req[r], req'[r], "drop", what)
              \/ req[r].unreachable > RESENDS /\ Moves(req[r], req'[r], "drop", "noroute")
              \/ Moves(req[r], req'[r], "wait", req[r].result)
<1>1. CASE \E what \in {"ok", "timeout"} : Ends(r, what)
    BY <1>1, EndsEffect DEF Results
<1>2. CASE req[r].unreachable > RESENDS /\ Ends(r, "noroute")
    BY <1>2, EndsEffect DEF Results
<1>3. CASE Goes(r, "wait")
    BY <1>3, GoesEffect DEF Labels, Held
<1>4. QED BY <1>1, <1>2, <1>3 DEF CheckUdp

\* The echo's reply, its second request or its deadline.
LEMMA CheckPingEffect ==
    ASSUME NEW r \in Requests, req \in [Requests -> Thread], CheckPing(r)
    PROVE  /\ Own(r)
           /\ \/ \E what \in {"reached", "silent"} : Moves(req[r], req'[r], "drop", what)
              \/ Moves(req[r], req'[r], "wait", req[r].result)
<1>1. CASE \E what \in {"reached", "silent"} : Ends(r, what)
    BY <1>1, EndsEffect DEF Results
<1>2. CASE Goes(r, "wait")
    BY <1>2, GoesEffect DEF Labels, Held
<1>3. CASE req' = [req EXCEPT ![r] = [@ EXCEPT !.pc = "wait", !.queued = TRUE, !.resent = TRUE]]
    <2> DEFINE q == req[r]
               z == [q EXCEPT !.pc = "wait", !.queued = TRUE, !.resent = TRUE]
    <2>0. q \in Thread /\ q.kind = "ping" BY DEF CheckPing
    <2>1. req' = [req EXCEPT ![r] = z] BY <1>3, Zenon
    <2> HIDE DEF q
    <2>2. z \in Thread BY <2>0, Zenon DEF Thread, Held
    <2>3. Moves(q, z, "wait", q.result) BY <2>0 DEF Moves, Keeps, Thread
    <2> HIDE DEF z
    <2>4. QED BY <2>1, <2>2, <2>3, PutThread DEF q
<1>4. QED BY <1>1, <1>2, <1>3 DEF CheckPing

\* A packet of the channel.
LEMMA ReceiveEffect ==
    ASSUME NEW r \in Requests, req \in [Requests -> Thread], inbox \in [Requests -> Seq(Reply)],
           Receive(r)
    PROVE  Own(r) /\ Head(inbox[r]) \in Reply /\ Takes(req[r], req'[r], r, Head(inbox[r]))
<1> DEFINE q == req[r]
           p == Head(inbox[r])
           s == q.stale \/ p.of # r
           u == IF p.what = "unreach" THEN q.unreachable + 1 ELSE q.unreachable
           own == q.kind = "http" /\ p.of = r
           data == p.what = "data" /\ own /\ q.socket = "open" /\ p.n > q.got
           fin == p.what = "fin" /\ own /\ q.socket = "open" /\ p.n >= q.got
           g == IF p.what = q.kind THEN 1 ELSE IF data \/ fin THEN p.n ELSE q.got
           k == IF p.what = "synack" /\ own /\ q.socket = "synSent" THEN "open"
                ELSE IF fin THEN "finRcvd"
                ELSE IF p.what = "rst" /\ own THEN "reset" ELSE q.socket
           z == [q EXCEPT !.stale = s, !.unreachable = u, !.got = g, !.socket = k]
<1>0. q \in Thread OBVIOUS
<1>1. p \in Reply BY DEF Receive
<1>2. req' = [req EXCEPT ![r] = z] BY Zenon DEF Receive, Handles
<1> HIDE DEF q, p
<1>3. s \in BOOLEAN OBVIOUS
<1>4. u \in Nat BY <1>0 DEF Thread
<1>5. g \in 0..Whole
    <2>1. q.got \in 0..Whole /\ 1 \in 0..Whole BY <1>0 DEF Thread, Whole
    <2>2. data \/ fin => p.n \in 0..Whole BY <1>1 DEF Reply
    <2>3. QED BY <2>1, <2>2
<1>6. k \in Sockets BY <1>0 DEF Thread, Sockets
<1> HIDE DEF s, u, g, k
<1>7. z \in Thread BY <1>0, <1>3, <1>4, <1>5, <1>6, Zenon DEF Thread
<1>8. Keeps(q, z) /\ z.pc = q.pc /\ z.result = q.result /\ z.sends = q.sends
      /\ z.unreachable = u /\ z.stale = s /\ z.queued = q.queued /\ z.established = q.established
    BY <1>0 DEF Keeps, Thread
<1> HIDE DEF z
<1>9. Own(r) /\ req'[r] = z BY <1>2, <1>7, PutThread
<1>10. Takes(q, z, r, p) BY <1>8 DEF Takes, u, s
<1>11. QED BY <1>1, <1>9, <1>10 DEF q, p

\* The channel is empty.
LEMMA ReceivedEffect ==
    ASSUME NEW r \in Requests, req \in [Requests -> Thread], Received(r)
    PROVE  /\ Own(r)
           /\ \/ /\ req[r].kind = "http" /\ req[r].unreachable >= UNREACHABLE_LIMIT
                 /\ ~req[r].established /\ Moves(req[r], req'[r], "drop", "noroute")
              \/ Moves(req[r], req'[r], "top", req[r].result)
<1>1. CASE /\ req[r].kind = "http" /\ req[r].unreachable >= UNREACHABLE_LIMIT /\ ~req[r].established
           /\ Ends(r, "noroute")
    BY <1>1, EndsEffect DEF Results
<1>2. CASE Goes(r, "top")
    BY <1>2, GoesEffect DEF Labels, Held
<1>3. QED BY <1>1, <1>2 DEF Received

\* The deadline.
LEMMA ExpireEffect ==
    ASSUME NEW r \in Requests, req \in [Requests -> Thread], Expire(r)
    PROVE  Own(r) /\ Moves(req[r], req'[r], req[r].pc, req[r].result)
<1> DEFINE q == req[r]
           z == [q EXCEPT !.expired = TRUE]
<1>0. q \in Thread OBVIOUS
<1>1. req' = [req EXCEPT ![r] = z] BY Zenon DEF Expire
<1> HIDE DEF q
<1>2. z \in Thread BY <1>0, Zenon DEF Thread
<1>3. Moves(q, z, q.pc, q.result) BY <1>0 DEF Moves, Keeps, Thread
<1> HIDE DEF z
<1>4. QED BY <1>1, <1>2, <1>3, PutThread DEF q

\* Opening: a flow is entered in the table under its key.
LEMMA OpenEffect ==
    ASSUME NEW r \in Requests, req \in [Requests -> Thread], Open(r)
    PROVE  /\ Own(r) /\ req[r].pc = "idle" /\ req[r].kind # None
           /\ \E k \in Keys \ DOMAIN flows :
                /\ flows' = [j \in DOMAIN flows \cup {k} |-> IF j = k THEN r ELSE flows[j]]
                /\ Moves([req[r] EXCEPT !.key = k], req'[r], "count", req[r].result)
<1> DEFINE q == req[r]
<1>0. q \in Thread OBVIOUS
<1>1. PICK k \in FreeKeys(r) :
           /\ flows' = [j \in DOMAIN flows \cup {k} |-> IF j = k THEN r ELSE flows[j]]
           /\ req' = [req EXCEPT ![r] = [q EXCEPT !.pc = "count", !.key = k]]
    BY DEF Open
<1>2. k \in Keys \ DOMAIN flows BY DEF FreeKeys, Keys
<1> DEFINE y == [q EXCEPT !.key = k]
           z == [q EXCEPT !.pc = "count", !.key = k]
<1> HIDE DEF q
<1>3. z \in Thread BY <1>0, <1>2, Zenon DEF Thread
<1>4. Moves(y, z, "count", q.result) BY <1>0 DEF Moves, Keeps, Thread
<1> HIDE DEF y, z
<1>5. Own(r) /\ req'[r] = z BY <1>1, <1>3, PutThread DEF z
<1>6. Moves([req[r] EXCEPT !.key = k], req'[r], "count", req[r].result)
    BY <1>4, <1>5 DEF y, q
<1>7. QED BY <1>1, <1>2, <1>5, <1>6 DEF Open

\* A thread that has sent nothing: a new one, or one that has returned.
Fresh(z, k) ==
    /\ z \in Thread /\ z.kind = k /\ z.result = None /\ z.sends = 0 /\ z.unreachable = 0
    /\ z.stale = FALSE /\ z.queued = FALSE

\* A thread before its request, and one that has returned, have sent nothing.
LEMMA NewTypes ==
    ASSUME NEW k \in {"http", "udp", "ping", None}, NEW f \in Frames \cup {None}
    PROVE  /\ Fresh(New(k, f), k) /\ New(k, f).pc = "idle"
           /\ Fresh([New(k, f) EXCEPT !.pc = "done"], k) /\ [New(k, f) EXCEPT !.pc = "done"].pc = "done"
<1>1. 0 \in Nat /\ 0 \in 0..Whole BY DEF Whole
<1>2. New(k, f) \in Thread BY <1>1, Zenon DEF New, Thread, Results, Sockets
<1>3. [New(k, f) EXCEPT !.pc = "done"] \in Thread
    <2> DEFINE q == New(k, f)
    <2> HIDE DEF q
    <2>1. q \in Thread BY <1>2 DEF q
    <2>2. [q EXCEPT !.pc = "done"] \in Thread BY <2>1, Zenon DEF Thread
    <2>3. QED BY <2>2 DEF q
<1>4. Fresh(New(k, f), k) /\ New(k, f).pc = "idle" BY <1>2 DEF New, Fresh
<1>5. Fresh([New(k, f) EXCEPT !.pc = "done"], k) /\ [New(k, f) EXCEPT !.pc = "done"].pc = "done"
    BY <1>3 DEF New, Fresh
<1>6. QED BY <1>4, <1>5

\* The count, and the socket.
LEMMA OpenCountEffect ==
    ASSUME NEW r \in Requests, req \in [Requests -> Thread], OpenCount(r), req[r].kind # None
    PROVE  Own(r) /\ Moves(req[r], req'[r], "top", req[r].result)
<1> DEFINE p == req[r]
           q == [p EXCEPT !.pc = "top"]
<1>0. p \in Thread OBVIOUS
<1>1. \/ p.kind = "http" /\ req' = [req EXCEPT ![r] = Connect(q)]
      \/ p.kind = "udp" /\ req' = [req EXCEPT ![r] = Bind(q)]
      \/ p.kind = "ping" /\ req' = [req EXCEPT ![r] = BindEcho(q)]
    <2>1. q.kind = p.kind BY <1>0 DEF Thread
    <2>2. p.kind \in {"http", "udp", "ping"} BY <1>0 DEF Thread
    <2> DEFINE z == CASE q.kind = "http" -> Connect(q)
                      [] q.kind = "udp"  -> Bind(q)
                      [] q.kind = "ping" -> BindEcho(q)
    <2>3. req' = [req EXCEPT ![r] = z] BY Zenon DEF OpenCount
    <2> HIDE DEF q
    <2>4. CASE q.kind = "http"
        <3>1. z = Connect(q) BY <2>4, Zenon
        <3>2. QED BY <2>1, <2>3, <2>4, <3>1
    <2>5. CASE q.kind = "udp"
        <3>1. z = Bind(q) BY <2>5, Zenon
        <3>2. QED BY <2>1, <2>3, <2>5, <3>1
    <2>6. CASE q.kind = "ping"
        <3>1. z = BindEcho(q) BY <2>6, Zenon
        <3>2. QED BY <2>1, <2>3, <2>6, <3>1
    <2>7. QED BY <2>1, <2>2, <2>4, <2>5, <2>6
<1> HIDE DEF p
<1>2. q \in Thread BY <1>0, Zenon DEF Thread, Held
<1>3. Moves(p, q, "top", p.result) /\ q.queued = p.queued BY <1>0 DEF Moves, Keeps, Thread
<1> HIDE DEF q
<1>4. CASE p.kind = "http" /\ req' = [req EXCEPT ![r] = Connect(q)]
    <2>1. Connect(q) \in Thread BY <1>2, Zenon DEF Thread, Connect, Sockets
    <2>2. Moves(q, Connect(q), q.pc, q.result) BY <1>2 DEF Moves, Keeps, Thread, Connect
    <2>3. Own(r) /\ req'[r] = Connect(q) BY <1>4, <2>1, PutThread
    <2>4. QED BY <1>3, <2>2, <2>3 DEF Moves, Keeps, p
<1>5. CASE p.kind = "udp" /\ req' = [req EXCEPT ![r] = Bind(q)]
    <2>1. Bind(q) \in Thread BY <1>2, Zenon DEF Thread, Bind, Sockets
    <2>2. Moves(q, Bind(q), q.pc, q.result) BY <1>2 DEF Moves, Keeps, Thread, Bind
    <2>3. Own(r) /\ req'[r] = Bind(q) BY <1>5, <2>1, PutThread
    <2>4. QED BY <1>3, <2>2, <2>3 DEF Moves, Keeps, p
<1>6. CASE p.kind = "ping" /\ req' = [req EXCEPT ![r] = BindEcho(q)]
    <2>1. BindEcho(q) \in Thread BY <1>2, Zenon DEF Thread, BindEcho, Sockets
    <2>2. Keeps(q, BindEcho(q)) BY <1>2 DEF Keeps, Thread, BindEcho
    <2>3. \A z : z = BindEcho(q) =>
             z.pc = q.pc /\ z.result = q.result /\ z.sends = q.sends
             /\ z.unreachable = q.unreachable /\ z.stale = q.stale /\ z.got = q.got
             /\ z.established = q.established
        BY <1>2 DEF Thread, BindEcho
    <2>4. Own(r) /\ req'[r] = BindEcho(q) BY <1>6, <2>1, PutThread
    <2>5. QED BY <1>3, <1>6, <2>2, <2>3, <2>4 DEF Moves, Keeps, p
<1>7. QED BY <1>1, <1>4, <1>5, <1>6

\* The thread returns.
LEMMA ReturnedEffect ==
    ASSUME NEW r \in Requests, req \in [Requests -> Thread], Returned(r)
    PROVE  Own(r) /\ req'[r].pc = "done" /\ Fresh(req'[r], req[r].kind)
<1> DEFINE z == [New(req[r].kind, None) EXCEPT !.pc = "done"]
<1>1. req[r].kind \in {"http", "udp", "ping", None} BY DEF Thread
<1>2. Fresh(z, req[r].kind) /\ z.pc = "done" BY <1>1, NewTypes
<1>3. req' = [req EXCEPT ![r] = z] BY DEF Returned
<1> HIDE DEF z
<1>4. z \in Thread BY <1>2 DEF Fresh
<1>5. Own(r) /\ req'[r] = z BY <1>3, <1>4, PutThread
<1>6. QED BY <1>2, <1>5

-----------------------------------------------------------------------------
(* The divert: the table, its counter and the threads.                     *)

Loop(r) ==
    \/ Top(r) \/ Egress(r) \/ CheckHttp(r) \/ CheckUdp(r) \/ CheckPing(r)
    \/ Receive(r) \/ Received(r) \/ Expire(r)

\* In its loop a thread keeps its flow, and whatever it does the table is left alone.
LEMMA LoopKeepsFlow ==
    ASSUME TypeOK, NEW r \in Requests, Loop(r)
    PROVE  /\ Own(r) /\ Keeps(req[r], req'[r])
           /\ req[r].pc \in Held /\ req'[r].pc \in Held
           /\ req'[r].queued => req[r].queued \/ req[r].kind = "ping"
           /\ UNCHANGED <<flows, active, lock, bridge, mesh, running, node, refused>>
<1> USE DEF TypeOK
<1>1. CASE Top(r)
    <2>1. req[r].pc = "top" BY <1>1 DEF Top
    <2>2. \A to \in Processed(req[r].kind) : to[1] \in Held BY DEF Processed, Held
    <2>3. UNCHANGED <<divert, net>> BY <1>1 DEF Top
    <2>4. QED BY <1>1, <2>1, <2>2, <2>3, TopEffect DEF Moves, Gives, Held, divert, net
<1>2. CASE Egress(r)
    BY <1>2, EgressEffect DEF Egress, Moves, Held, divert
<1>3. CASE CheckHttp(r)
    <2>1. req[r].pc = "check" BY <1>3 DEF CheckHttp
    <2>2. UNCHANGED <<divert, net>> BY <1>3 DEF CheckHttp
    <2>3. QED BY <1>3, <2>1, <2>2, CheckHttpEffect DEF Looks, Held, divert, net
<1>4. CASE CheckUdp(r)
    BY <1>4, CheckUdpEffect DEF CheckUdp, Moves, Held, divert, net
<1>5. CASE CheckPing(r)
    BY <1>5, CheckPingEffect DEF CheckPing, Moves, Held, divert, net
<1>6. CASE Receive(r)
    BY <1>6, ReceiveEffect DEF Receive, Takes, Held, net
<1>7. CASE Received(r)
    BY <1>7, ReceivedEffect DEF Received, Moves, Held, divert, net
<1>8. CASE Expire(r)
    BY <1>8, ExpireEffect DEF Expire, Moves, Held, divert, net
<1>9. QED BY <1>1, <1>2, <1>3, <1>4, <1>5, <1>6, <1>7, <1>8 DEF Loop

\* The channels keep their types.
LEMMA LoopTypes ==
    ASSUME TypeOK, Kinds, TableHeld, NEW r \in Requests, Loop(r)
    PROVE  inbox' \in [Requests -> Seq(Reply)] /\ outbound' \in Seq(Sent)
<1> USE DEF TypeOK
<1>1. CASE Egress(r)
    <2>1. req[r] \in Thread /\ req[r].key \in Keys
        BY <1>1 DEF Egress, TableHeld, Holds, Held
    <2>2. req[r].kind \in {"http", "udp", "ping"} /\ req[r].sends \in Nat
        BY <1>1, <2>1 DEF Egress, Kinds, Thread
    <2>3. \A w \in {"fin", "syn", "http", "udp", "ping"} :
             Append(outbound, [of |-> r, key |-> req[r].key, n |-> req[r].sends, what |-> w]) \in Seq(Sent)
        BY <2>1, <2>2, AppendProperties DEF Sent
    <2>4. \/ outbound' = outbound
          \/ \E w \in {"fin", "syn", req[r].kind} :
               outbound' = Append(outbound, [of |-> r, key |-> req[r].key, n |-> req[r].sends, what |-> w])
        BY <1>1 DEF Egress
    <2>5. inbox' = inbox BY <1>1 DEF Egress, divert
    <2>6. QED BY <2>2, <2>3, <2>4, <2>5
<1>2. CASE Receive(r)
    BY <1>2, HeadTailProperties DEF Receive, net
<1>3. CASE Top(r) \/ CheckHttp(r) \/ CheckUdp(r) \/ CheckPing(r) \/ Received(r) \/ Expire(r)
    <2>1. UNCHANGED <<divert, net>>
        BY <1>3, Zenon DEF Top, CheckHttp, CheckUdp, CheckPing, Received, Expire
    <2>2. QED BY <2>1 DEF divert, net
<1>4. QED BY <1>1, <1>2, <1>3 DEF Loop

\* Only the statements decide who is where.
LEMMA AtSame ==
    ASSUME NEW labels, \A r \in Requests : req'[r].pc \in labels <=> req[r].pc \in labels
    PROVE  At(labels)' = At(labels)
BY DEF At

\* A step of the loop keeps the table, its counter and their correspondence.
LEMMA LoopDivert ==
    ASSUME Divert, NEW r \in Requests, Loop(r)
    PROVE  Divert'
<1> USE DEF Divert
<1>1. /\ Own(r) /\ Keeps(req[r], req'[r]) /\ req[r].pc \in Held /\ req'[r].pc \in Held
      /\ req'[r].queued => req[r].queued \/ req[r].kind = "ping"
      /\ UNCHANGED <<flows, active, lock, bridge, mesh, running, node, refused>>
    BY LoopKeepsFlow
<1>2. TypeOK' BY <1>1, LoopTypes DEF TypeOK, Own
<1>3. Kinds' BY <1>1 DEF Kinds, Own, Keeps, Held
<1>4. TableHeld' BY <1>1 DEF TableHeld, Own, Keeps, Holds
<1>5. Counts'
    <2>1. At(Counted)' = At(Counted) BY <1>1, AtSame DEF Own, Counted
    <2>2. At({"uncount"})' = At({"uncount"}) BY <1>1, AtSame DEF Own, Held
    <2>3. At({"count"})' = At({"count"}) BY <1>1, AtSame DEF Own, Held
    <2>4. QED BY <1>1, <2>1, <2>2, <2>3 DEF Counts
<1>6. QED BY <1>2, <1>3, <1>4, <1>5

\* Opening enters the flow under a key nobody else has; it is not counted yet.
LEMMA OpenDivert ==
    ASSUME Divert, NEW r \in Requests, Open(r)
    PROVE  Divert'
<1> USE DEF Divert
<1>1. UNCHANGED <<active, inbox, bridge, outbound, mesh, running, node, refused>>
    BY DEF Open, net
<1>2. Own(r) /\ req[r].pc = "idle" /\ req[r].kind # None BY OpenEffect DEF TypeOK
<1>3. PICK k \in Keys \ DOMAIN flows :
         /\ flows' = [j \in DOMAIN flows \cup {k} |-> IF j = k THEN r ELSE flows[j]]
         /\ Moves([req[r] EXCEPT !.key = k], req'[r], "count", req[r].result)
    BY OpenEffect DEF TypeOK
<1>4. /\ req'[r].pc = "count" /\ req'[r].key = k /\ req'[r].kind = req[r].kind
      /\ req'[r].queued => req[r].queued \/ req[r].kind = "ping"
    <2>1. req[r] \in Thread BY DEF TypeOK
    <2>2. QED BY <1>3, <2>1 DEF Moves, Keeps, Thread
<1>5. TypeOK' BY <1>1, <1>2 DEF TypeOK, Own
<1>6. Kinds' BY <1>2, <1>4 DEF Kinds, Own
<1>7. TableHeld' BY <1>2, <1>3, <1>4 DEF TableHeld, Own, Holds, Held
<1>8. Counts'
    <2>1. At(Counted)' = At(Counted) BY <1>2, <1>4, AtSame DEF Own, Counted, Held
    <2>2. At({"uncount"})' = At({"uncount"}) BY <1>2, <1>4, AtSame DEF Own
    <2>3. At({"count"})' = At({"count"}) \cup {r} /\ r \notin At({"count"})
        BY <1>2, <1>4 DEF Own, At
    <2>4. DOMAIN flows' = DOMAIN flows \cup {k} BY <1>3
    <2>5. /\ IsFiniteSet(DOMAIN flows') /\ Cardinality(DOMAIN flows') = Cardinality(DOMAIN flows) + 1
          /\ IsFiniteSet(At({"count"})') /\ Cardinality(At({"count"})') = Cardinality(At({"count"})) + 1
        BY <1>3, <2>3, <2>4, FS_AddElement DEF Counts
    <2>6. Cardinality(DOMAIN flows) \in Nat /\ Cardinality(At({"count"})) \in Nat
          /\ Cardinality(At({"uncount"})) \in Nat
        BY FS_CardinalityType DEF Counts
    <2>7. (active = Cardinality(DOMAIN flows) + Cardinality(At({"uncount"}))
                     - Cardinality(At({"count"})))'
        BY <1>1, <2>1, <2>2, <2>5, <2>6 DEF Counts
    <2>8. (IsFiniteSet(At(Counted)) /\ active = Cardinality(At(Counted)))'
        BY <1>1, <2>1, <2>2, <2>5, <2>6 DEF Counts
    <2>9. QED BY <1>1, <2>1, <2>2, <2>5, <2>6, <2>7, <2>8 DEF Counts
<1>9. QED BY <1>5, <1>6, <1>7, <1>8

\* A request that opens no flow is never in the table or the count.
LEMMA NotOpenedDivert ==
    ASSUME Divert, NEW r \in Requests, NotOpened(r)
    PROVE  Divert'
<1> USE DEF Divert
<1>1. UNCHANGED vars \/ UNCHANGED <<divert, net>> BY DEF NotOpened
<1>2. Goes(r, "done") /\ req[r].pc = "idle" /\ req[r].kind # None
      /\ UNCHANGED <<flows, active, inbox, bridge, outbound, mesh, running, node, refused>>
    BY DEF NotOpened, Goes, divert, net
<1>3. Own(r) /\ Moves(req[r], req'[r], "done", req[r].result) BY <1>2, GoesEffect DEF TypeOK, Labels
<1>4. TypeOK' BY <1>2, <1>3 DEF TypeOK, Own
<1>5. Kinds' BY <1>2, <1>3 DEF Kinds, Own, Moves, Keeps
<1>6. TableHeld' BY <1>2, <1>3 DEF TableHeld, Own, Moves, Holds, Held
<1>7. Counts'
    <2>1. At(Counted)' = At(Counted) BY <1>2, <1>3, AtSame DEF Own, Moves, Counted, Held
    <2>2. At({"uncount"})' = At({"uncount"}) BY <1>2, <1>3, AtSame DEF Own, Moves
    <2>3. At({"count"})' = At({"count"}) BY <1>2, <1>3, AtSame DEF Own, Moves
    <2>4. QED BY <1>2, <2>1, <2>2, <2>3 DEF Counts
<1>8. QED BY <1>4, <1>5, <1>6, <1>7

\* Counting the flow makes up for its entry.
LEMMA OpenCountDivert ==
    ASSUME Divert, NEW r \in Requests, OpenCount(r)
    PROVE  Divert'
<1> USE DEF Divert
<1>1. /\ req[r].pc = "count" /\ active' = active + 1
      /\ UNCHANGED <<flows, inbox, bridge, outbound, mesh, running, node, refused>>
    BY DEF OpenCount, net
<1>2. Own(r) /\ Moves(req[r], req'[r], "top", req[r].result)
    BY <1>1, OpenCountEffect DEF TypeOK, Kinds
<1>3. TypeOK' BY <1>1, <1>2 DEF TypeOK, Own
<1>4. Kinds' BY <1>1, <1>2 DEF Kinds, Own, Moves, Keeps
<1>5. TableHeld' BY <1>1, <1>2 DEF TableHeld, Own, Moves, Keeps, Holds, Held
<1>6. Counts'
    <2>1. At(Counted)' = At(Counted) \cup {r} /\ r \notin At(Counted)
        BY <1>1, <1>2 DEF Own, Moves, Counted, Held, At
    <2>2. At({"uncount"})' = At({"uncount"}) BY <1>1, <1>2, AtSame DEF Own, Moves
    <2>3. At({"count"})' = At({"count"}) \ {r} /\ r \in At({"count"})
        BY <1>1, <1>2 DEF Own, Moves, At
    <2>4. /\ IsFiniteSet(At(Counted)') /\ Cardinality(At(Counted)') = Cardinality(At(Counted)) + 1
        BY <2>1, FS_AddElement DEF Counts
    <2>5. IsFiniteSet(At({"count"})') /\ Cardinality(At({"count"})') = Cardinality(At({"count"})) - 1
        BY <2>3, FS_RemoveElement DEF Counts
    <2>6. Cardinality(DOMAIN flows) \in Nat /\ Cardinality(At({"count"})) \in Nat
          /\ Cardinality(At({"uncount"})) \in Nat /\ Cardinality(At(Counted)) \in Nat
        BY FS_CardinalityType DEF Counts
    <2>7. (active = Cardinality(DOMAIN flows) + Cardinality(At({"uncount"}))
                     - Cardinality(At({"count"})))'
        BY <1>1, <2>2, <2>4, <2>5, <2>6 DEF Counts
    <2>8. (IsFiniteSet(At(Counted)) /\ active = Cardinality(At(Counted)))'
        BY <1>1, <2>2, <2>4, <2>5, <2>6 DEF Counts
    <2>9. QED BY <1>1, <2>2, <2>4, <2>5, <2>6, <2>7, <2>8 DEF Counts
<1>7. QED BY <1>3, <1>4, <1>5, <1>6

\* Dropping the guard first takes the thread's own key out of the table,
LEMMA DropRemoveDivert ==
    ASSUME Divert, NEW r \in Requests, DropRemove(r)
    PROVE  Divert'
<1> USE DEF Divert
<1>1. /\ req[r].pc = "drop" /\ Goes(r, "uncount")
      /\ flows' = [k \in DOMAIN flows \ {req[r].key} |-> flows[k]]
      /\ UNCHANGED <<active, inbox, bridge, outbound, mesh, running, node, refused>>
    BY DEF DropRemove, net
<1>2. Own(r) /\ Moves(req[r], req'[r], "uncount", req[r].result)
    BY <1>1, GoesEffect DEF TypeOK, Labels
<1>3. req[r].key \in DOMAIN flows BY <1>1 DEF TableHeld, Holds, Held
<1>4. TypeOK' BY <1>1, <1>2 DEF TypeOK, Own
<1>5. Kinds' BY <1>1, <1>2 DEF Kinds, Own, Moves, Keeps
<1>6. TableHeld' BY <1>1, <1>2 DEF TableHeld, Own, Moves, Keeps, Holds, Held
<1>7. Counts'
    <2>1. At(Counted)' = At(Counted) BY <1>1, <1>2, AtSame DEF Own, Moves, Counted, Held
    <2>2. At({"uncount"})' = At({"uncount"}) \cup {r} /\ r \notin At({"uncount"})
        BY <1>1, <1>2 DEF Own, Moves, At
    <2>3. At({"count"})' = At({"count"}) BY <1>1, <1>2, AtSame DEF Own, Moves
    <2>4. DOMAIN flows' = DOMAIN flows \ {req[r].key} BY <1>1
    <2>5. /\ IsFiniteSet(At({"uncount"})')
          /\ Cardinality(At({"uncount"})') = Cardinality(At({"uncount"})) + 1
        BY <2>2, FS_AddElement DEF Counts
    <2>6. IsFiniteSet(DOMAIN flows') /\ Cardinality(DOMAIN flows') = Cardinality(DOMAIN flows) - 1
        BY <1>3, <2>4, FS_RemoveElement DEF Counts
    <2>7. Cardinality(DOMAIN flows) \in Nat /\ Cardinality(At({"count"})) \in Nat
          /\ Cardinality(At({"uncount"})) \in Nat
        BY FS_CardinalityType DEF Counts
    <2>8. (active = Cardinality(DOMAIN flows) + Cardinality(At({"uncount"}))
                     - Cardinality(At({"count"})))'
        BY <1>1, <2>1, <2>3, <2>5, <2>6, <2>7 DEF Counts
    <2>9. (IsFiniteSet(At(Counted)) /\ active = Cardinality(At(Counted)))'
        BY <1>1, <2>1, <2>3, <2>5, <2>6, <2>7 DEF Counts
    <2>10. QED BY <1>1, <2>1, <2>3, <2>5, <2>6, <2>7, <2>8, <2>9 DEF Counts
<1>8. QED BY <1>4, <1>5, <1>6, <1>7

\* and then the thread out of the count.
LEMMA DropUncountDivert ==
    ASSUME Divert, NEW r \in Requests, DropUncount(r)
    PROVE  Divert'
<1> USE DEF Divert
<1>1. /\ req[r].pc = "uncount" /\ Returned(r) /\ active' = active - 1
      /\ inbox' = [inbox EXCEPT ![r] = <<>>]
      /\ UNCHANGED <<flows, bridge, outbound, mesh, running, node, refused>>
    BY DEF DropUncount, Returned, net
<1>2. Own(r) /\ req'[r].pc = "done" /\ Fresh(req'[r], req[r].kind)
    BY <1>1, ReturnedEffect DEF TypeOK
<1>3. TypeOK'
    <2>1. <<>> \in Seq(Reply) OBVIOUS
    <2>2. inbox' \in [Requests -> Seq(Reply)] BY <1>1, <2>1 DEF TypeOK
    <2>3. QED BY <1>1, <1>2, <2>2 DEF TypeOK, Own
<1>4. Kinds' BY <1>1, <1>2 DEF Kinds, Own, Fresh
<1>5. TableHeld' BY <1>1, <1>2 DEF TableHeld, Own, Holds, Held
<1>6. Counts'
    <2>1. At(Counted)' = At(Counted) \ {r} /\ r \in At(Counted)
        BY <1>1, <1>2 DEF Own, Counted, Held, At
    <2>2. At({"uncount"})' = At({"uncount"}) \ {r} /\ r \in At({"uncount"})
        BY <1>1, <1>2 DEF Own, At
    <2>3. At({"count"})' = At({"count"}) BY <1>1, <1>2, AtSame DEF Own
    <2>4. IsFiniteSet(At(Counted)') /\ Cardinality(At(Counted)') = Cardinality(At(Counted)) - 1
        BY <2>1, FS_RemoveElement DEF Counts
    <2>5. /\ IsFiniteSet(At({"uncount"})')
          /\ Cardinality(At({"uncount"})') = Cardinality(At({"uncount"})) - 1
        BY <2>2, FS_RemoveElement DEF Counts
    <2>6. Cardinality(DOMAIN flows) \in Nat /\ Cardinality(At({"count"})) \in Nat
          /\ Cardinality(At({"uncount"})) \in Nat /\ Cardinality(At(Counted)) \in Nat
        BY FS_CardinalityType DEF Counts
    <2>7. (active = Cardinality(DOMAIN flows) + Cardinality(At({"uncount"}))
                     - Cardinality(At({"count"})))'
        BY <1>1, <2>3, <2>4, <2>5, <2>6 DEF Counts
    <2>8. (IsFiniteSet(At(Counted)) /\ active = Cardinality(At(Counted)))'
        BY <1>1, <2>3, <2>4, <2>5, <2>6 DEF Counts
    <2>9. QED BY <1>1, <2>3, <2>4, <2>5, <2>6, <2>7, <2>8 DEF Counts
<1>7. QED BY <1>3, <1>4, <1>5, <1>6

\* What comes back for a packet is nothing or one reply, to the request and key it had.
LEMMA RepliesTyped ==
    ASSUME NEW m \in Sent, NEW ps \in Replies(m)
    PROVE  ps = {} \/ \E p \in Reply : ps = {p} /\ p.of = m.of /\ p.key = m.key
<1> DEFINE Numbered == {"unreach", "udp", "ping", "synack", "rst"} \X Nat
           Counting == {"data", "fin"} \X (0..Whole)
<1>1. ASSUME NEW a \in Answers(m) PROVE a \in Numbered \cup Counting
    <2>0. m.n \in Nat /\ m.what \in {"fin", "syn", "http", "udp", "ping"} BY DEF Sent
    <2>1. CASE m.what = "fin"
        <3>1. Answers(m) = {} BY <2>1, Zenon DEF Answers
        <3>2. QED BY <3>1
    <2>2. CASE m.what = "ping"
        <3>1. Answers(m) = {<<"ping", 0>>} BY <2>2, Zenon DEF Answers
        <3>2. QED BY <3>1
    <2>3. CASE m.what = "udp"
        <3>1. Answers(m) = {<<"udp", 0>>, <<"unreach", m.n>>} BY <2>3, Zenon DEF Answers
        <3>2. QED BY <2>0, <3>1
    <2>4. CASE m.what = "syn"
        <3>1. Answers(m) = {<<"synack", 0>>, <<"rst", 0>>, <<"unreach", m.n>>}
            BY <2>4, Zenon DEF Answers
        <3>2. QED BY <2>0, <3>1
    <2>5. CASE m.what = "http"
        <3>1. Answers(m) = {<<"fin", 0>>, <<"rst", 0>>, <<"unreach", m.n>>}
                           \cup ({"data", "fin"} \X (1..Whole))
            BY <2>5, Zenon DEF Answers
        <3>2. QED BY <2>0, <3>1 DEF Whole
    <2>6. QED BY <2>0, <2>1, <2>2, <2>3, <2>4, <2>5
<1>2. ASSUME NEW a \in Numbered \cup Counting
      PROVE  [of |-> m.of, key |-> m.key, what |-> a[1], n |-> a[2]] \in Reply
    BY DEF Sent, Reply
<1>3. CASE ps = {} BY <1>3
<1>4. CASE \E a \in Answers(m) : ps = {[of |-> m.of, key |-> m.key, what |-> a[1], n |-> a[2]]}
    <2>1. PICK a \in Answers(m) : ps = {[of |-> m.of, key |-> m.key, what |-> a[1], n |-> a[2]]}
        BY <1>4
    <2>2. QED BY <1>1, <1>2, <2>1
<1>5. QED BY <1>3, <1>4 DEF Replies

\* The bridge, the node and the engine change neither table nor threads.
LEMMA OutsideDivert ==
    ASSUME Divert,
           ClaimLoad \/ ClaimLookup \/ EngineStops \/ StopClears \/ NodeEnds \/ NodeFails \/ NodeTakes
    PROVE  Divert'
<1> USE DEF Divert
<1>1. UNCHANGED <<req, flows, active>>
    BY DEF ClaimLoad, ClaimLookup, EngineStops, StopClears, NodeEnds, NodeFails, NodeTakes, net, divert
<1>2. Kinds' BY <1>1 DEF Kinds
<1>3. TableHeld' BY <1>1 DEF TableHeld
<1>4. Counts'
    <2>1. At(Counted)' = At(Counted) /\ At({"uncount"})' = At({"uncount"})
          /\ At({"count"})' = At({"count"})
        BY <1>1 DEF At
    <2>2. QED BY <1>1, <2>1 DEF Counts
<1>5. TypeOK'
    <2> USE DEF TypeOK
    <2>1. CASE ClaimLoad
        <3>1. PICK p \in mesh : mesh' = mesh \ {p} /\ bridge' = IF active = 0 THEN {} ELSE {p}
            BY <2>1 DEF ClaimLoad
        <3>2. IsFiniteSet(mesh') BY <3>1, FS_RemoveElement
        <3>3. QED BY <1>1, <2>1, <3>1, <3>2 DEF ClaimLoad
    <2>2. CASE ClaimLookup
        <3>1. \A p \in bridge : p.key \in DOMAIN flows =>
                 Append(inbox[flows[p.key]], p) \in Seq(Reply)
            BY AppendProperties DEF TableHeld
        <3>2. inbox' \in [Requests -> Seq(Reply)]
            BY <2>2, <3>1 DEF ClaimLookup, TableHeld
        <3>3. QED BY <1>1, <2>2, <3>2 DEF ClaimLookup, net
    <2>3. CASE EngineStops BY <1>1, <2>3 DEF EngineStops, divert
    <2>4. CASE StopClears BY <1>1, <2>4 DEF StopClears, divert
    <2>5. CASE NodeEnds \/ NodeFails
        <3>1. outbound' = <<>> /\ node' \in {"gone", "failed"} BY <2>5 DEF NodeEnds, NodeFails
        <3>2. UNCHANGED <<inbox, bridge, mesh, running, refused>>
            BY <2>5 DEF NodeEnds, NodeFails, divert
        <3>3. outbound' \in Seq(Sent) /\ node' \in {"up", "told", "gone", "failed"} BY <3>1
        <3>4. QED BY <1>1, <3>2, <3>3
    <2>6. CASE NodeTakes
        <3>1. Head(outbound) \in Sent /\ outbound' \in Seq(Sent)
            BY <2>6, HeadTailProperties DEF NodeTakes
        <3>2. PICK ps \in Replies(Head(outbound)) :
                 /\ mesh' = mesh \cup ps
                 /\ refused' = [refused EXCEPT ![Head(outbound).of] =
                                  @ + Cardinality({p \in ps : p.what = "unreach"})]
            BY <2>6 DEF NodeTakes
        <3>3. ps = {} \/ \E p \in Reply : ps = {p} BY <3>1, <3>2, RepliesTyped
        <3>4. mesh' \subseteq Reply /\ IsFiniteSet(mesh')
            <4>1. CASE ps = {} BY <3>2, <4>1
            <4>2. ASSUME NEW p \in Reply, ps = {p} PROVE mesh' \subseteq Reply /\ IsFiniteSet(mesh')
                <5>1. IsFiniteSet(mesh \cup {p}) BY FS_AddElement
                <5>2. QED BY <3>2, <4>2, <5>1
            <4>3. QED BY <3>3, <4>1, <4>2
        <3>5. Cardinality({p \in ps : p.what = "unreach"}) \in Nat
            BY <3>3, FS_EmptySet, FS_Singleton, FS_Subset, FS_CardinalityType
        <3>6. Head(outbound).of \in Requests BY <3>1 DEF Sent
        <3>7. refused' \in [Requests -> Nat] BY <3>2, <3>5, <3>6
        <3>8. QED BY <1>1, <2>6, <3>1, <3>4, <3>7 DEF NodeTakes, divert
    <2>7. QED BY <2>1, <2>2, <2>3, <2>4, <2>5, <2>6
<1>6. QED BY <1>2, <1>3, <1>4, <1>5

\* With no flow open the table is empty and the counter zero.
LEMMA InitDivert == Init => Divert
<1> SUFFICES ASSUME Init PROVE Divert OBVIOUS
<1>1. PICK mix \in Mixes, f \in Frames :
         req = [r \in Requests |-> New(mix[r], IF mix[r] = "http" THEN f ELSE None)]
    BY DEF Init
<1>2. ASSUME NEW r \in Requests PROVE req[r] \in Thread /\ Fresh(req[r], mix[r]) /\ req[r].pc = "idle"
    <2>1. mix[r] \in {"http", "udp", "ping", None} BY FetchAssumption
    <2> DEFINE g == IF mix[r] = "http" THEN f ELSE None
    <2>2. g \in Frames \cup {None} OBVIOUS
    <2>3. req[r] = New(mix[r], g) BY <1>1
    <2> HIDE DEF g
    <2>4. Fresh(New(mix[r], g), mix[r]) /\ New(mix[r], g).pc = "idle"
        <3> DEFINE k == mix[r]
        <3>1. k \in {"http", "udp", "ping", None} BY <2>1
        <3> HIDE DEF k
        <3>2. Fresh(New(k, g), k) /\ New(k, g).pc = "idle" BY <2>2, <3>1, NewTypes
        <3>3. QED BY <3>2 DEF k
    <2>5. QED BY <2>3, <2>4 DEF Fresh
<1>3. req \in [Requests -> Thread] BY <1>1, <1>2
<1>4. TypeOK
    <2>1. <<>> \in Seq(Reply) /\ <<>> \in Seq(Sent) OBVIOUS
    <2>2. QED BY <1>3, <2>1, FS_EmptySet DEF Init, TypeOK
<1>5. Kinds BY <1>2 DEF Kinds, Fresh
<1>6. DOMAIN flows = {} BY DEF Init
<1>7. TableHeld BY <1>2, <1>6 DEF TableHeld, Holds, Held
<1>8. Counts
    <2>1. At(Counted) = {} /\ At({"uncount"}) = {} /\ At({"count"}) = {}
        BY <1>2 DEF At, Counted, Held
    <2>2. active = 0 BY DEF Init
    <2>3. IsFiniteSet({}) /\ Cardinality({}) = 0 BY FS_EmptySet
    <2>4. IsFiniteSet(At(Counted)) /\ Cardinality(At(Counted)) = 0 BY <2>1, <2>3
    <2>5. IsFiniteSet(At({"uncount"})) /\ Cardinality(At({"uncount"})) = 0 BY <2>1, <2>3
    <2>6. IsFiniteSet(At({"count"})) /\ Cardinality(At({"count"})) = 0 BY <2>1, <2>3
    <2>7. IsFiniteSet(DOMAIN flows) /\ Cardinality(DOMAIN flows) = 0 BY <1>6, <2>3
    <2>8. QED BY <2>2, <2>4, <2>5, <2>6, <2>7 DEF Counts
<1>9. QED BY <1>4, <1>5, <1>7, <1>8 DEF Divert

\* A step of the system is a step of one thread or one of the others'.
LEMMA NextDivert == Divert /\ [Next]_vars => Divert'
<1> SUFFICES ASSUME Divert, [Next]_vars PROVE Divert' OBVIOUS
<1>1. CASE \E r \in Requests : NotOpened(r) \/ Step(r) \/ Expire(r)
    <2>1. PICK r \in Requests : NotOpened(r) \/ Step(r) \/ Expire(r) BY <1>1
    <2>2. NotOpened(r) \/ Open(r) \/ OpenCount(r) \/ DropRemove(r) \/ DropUncount(r) \/ Loop(r)
        BY <2>1 DEF Step, Loop
    <2>3. QED BY <2>2, NotOpenedDivert, OpenDivert, OpenCountDivert, DropRemoveDivert,
                 DropUncountDivert, LoopDivert
<1>2. CASE ClaimLoad \/ ClaimLookup \/ EngineStops \/ StopClears \/ NodeEnds \/ NodeFails \/ NodeTakes
    BY <1>2, OutsideDivert
<1>3. CASE UNCHANGED vars
    <2>1. UNCHANGED <<req, flows, active, inbox, bridge, outbound, mesh, running, node, refused>>
        BY <1>3 DEF vars, divert, net
    <2>2. At(Counted)' = At(Counted) /\ At({"uncount"})' = At({"uncount"})
          /\ At({"count"})' = At({"count"})
        BY <2>1 DEF At
    <2>3. Counts' BY <2>1, <2>2 DEF Counts, Divert
    <2>4. QED BY <2>1, <2>3 DEF Divert, TypeOK, Kinds, TableHeld
<1>4. QED BY <1>1, <1>2, <1>3 DEF Next

\* The divert's invariant holds in every reachable state.
THEOREM DivertInvariance == Spec => []Divert
BY InitDivert, NextDivert, PTL DEF Spec

\* The counter the bridge reads without the lock is right but for the flows being opened
\* or closed, and no flow outlives its request (Divert::open, FlowGuard::drop).
THEOREM CounterRight == Spec => []ActiveCountsFlows
<1>1. Divert => ActiveCountsFlows
    <2> SUFFICES ASSUME Divert PROVE ActiveCountsFlows OBVIOUS
    <2>1. At({"uncount"}) = {r \in Requests : req[r].pc = "uncount"}
          /\ At({"count"}) = {r \in Requests : req[r].pc = "count"}
        BY DEF At
    <2>2. \A r \in Requests : req[r].pc \in Holds <=> req[r].pc \notin {"idle", "uncount", "done"}
        BY DEF Divert, TypeOK, Thread, Holds, Held
    <2>3. QED BY <2>1, <2>2 DEF Divert, Counts, TableHeld, ActiveCountsFlows
<1>2. QED BY <1>1, DivertInvariance, PTL

-----------------------------------------------------------------------------
(* Packets belong to flows.                                                *)

\* What Next can do to the packets in flight, the bridge apart.
LEMMA ThreadsSparePackets ==
    ASSUME Divert, NEW r \in Requests, NotOpened(r) \/ Step(r) \/ Expire(r)
    PROVE  UNCHANGED <<mesh, bridge, running, node, refused>>
<1>1. CASE Loop(r) BY <1>1, LoopKeepsFlow DEF Divert
<1>2. CASE NotOpened(r) BY <1>2 DEF NotOpened, divert, net
<1>3. CASE Open(r) BY <1>3 DEF Open, net
<1>4. CASE OpenCount(r) BY <1>4 DEF OpenCount, net
<1>5. CASE DropRemove(r) BY <1>5 DEF DropRemove, net
<1>6. CASE DropUncount(r) BY <1>6 DEF DropUncount, net
<1>7. QED BY <1>1, <1>2, <1>3, <1>4, <1>5, <1>6 DEF Step, Loop

\* What a thread's step does to its statement and key, and that only the send to the node
\* queues a packet, under the thread's own key.
LEMMA ThreadStep ==
    ASSUME Divert, NEW r \in Requests, NotOpened(r) \/ Step(r) \/ Expire(r)
    PROVE  /\ Own(r) /\ req'[r].kind = req[r].kind
           /\ \/ req[r].pc \in {"idle", "count"} /\ outbound' = outbound
              \/ /\ req[r].pc \in Counted /\ req'[r].pc \in Counted /\ req'[r].key = req[r].key
                 /\ \/ outbound' = outbound
                    \/ \E m \in Sent : m.of = r /\ m.key = req[r].key /\ outbound' = Append(outbound, m)
              \/ req'[r].pc = "done" /\ outbound' = outbound
<1> USE DEF Divert
<1>1. CASE Loop(r)
    <2>1. Own(r) /\ Keeps(req[r], req'[r]) /\ req[r].pc \in Held /\ req'[r].pc \in Held
        BY <1>1, LoopKeepsFlow
    <2>2. \/ outbound' = outbound
          \/ \E m \in Sent : m.of = r /\ m.key = req[r].key /\ outbound' = Append(outbound, m)
        <3>1. CASE Egress(r)
            <4>1. req[r] \in Thread /\ req[r].key \in Keys
                BY <2>1 DEF TypeOK, TableHeld, Holds
            <4>2. req[r].kind \in {"http", "udp", "ping"} /\ req[r].sends \in Nat
                BY <2>1, <4>1 DEF Kinds, Thread, Held
            <4>3. \A w \in {"fin", "syn", req[r].kind} :
                    [of |-> r, key |-> req[r].key, n |-> req[r].sends, what |-> w] \in Sent
                BY <4>1, <4>2 DEF Sent
            <4>4. \/ outbound' = outbound
                  \/ \E w \in {"fin", "syn", req[r].kind} :
                       outbound' = Append(outbound, [of |-> r, key |-> req[r].key, n |-> req[r].sends, what |-> w])
                BY <3>1 DEF Egress
            <4>5. QED BY <4>3, <4>4
        <3>2. CASE Receive(r) BY <3>2 DEF Receive, net
        <3>3. CASE Top(r) \/ CheckHttp(r) \/ CheckUdp(r) \/ CheckPing(r) \/ Received(r) \/ Expire(r)
            <4>1. UNCHANGED <<divert, net>>
                BY <3>3, Zenon DEF Top, CheckHttp, CheckUdp, CheckPing, Received, Expire
            <4>2. QED BY <4>1 DEF net
        <3>4. QED BY <1>1, <3>1, <3>2, <3>3 DEF Loop
    <2>3. QED BY <2>1, <2>2 DEF Keeps, Counted
<1>2. CASE NotOpened(r)
    <2>1. Goes(r, "done") /\ outbound' = outbound BY <1>2 DEF NotOpened, Goes, net
    <2>2. QED BY <2>1, GoesEffect DEF TypeOK, Labels, Moves, Keeps
<1>3. CASE Open(r)
    <2>1. PICK k \in Keys : Moves([req[r] EXCEPT !.key = k], req'[r], "count", req[r].result)
        BY <1>3, OpenEffect DEF TypeOK
    <2>2. req[r] \in Thread BY DEF TypeOK
    <2>3. req'[r].kind = req[r].kind BY <2>1, <2>2 DEF Moves, Keeps, Thread
    <2>4. outbound' = outbound BY <1>3 DEF Open, net
    <2>5. QED BY <1>3, <2>3, <2>4, OpenEffect DEF TypeOK
<1>4. CASE OpenCount(r)
    <2>1. outbound' = outbound /\ req[r].pc = "count" BY <1>4 DEF OpenCount, net
    <2>2. QED BY <1>4, <2>1, OpenCountEffect DEF TypeOK, Kinds, Moves, Keeps
<1>5. CASE DropRemove(r)
    <2>1. outbound' = outbound /\ req[r].pc = "drop" /\ Goes(r, "uncount") BY <1>5 DEF DropRemove, net
    <2>2. QED BY <2>1, GoesEffect DEF TypeOK, Labels, Moves, Keeps, Counted, Held
<1>6. CASE DropUncount(r)
    <2>1. outbound' = outbound /\ Returned(r) BY <1>6 DEF DropUncount, net
    <2>2. QED BY <2>1, ReturnedEffect DEF TypeOK, Fresh
<1>7. QED BY <1>1, <1>2, <1>3, <1>4, <1>5, <1>6 DEF Step, Loop

\* A thread keeps its key as long as packets of its flow may be about.
LEMMA PacketsThread ==
    ASSUME Divert, PacketsOfFlows, NEW r \in Requests, NotOpened(r) \/ Step(r) \/ Expire(r)
    PROVE  PacketsOfFlows'
<1>1. UNCHANGED <<mesh, bridge>> BY ThreadsSparePackets
<1>2. Own(r) BY ThreadStep
<1>3. ASSUME NEW p, p.of \in Requests, OfFlow(req, p) PROVE OfFlow(req', p)
    <2>1. CASE p.of # r BY <1>2, <1>3, <2>1 DEF OfFlow, Own
    <2>2. CASE p.of = r
        <3>1. req[r].pc \notin {"idle", "count"} BY <1>3, <2>2 DEF OfFlow, Counted, Held
        <3>2. \/ req[r].pc \in Counted /\ req'[r].pc \in Counted /\ req'[r].key = req[r].key
              \/ req'[r].pc = "done"
            BY <3>1, ThreadStep
        <3>3. QED BY <1>3, <2>2, <3>2 DEF OfFlow, Counted, Held
    <2>3. QED BY <2>1, <2>2
<1>4. \A p \in mesh' \cup bridge' : OfFlow(req', p)
    <2>1. \A p \in mesh \cup bridge : p.of \in Requests BY DEF Divert, TypeOK, Reply
    <2>2. QED BY <1>1, <1>3, <2>1 DEF PacketsOfFlows
<1>5. \A i \in 1..Len(outbound) : outbound[i] \in Sent /\ outbound[i].of \in Requests
    <2>1. \A i \in 1..Len(outbound) : outbound[i] \in Sent BY ElementOfSeq DEF Divert, TypeOK
    <2>2. \A m \in Sent : m.of \in Requests BY DEF Sent
    <2>3. QED BY <2>1, <2>2
<1>6. \A i \in 1..Len(outbound) : OfFlow(req', outbound[i])
    <2>1. \A m : m.of \in Requests /\ OfFlow(req, m) => OfFlow(req', m) BY <1>3
    <2>2. \A i \in 1..Len(outbound) : OfFlow(req, outbound[i]) BY DEF PacketsOfFlows
    <2>3. QED BY <1>5, <2>1, <2>2
<1>7. \A i \in 1..Len(outbound') : OfFlow(req', outbound'[i])
    <2>1. CASE outbound' = outbound BY <1>6, <2>1
    <2>2. ASSUME NEW m \in Sent, m.of = r, m.key = req[r].key, outbound' = Append(outbound, m),
                 req'[r].pc \in Counted, req'[r].key = req[r].key
          PROVE  \A i \in 1..Len(outbound') : OfFlow(req', outbound'[i])
        <3>1. /\ Len(outbound) \in Nat /\ Len(outbound') = Len(outbound) + 1
              /\ \A i \in 1..Len(outbound) : outbound'[i] = outbound[i]
              /\ outbound'[Len(outbound) + 1] = m
            BY <2>2, AppendProperties DEF Divert, TypeOK
        <3>2. OfFlow(req', m) BY <2>2 DEF OfFlow
        <3>3. \A i \in 1..Len(outbound') : i \in 1..Len(outbound) \/ i = Len(outbound) + 1
            BY <3>1
        <3>4. QED BY <1>6, <3>1, <3>2, <3>3
    <2>3. QED BY <2>1, <2>2, ThreadStep
<1>8. QED BY <1>4, <1>7 DEF PacketsOfFlows

\* The bridge and the node move packets and answer them under their own key.
LEMMA PacketsOutside ==
    ASSUME Divert, PacketsOfFlows,
           ClaimLoad \/ ClaimLookup \/ EngineStops \/ StopClears \/ NodeEnds \/ NodeFails \/ NodeTakes
    PROVE  PacketsOfFlows'
<1> USE DEF PacketsOfFlows
<1>1. req' = req
    BY DEF ClaimLoad, ClaimLookup, EngineStops, StopClears, NodeEnds, NodeFails, NodeTakes, net, divert
<1>2. CASE ClaimLoad BY <1>1, <1>2 DEF ClaimLoad
<1>3. CASE ClaimLookup BY <1>1, <1>3 DEF ClaimLookup, net
<1>4. CASE EngineStops BY <1>1, <1>4 DEF EngineStops, divert
<1>5. CASE StopClears BY <1>1, <1>5 DEF StopClears, divert
<1>6. CASE NodeEnds \/ NodeFails BY <1>1, <1>6 DEF NodeEnds, NodeFails, divert
<1>7. CASE NodeTakes
    <2>1. outbound \in Seq(Sent) /\ outbound # <<>> /\ outbound' = Tail(outbound) /\ bridge' = bridge
        BY <1>7 DEF NodeTakes, divert, Divert, TypeOK
    <2>2. /\ Head(outbound) \in Sent /\ Head(outbound) = outbound[1] /\ Len(outbound) \in Nat \ {0}
          /\ Len(outbound') = Len(outbound) - 1
          /\ \A i \in 1..Len(outbound') : outbound'[i] = outbound[i + 1]
        BY <2>1, HeadTailProperties, EmptySeq
    <2>3. OfFlow(req, Head(outbound)) BY <2>2
    <2>4. PICK ps \in Replies(Head(outbound)) : mesh' = mesh \cup ps BY <1>7 DEF NodeTakes
    <2>5. \A p \in ps : OfFlow(req, p) BY <2>2, <2>3, <2>4, RepliesTyped DEF OfFlow
    <2>6. \A i \in 1..Len(outbound') : OfFlow(req, outbound'[i])
        <3>1. \A i \in 1..Len(outbound') : i + 1 \in 1..Len(outbound) BY <2>2
        <3>2. QED BY <2>2, <3>1
    <2>7. QED BY <1>1, <2>1, <2>4, <2>5, <2>6
<1>8. QED BY <1>2, <1>3, <1>4, <1>5, <1>6, <1>7

\* So every step keeps the packets with their flows.
LEMMA NextPackets == Divert /\ PacketsOfFlows /\ [Next]_vars => PacketsOfFlows'
<1> SUFFICES ASSUME Divert, PacketsOfFlows, [Next]_vars PROVE PacketsOfFlows' OBVIOUS
<1>1. CASE UNCHANGED vars BY <1>1 DEF PacketsOfFlows, vars, divert, net
<1>2. QED BY <1>1, PacketsThread, PacketsOutside DEF Next

\* No reply of a request is handed to the applications while its flow is open: neither
\* claim's look at the counter nor its look at the table misses it.
LEMMA ClaimsOfOpenFlows ==
    ASSUME Divert, PacketsOfFlows, Next, NEW p \in mesh \cup bridge, GivenBack(p)
    PROVE  req[p.of].pc \in {"uncount", "done"}
<1> USE DEF Divert
<1>0. p \in Reply /\ p.of \in Requests /\ OfFlow(req, p)
    BY DEF PacketsOfFlows, TypeOK, Reply
<1>1. CASE \E r \in Requests : NotOpened(r) \/ Step(r) \/ Expire(r)
    BY <1>1, ThreadsSparePackets DEF GivenBack
<1>2. CASE ClaimLoad
    <2>1. active = 0 /\ p \in mesh BY <1>2 DEF ClaimLoad, GivenBack
    <2>2. At(Counted) = {} BY <2>1, FS_EmptySet DEF Counts
    <2>3. req[p.of].pc \notin Counted BY <1>0, <2>2 DEF At
    <2>4. QED BY <1>0, <2>3 DEF OfFlow
<1>3. CASE ClaimLookup
    <2>1. mesh' = mesh /\ p \in bridge BY <1>3 DEF ClaimLookup, net, GivenBack
    <2>2. inbox' = inbox BY <2>1 DEF GivenBack
    <2>3. ASSUME p.key \in DOMAIN flows PROVE FALSE
        <3>1. inbox' = [inbox EXCEPT ![flows[p.key]] = Append(@, p)]
            BY <1>3, <2>1, <2>3 DEF ClaimLookup, TypeOK
        <3>2. flows[p.key] \in Requests BY <2>3 DEF TableHeld
        <3>3. inbox[flows[p.key]] \in Seq(Reply) BY <3>2 DEF TypeOK
        <3>4. Append(inbox[flows[p.key]], p) = inbox[flows[p.key]] BY <2>2, <3>1, <3>2 DEF TypeOK
        <3>5. QED BY <1>0, <3>3, <3>4, AppendProperties
    <2>4. req[p.of].pc \notin Holds \/ req[p.of].key # p.key BY <1>0, <2>3 DEF TableHeld
    <2>5. QED BY <1>0, <2>4 DEF OfFlow, Counted, Holds
<1>4. CASE EngineStops \/ StopClears \/ NodeEnds \/ NodeFails \/ NodeTakes
    <2>1. mesh \subseteq mesh' /\ bridge' = bridge
        BY <1>4 DEF EngineStops, StopClears, NodeEnds, NodeFails, NodeTakes, divert
    <2>2. QED BY <2>1 DEF GivenBack
<1>5. QED BY <1>1, <1>2, <1>3, <1>4 DEF Next

\* At the start there are no packets.
LEMMA InitPackets == Init => PacketsOfFlows
BY DEF Init, PacketsOfFlows

\* A reply is claimed for its request whatever the bridge's two unlocked looks interleave
\* with (Divert::claim).
THEOREM RepliesAreClaimed == Spec => RepliesClaimed
<1>1. Spec => [](Divert /\ PacketsOfFlows)
    BY InitDivert, NextDivert, InitPackets, NextPackets, PTL DEF Spec
<1>2. Divert /\ PacketsOfFlows /\ [Next]_vars =>
        [\A r \in Requests : (\E p \in mesh \cup bridge : p.of = r /\ GivenBack(p))
           => req[r].pc \in {"uncount", "done"}]_vars
    BY ClaimsOfOpenFlows
<1>3. QED BY <1>1, <1>2, PTL DEF Spec, RepliesClaimed

-----------------------------------------------------------------------------
(* Refusals are counted once.                                              *)

\* What a thread has sent and counted is as it was.
Steady(q, z) ==
    z.kind = q.kind /\ z.sends = q.sends /\ z.unreachable = q.unreachable /\ z.stale = q.stale

\* The steps of a thread, as far as what it sent and counted is concerned.
LEMMA ThreadCounts ==
    ASSUME Divert, NEW r \in Requests, NotOpened(r) \/ Step(r) \/ Expire(r)
    PROVE  \/ Receive(r)
           \/ DropUncount(r)
           \/ /\ req[r].pc = "top" /\ inbox' = inbox /\ outbound' = outbound
              /\ req[r].kind = "udp" => SendsNow(r)
              /\ \E to : Gives(req[r], req'[r], to)
           \/ /\ Steady(req[r], req'[r]) /\ inbox' = inbox
              /\ \/ req[r].pc = "egress" /\ req'[r].pc # "egress"
                 \/ /\ outbound' = outbound
                    /\ req'[r].pc = "egress" => req[r].pc = "egress" \/ req[r].kind # "udp"
<1> USE DEF Divert
<1>1. CASE Top(r)
    <2>1. req[r].pc = "top" /\ inbox' = inbox /\ outbound' = outbound BY <1>1 DEF Top, divert, net
    <2>2. CASE \E label \in {"drop", "check"} : \E what : Moves(req[r], req'[r], label, what)
        BY <2>1, <2>2 DEF Moves, Keeps, Steady
    <2>3. CASE /\ req[r].kind = "udp" => req[r].queued \/ SendsNow(r)
               /\ \E to \in Processed(req[r].kind) : Gives(req[r], req'[r], to)
        BY <2>1, <2>3 DEF Kinds
    <2>4. QED BY <1>1, <2>2, <2>3, TopEffect DEF TypeOK
<1>2. CASE Egress(r)
    BY <1>2, EgressEffect DEF TypeOK, Egress, Moves, Keeps, Steady, divert
<1>3. CASE CheckHttp(r)
    <2>1. req[r].kind = "http" /\ inbox' = inbox /\ outbound' = outbound
        BY <1>3 DEF CheckHttp, divert, net
    <2>2. QED BY <1>3, <2>1, CheckHttpEffect DEF TypeOK, Looks, Keeps, Steady
<1>4. CASE CheckUdp(r)
    BY <1>4, CheckUdpEffect DEF TypeOK, CheckUdp, Moves, Keeps, Steady, divert, net
<1>5. CASE CheckPing(r)
    BY <1>5, CheckPingEffect DEF TypeOK, CheckPing, Moves, Keeps, Steady, divert, net
<1>6. CASE Received(r)
    BY <1>6, ReceivedEffect DEF TypeOK, Received, Moves, Keeps, Steady, divert, net
<1>7. CASE Expire(r)
    BY <1>7, ExpireEffect DEF TypeOK, Expire, Moves, Keeps, Steady, divert, net
<1>8. CASE NotOpened(r)
    <2>1. Goes(r, "done") /\ inbox' = inbox /\ outbound' = outbound
        BY <1>8 DEF NotOpened, Goes, divert, net
    <2>2. Moves(req[r], req'[r], "done", req[r].result)
        BY <2>1, GoesEffect DEF TypeOK, Labels
    <2>3. QED BY <2>1, <2>2 DEF Moves, Keeps, Steady
<1>9. CASE Open(r)
    <2>1. PICK k \in Keys : Moves([req[r] EXCEPT !.key = k], req'[r], "count", req[r].result)
        BY <1>9, OpenEffect DEF TypeOK
    <2>2. req[r] \in Thread BY DEF TypeOK
    <2>3. Steady(req[r], req'[r]) /\ req'[r].pc = "count"
        BY <2>1, <2>2 DEF Moves, Keeps, Steady, Thread
    <2>4. inbox' = inbox /\ outbound' = outbound BY <1>9 DEF Open, net
    <2>5. QED BY <2>3, <2>4
<1>10. CASE OpenCount(r)
    <2>1. inbox' = inbox /\ outbound' = outbound /\ req[r].pc = "count" BY <1>10 DEF OpenCount, net
    <2>2. req \in [Requests -> Thread] BY DEF TypeOK
    <2>3. QED BY <1>10, <2>1, <2>2, OpenCountEffect DEF Kinds, Moves, Keeps, Steady
<1>11. CASE DropRemove(r)
    <2>1. inbox' = inbox /\ outbound' = outbound /\ Goes(r, "uncount") BY <1>11 DEF DropRemove, net
    <2>2. Moves(req[r], req'[r], "uncount", req[r].result)
        BY <2>1, GoesEffect DEF TypeOK, Labels
    <2>3. QED BY <2>1, <2>2 DEF Moves, Keeps, Steady
<1>12. QED BY <1>1, <1>2, <1>3, <1>4, <1>5, <1>6, <1>7, <1>8, <1>9, <1>10, <1>11 DEF Step

\* The sizes in the accounts are numbers.
LEMMA SizesAreNumbers ==
    ASSUME TypeOK, NEW r \in Requests
    PROVE  /\ Cardinality(Places(inbox[r], Errors(r))) \in Nat
           /\ IsFiniteSet(mesh \cap Errors(r)) /\ Cardinality(mesh \cap Errors(r)) \in Nat
           /\ IsFiniteSet(bridge \cap Errors(r)) /\ Cardinality(bridge \cap Errors(r)) \in Nat
           /\ Cardinality(Places(outbound, SentBy(r))) \in Nat
           /\ Believed(r) \in Nat /\ refused[r] \in Nat /\ req[r].sends \in Nat
<1> USE DEF TypeOK
<1>1. inbox[r] \in Seq(Reply) OBVIOUS
<1>2. IsFiniteSet(bridge)
    <2>1. CASE bridge = {} BY <2>1, FS_EmptySet
    <2>2. CASE bridge # {}
        <3>1. PICK p : p \in bridge BY <2>2
        <3>2. bridge = {p} BY <3>1
        <3>3. QED BY <3>2, FS_Singleton
    <2>3. QED BY <2>1, <2>2
<1>3. req[r] \in Thread OBVIOUS
<1>4. Believed(r) \in Nat /\ refused[r] \in Nat /\ req[r].sends \in Nat
    BY <1>3 DEF Believed, Thread
<1>5. IsFiniteSet(mesh \cap Errors(r)) /\ IsFiniteSet(bridge \cap Errors(r))
    BY <1>2, FS_Intersection
<1>6. QED BY <1>1, <1>4, <1>5, PlacesFinite, FS_CardinalityType

\* Taking a packet moves one error from the channel to the count, or spoils the count.
LEMMA ReceiveCounts ==
    ASSUME TypeOK, NEW r \in Requests, Receive(r)
    PROVE  Believed(r)' + Cardinality(Places(inbox'[r], Errors(r)))
              <= Believed(r) + Cardinality(Places(inbox[r], Errors(r)))
<1> DEFINE p == Head(inbox[r])
<1>1. inbox[r] \in Seq(Reply) /\ inbox[r] # <<>> /\ inbox'[r] = Tail(inbox[r])
    BY DEF TypeOK, Receive
<1>2. p \in Reply /\ Takes(req[r], req'[r], r, p) BY ReceiveEffect DEF TypeOK
<1>3. Cardinality(Places(inbox'[r], Errors(r)))
        = IF p \in Errors(r) THEN Cardinality(Places(inbox[r], Errors(r))) - 1
                             ELSE Cardinality(Places(inbox[r], Errors(r)))
    BY <1>1, PlacesTail
<1>4. Cardinality(Places(inbox[r], Errors(r))) \in Nat /\ Believed(r) \in Nat BY SizesAreNumbers
<1>5. req[r].unreachable \in Nat /\ req[r].stale \in BOOLEAN BY DEF TypeOK, Thread
<1> HIDE DEF p
<1>6. CASE p \in Errors(r)
    <2>1. p.of = r /\ p.what = "unreach" BY <1>6 DEF Errors
    <2>2. Believed(r)' <= Believed(r) + 1
        BY <1>2, <1>5, <2>1 DEF Takes, Believed
    <2>3. Believed(r)' \in Nat BY <1>2, <1>5 DEF Takes, Believed
    <2>4. QED BY <1>3, <1>4, <1>6, <2>2, <2>3
<1>7. CASE p \notin Errors(r)
    <2>1. p.of # r \/ p.what # "unreach" BY <1>2, <1>7 DEF Errors
    <2>2. Believed(r)' <= Believed(r) /\ Believed(r)' \in Nat
        <3>1. CASE p.of # r
            <4>1. req'[r].stale BY <1>2, <3>1 DEF Takes
            <4>2. Believed(r)' = 0 BY <4>1 DEF Believed
            <4>3. QED BY <1>4, <4>2
        <3>2. CASE p.of = r
            <4>1. req'[r].stale = req[r].stale BY <1>2, <1>5, <3>2 DEF Takes
            <4>2. req'[r].unreachable = req[r].unreachable BY <1>2, <2>1, <3>2 DEF Takes
            <4>3. Believed(r)' = Believed(r) BY <4>1, <4>2 DEF Believed
            <4>4. QED BY <1>4, <4>3
        <3>3. QED BY <3>1, <3>2
    <2>3. QED BY <1>3, <1>4, <1>7, <2>2
<1>8. QED BY <1>6, <1>7

\* A thread makes no error and counts none twice.
LEMMA RefusalsThread ==
    ASSUME Divert, RefusalsCounted, NEW r \in Requests, NotOpened(r) \/ Step(r) \/ Expire(r)
    PROVE  RefusalsCounted'
<1>0. TypeOK /\ TypeOK' BY NextDivert DEF Divert, Next
<1>1. UNCHANGED <<mesh, bridge, refused>> BY ThreadsSparePackets
<1>2. Own(r) BY ThreadStep
<1>3. \A s \in Requests \ {r} : inbox'[s] = inbox[s]
    BY <1>0, ThreadCounts DEF Receive, DropUncount, Returned, TypeOK
<1>4. Believed(r)' + Cardinality(Places(inbox'[r], Errors(r)))
        <= Believed(r) + Cardinality(Places(inbox[r], Errors(r)))
    <2>0. Cardinality(Places(inbox[r], Errors(r))) \in Nat /\ Believed(r) \in Nat
        BY <1>0, SizesAreNumbers
    <2>1. CASE Receive(r) BY <1>0, <2>1, ReceiveCounts
    <2>2. CASE DropUncount(r)
        <3>1. Fresh(req'[r], req[r].kind) /\ inbox'[r] = <<>>
            BY <1>0, <2>2, ReturnedEffect DEF DropUncount, Returned, TypeOK
        <3>2. Believed(r)' = 0 BY <3>1 DEF Fresh, Believed
        <3>3. Places(inbox'[r], Errors(r)) = {} BY <3>1 DEF Places
        <3>4. Cardinality(Places(inbox'[r], Errors(r))) = 0 BY <3>3, FS_EmptySet
        <3>5. QED BY <2>0, <3>2, <3>4
    <2>3. CASE inbox' = inbox /\ (Steady(req[r], req'[r]) \/ \E to : Gives(req[r], req'[r], to))
        <3>1. Believed(r)' = Believed(r) BY <2>3 DEF Steady, Gives, Believed
        <3>2. QED BY <2>0, <2>3, <3>1
    <2>4. QED BY <2>1, <2>2, <2>3, ThreadCounts
<1>5. ASSUME NEW s \in Requests
      PROVE  Believed(s)' + Cardinality(Places(inbox'[s], Errors(s)))
                + Cardinality(mesh' \cap Errors(s)) + Cardinality(bridge' \cap Errors(s)) <= refused'[s]
    <2>1. Believed(s) + Cardinality(Places(inbox[s], Errors(s)))
                + Cardinality(mesh \cap Errors(s)) + Cardinality(bridge \cap Errors(s)) <= refused[s]
        BY DEF RefusalsCounted
    <2>2. CASE s = r
        <3>1. Cardinality(Places(inbox[r], Errors(r))) \in Nat /\ Cardinality(mesh \cap Errors(r)) \in Nat
              /\ Cardinality(bridge \cap Errors(r)) \in Nat /\ Believed(r) \in Nat /\ refused[r] \in Nat
            BY <1>0, SizesAreNumbers
        <3>2. Cardinality(Places(inbox'[r], Errors(r))) \in Nat /\ Believed(r)' \in Nat
            <4>1. inbox'[r] \in Seq(Reply) BY <1>0 DEF TypeOK
            <4>2. req'[r] \in Thread BY <1>0 DEF TypeOK
            <4>3. Believed(r)' \in Nat BY <4>2 DEF Believed, Thread
            <4>4. QED BY <4>1, <4>3, PlacesFinite
        <3>3. QED BY <1>1, <1>4, <2>1, <2>2, <3>1, <3>2
    <2>3. CASE s # r
        <3>1. Believed(s)' = Believed(s) BY <1>2, <2>3 DEF Believed, Own
        <3>2. QED BY <1>1, <1>3, <2>1, <2>3, <3>1
    <2>4. QED BY <2>2, <2>3
<1>6. QED BY <1>5 DEF RefusalsCounted

\* The sizes of the smallest sets.
LEMMA SmallSizes ==
    /\ IsFiniteSet({}) /\ Cardinality({}) = 0
    /\ \A x : IsFiniteSet({x}) /\ Cardinality({x}) = 1
BY FS_EmptySet, FS_Singleton

\* The bridge and the node move errors about and add to the refusals each one they add.
LEMMA RefusalsOutside ==
    ASSUME Divert, RefusalsCounted,
           ClaimLoad \/ ClaimLookup \/ EngineStops \/ StopClears \/ NodeEnds \/ NodeFails \/ NodeTakes
    PROVE  RefusalsCounted'
<1>0. TypeOK /\ TypeOK' BY NextDivert DEF Divert, Next
<1>1. req' = req
    BY DEF ClaimLoad, ClaimLookup, EngineStops, StopClears, NodeEnds, NodeFails, NodeTakes, net, divert
<1> SUFFICES ASSUME NEW r \in Requests
             PROVE  Believed(r)' + Cardinality(Places(inbox'[r], Errors(r)))
                      + Cardinality(mesh' \cap Errors(r)) + Cardinality(bridge' \cap Errors(r))
                      <= refused'[r]
    BY DEF RefusalsCounted
<1>2. Believed(r)' = Believed(r) BY <1>1 DEF Believed
<1>3. Believed(r) + Cardinality(Places(inbox[r], Errors(r)))
        + Cardinality(mesh \cap Errors(r)) + Cardinality(bridge \cap Errors(r)) <= refused[r]
    BY DEF RefusalsCounted
<1>4. /\ Cardinality(Places(inbox[r], Errors(r))) \in Nat
      /\ IsFiniteSet(mesh \cap Errors(r)) /\ Cardinality(mesh \cap Errors(r)) \in Nat
      /\ IsFiniteSet(bridge \cap Errors(r)) /\ Cardinality(bridge \cap Errors(r)) \in Nat
      /\ Believed(r) \in Nat /\ refused[r] \in Nat
    BY <1>0, SizesAreNumbers
<1>5. CASE ClaimLoad
    <2>1. inbox' = inbox /\ refused' = refused /\ bridge = {} BY <1>5 DEF ClaimLoad
    <2>2. PICK p \in mesh : mesh' = mesh \ {p} /\ (bridge' = {} \/ bridge' = {p})
        BY <1>5 DEF ClaimLoad
    <2>3. Cardinality(mesh' \cap Errors(r)) + Cardinality(bridge' \cap Errors(r))
            <= Cardinality(mesh \cap Errors(r))
        <3>1. CASE p \in Errors(r)
            <4>1. mesh' \cap Errors(r) = (mesh \cap Errors(r)) \ {p} /\ p \in mesh \cap Errors(r)
                BY <2>2, <3>1
            <4>2. Cardinality(mesh' \cap Errors(r)) = Cardinality(mesh \cap Errors(r)) - 1
                BY <1>4, <4>1, FS_RemoveElement
            <4>3. bridge' \cap Errors(r) = {} \/ bridge' \cap Errors(r) = {p} BY <2>2
            <4>4. Cardinality(bridge' \cap Errors(r)) \in {0, 1} BY <4>3, FS_EmptySet, FS_Singleton
            <4>5. QED BY <1>4, <4>2, <4>4
        <3>2. CASE p \notin Errors(r)
            <4>1. mesh' \cap Errors(r) = mesh \cap Errors(r) /\ bridge' \cap Errors(r) = {}
                BY <2>2, <3>2
            <4>2. Cardinality(bridge' \cap Errors(r)) = 0 BY <4>1, SmallSizes
            <4>3. Cardinality(mesh' \cap Errors(r)) = Cardinality(mesh \cap Errors(r)) BY <4>1
            <4>4. QED BY <1>4, <4>2, <4>3
        <3>3. QED BY <3>1, <3>2
    <2>4. Cardinality(bridge \cap Errors(r)) = 0
        <3>1. bridge \cap Errors(r) = {} BY <2>1
        <3>2. QED BY <3>1, SmallSizes
    <2>5. Cardinality(mesh' \cap Errors(r)) \in Nat /\ Cardinality(bridge' \cap Errors(r)) \in Nat
        <3>1. IsFiniteSet(mesh') BY <1>0 DEF TypeOK
        <3>2. IsFiniteSet(bridge') BY <2>2, SmallSizes
        <3>3. QED BY <3>1, <3>2, FS_Intersection, FS_CardinalityType
    <2>6. QED BY <1>2, <1>3, <1>4, <2>1, <2>3, <2>4, <2>5
<1>6. CASE ClaimLookup
    <2>1. mesh' = mesh /\ refused' = refused /\ bridge' = {} BY <1>6 DEF ClaimLookup, net
    <2>2. PICK p \in bridge : \/ inbox' = inbox
                              \/ /\ p.key \in DOMAIN flows
                                 /\ inbox' = [inbox EXCEPT ![flows[p.key]] = Append(@, p)]
        BY <1>6 DEF ClaimLookup
    <2>3. p \in Reply /\ bridge = {p} BY <1>0, <2>2 DEF TypeOK
    <2>4. Cardinality(bridge' \cap Errors(r)) = 0
        <3>1. bridge' \cap Errors(r) = {} BY <2>1
        <3>2. QED BY <3>1, SmallSizes
    <2>5. p \in Errors(r) => Cardinality(bridge \cap Errors(r)) = 1
        <3>1. p \in Errors(r) => bridge \cap Errors(r) = {p} BY <2>3
        <3>2. QED BY <3>1, SmallSizes
    <2>6. \/ inbox'[r] = inbox[r] \/ inbox'[r] = Append(inbox[r], p)
        <3>1. ASSUME NEW t \in Requests, inbox' = [inbox EXCEPT ![t] = Append(@, p)]
              PROVE  inbox'[r] = inbox[r] \/ inbox'[r] = Append(inbox[r], p)
            BY <1>0, <3>1 DEF TypeOK
        <3>2. p.key \in DOMAIN flows => flows[p.key] \in Requests BY DEF Divert, TableHeld
        <3>3. QED BY <2>2, <3>1, <3>2
    <2>7. inbox[r] \in Seq(Reply) BY <1>0 DEF TypeOK
    <2>8. /\ Cardinality(Places(inbox'[r], Errors(r))) <= Cardinality(Places(inbox[r], Errors(r))) + 1
          /\ p \notin Errors(r) =>
               Cardinality(Places(inbox'[r], Errors(r))) = Cardinality(Places(inbox[r], Errors(r)))
        <3>1. Cardinality(Places(Append(inbox[r], p), Errors(r)))
                = IF p \in Errors(r) THEN Cardinality(Places(inbox[r], Errors(r))) + 1
                                     ELSE Cardinality(Places(inbox[r], Errors(r)))
            BY <2>3, <2>7, PlacesAppend
        <3>2. CASE inbox'[r] = inbox[r] BY <1>4, <3>2
        <3>3. CASE inbox'[r] = Append(inbox[r], p) BY <1>4, <3>1, <3>3
        <3>4. QED BY <2>6, <3>2, <3>3
    <2>9. Cardinality(Places(inbox'[r], Errors(r))) \in Nat
        <3>1. inbox'[r] \in Seq(Reply) BY <1>0 DEF TypeOK
        <3>2. QED BY <3>1, PlacesFinite
    <2>10. QED BY <1>2, <1>3, <1>4, <2>1, <2>4, <2>5, <2>8, <2>9
<1>7. CASE EngineStops \/ StopClears \/ NodeEnds \/ NodeFails
    <2>1. UNCHANGED <<inbox, mesh, bridge, refused>>
        BY <1>7 DEF EngineStops, StopClears, NodeEnds, NodeFails, divert
    <2>2. QED BY <1>2, <1>3, <2>1
<1>8. CASE NodeTakes
    <2>1. UNCHANGED <<inbox, bridge>> BY <1>8 DEF NodeTakes, divert
    <2> DEFINE m == Head(outbound)
    <2>2. PICK ps \in Replies(m) :
             /\ mesh' = mesh \cup ps
             /\ refused' = [refused EXCEPT ![m.of] = @ + Cardinality({p \in ps : p.what = "unreach"})]
        BY <1>8 DEF NodeTakes
    <2>3. m \in Sent BY <1>0, <1>8, HeadTailProperties DEF TypeOK, NodeTakes
    <2>4. m.of \in Requests BY <2>3 DEF Sent
    <2> HIDE DEF m
    <2>5. CASE ps = {}
        <3>1. {p \in ps : p.what = "unreach"} = {} BY <2>5
        <3>2. Cardinality({p \in ps : p.what = "unreach"}) = 0 BY <3>1, FS_EmptySet
        <3>3. refused'[r] = refused[r] BY <1>0, <1>4, <2>2, <2>4, <3>2 DEF TypeOK
        <3>4. mesh' = mesh BY <2>2, <2>5
        <3>5. QED BY <1>2, <1>3, <2>1, <3>3, <3>4
    <2>6. ASSUME NEW p \in Reply, ps = {p}, p.of = m.of
          PROVE  Believed(r)' + Cardinality(Places(inbox'[r], Errors(r)))
                      + Cardinality(mesh' \cap Errors(r)) + Cardinality(bridge' \cap Errors(r))
                      <= refused'[r]
        <3>1. CASE p \in Errors(r)
            <4>1. p.of = r /\ p.what = "unreach" BY <3>1 DEF Errors
            <4>2. {x \in ps : x.what = "unreach"} = {p} BY <2>6, <4>1
            <4>3. Cardinality({x \in ps : x.what = "unreach"}) = 1 BY <4>2, FS_Singleton
            <4>4. refused'[r] = refused[r] + 1 BY <1>0, <2>2, <2>4, <2>6, <4>1, <4>3 DEF TypeOK
            <4>5. mesh' \cap Errors(r) = (mesh \cap Errors(r)) \cup {p} BY <2>2, <2>6, <3>1
            <4>6. Cardinality(mesh' \cap Errors(r)) \in Nat
                  /\ Cardinality(mesh' \cap Errors(r)) <= Cardinality(mesh \cap Errors(r)) + 1
                <5> DEFINE M == mesh \cap Errors(r)
                <5>1. IsFiniteSet(M) /\ Cardinality(M) \in Nat BY <1>4
                <5> HIDE DEF M
                <5>2. Cardinality(M \cup {p}) = IF p \in M THEN Cardinality(M) ELSE Cardinality(M) + 1
                    BY <5>1, FS_AddElement
                <5>3. Cardinality(M \cup {p}) \in Nat /\ Cardinality(M \cup {p}) <= Cardinality(M) + 1
                    BY <5>1, <5>2
                <5>4. QED BY <4>5, <5>3 DEF M
            <4>7. QED BY <1>2, <1>3, <1>4, <2>1, <4>4, <4>6
        <3>2. CASE p \notin Errors(r)
            <4>1. mesh' \cap Errors(r) = mesh \cap Errors(r) BY <2>2, <2>6, <3>2
            <4>2. {x \in ps : x.what = "unreach"} \in {{}, {p}} BY <2>6
            <4>3. Cardinality({x \in ps : x.what = "unreach"}) \in {0, 1}
                BY <4>2, FS_EmptySet, FS_Singleton
            <4>4. refused'[r] >= refused[r] /\ refused'[r] \in Nat
                <5> DEFINE c == Cardinality({x \in ps : x.what = "unreach"})
                <5>1. refused' = [refused EXCEPT ![m.of] = @ + c] BY <2>2
                <5>2. c \in Nat BY <4>3
                <5> HIDE DEF c
                <5>3. refused'[r] = refused[r] \/ refused'[r] = refused[r] + c
                    BY <1>0, <2>4, <5>1 DEF TypeOK
                <5>4. QED BY <1>4, <5>2, <5>3
            <4>5. Cardinality(mesh' \cap Errors(r)) = Cardinality(mesh \cap Errors(r)) BY <4>1
            <4>6. Believed(r)' + Cardinality(Places(inbox'[r], Errors(r)))
                      + Cardinality(mesh' \cap Errors(r)) + Cardinality(bridge' \cap Errors(r))
                    <= refused[r]
                BY <1>2, <1>3, <2>1, <4>5
            <4>7. QED BY <1>2, <1>4, <2>1, <4>4, <4>5, <4>6
        <3>3. QED BY <3>1, <3>2
    <2>7. QED BY <2>2, <2>3, <2>5, <2>6, RepliesTyped
<1>9. QED BY <1>5, <1>6, <1>7, <1>8

\* A thread's send moves its packet to the queue; only a new packet is counted as sent.
LEMMA RefusedOnceThread ==
    ASSUME Divert, RefusedOnce, NEW r \in Requests, NotOpened(r) \/ Step(r) \/ Expire(r)
    PROVE  RefusedOnce'
<1>0. TypeOK /\ TypeOK' BY NextDivert DEF Divert, Next
<1>1. refused' = refused BY ThreadsSparePackets
<1>2. Own(r) /\ req'[r].kind = req[r].kind BY ThreadStep
<1>3. \/ outbound' = outbound
      \/ \E m \in Sent : m.of = r /\ outbound' = Append(outbound, m)
    BY ThreadStep
<1>4. req'[r].pc # "done" => req[r].pc # "done" BY ThreadStep DEF Counted, Held
<1>5. ASSUME NEW s \in Requests
      PROVE  /\ Cardinality(Places(outbound', SentBy(s))) \in Nat
             /\ Cardinality(Places(outbound', SentBy(s))) <= Cardinality(Places(outbound, SentBy(s))) + 1
             /\ s # r => Cardinality(Places(outbound', SentBy(s))) = Cardinality(Places(outbound, SentBy(s)))
    <2>1. outbound \in Seq(Sent) /\ Cardinality(Places(outbound, SentBy(s))) \in Nat
        BY <1>0, PlacesFinite DEF TypeOK
    <2>2. CASE outbound' = outbound BY <2>1, <2>2
    <2>3. ASSUME NEW m \in Sent, m.of = r, outbound' = Append(outbound, m)
          PROVE  /\ Cardinality(Places(outbound', SentBy(s))) \in Nat
                 /\ Cardinality(Places(outbound', SentBy(s))) <= Cardinality(Places(outbound, SentBy(s))) + 1
                 /\ s # r => Cardinality(Places(outbound', SentBy(s))) = Cardinality(Places(outbound, SentBy(s)))
        <3>1. Cardinality(Places(outbound', SentBy(s)))
                = IF m \in SentBy(s) THEN Cardinality(Places(outbound, SentBy(s))) + 1
                                     ELSE Cardinality(Places(outbound, SentBy(s)))
            BY <2>1, <2>3, PlacesAppend
        <3>2. s # r => m \notin SentBy(s) BY <2>3 DEF SentBy
        <3>3. QED BY <2>1, <3>1, <3>2
    <2>4. QED BY <1>3, <2>2, <2>3
<1>6. ASSUME NEW s \in Requests, req'[s].kind = "udp", req'[s].pc # "done"
      PROVE  refused'[s] + Cardinality(Places(outbound', SentBy(s)))
               + (IF req'[s].pc = "egress" THEN 1 ELSE 0) <= req'[s].sends
    <2>0. /\ refused[s] \in Nat /\ req[s].sends \in Nat
          /\ Cardinality(Places(outbound, SentBy(s))) \in Nat
        BY <1>0, SizesAreNumbers
    <2>1. CASE s # r
        <3>1. req'[s] = req[s] BY <1>2, <2>1 DEF Own
        <3>2. refused[s] + Cardinality(Places(outbound, SentBy(s)))
                 + (IF req[s].pc = "egress" THEN 1 ELSE 0) <= req[s].sends
            BY <1>6, <3>1 DEF RefusedOnce
        <3>3. QED BY <1>1, <1>5, <2>1, <3>1, <3>2
    <2>2. CASE s = r
        <3>1. req[r].kind = "udp" /\ req[r].pc # "done" BY <1>2, <1>4, <1>6, <2>2
        <3>2. refused[r] + Cardinality(Places(outbound, SentBy(r)))
                 + (IF req[r].pc = "egress" THEN 1 ELSE 0) <= req[r].sends
            BY <3>1 DEF RefusedOnce
        <3> DEFINE P == Cardinality(Places(outbound, SentBy(r)))
                   Q == Cardinality(Places(outbound', SentBy(r)))
        <3>3. /\ P \in Nat /\ Q \in Nat /\ Q <= P + 1 /\ (outbound' = outbound => Q = P)
              /\ refused[r] \in Nat /\ req[r].sends \in Nat
            BY <1>5, <2>0, <2>2
        <3>4. refused[r] + P <= req[r].sends /\ (req[r].pc = "egress" => refused[r] + P + 1 <= req[r].sends)
            BY <3>2, <3>3
        <3> HIDE DEF P, Q
        <3>5. CASE Receive(r)
            <4>1. outbound' = outbound /\ req[r].pc = "wait" BY <3>5 DEF Receive, net
            <4>2. req'[r].pc = "wait" /\ req'[r].sends = req[r].sends
                BY <1>0, <3>5, <4>1, ReceiveEffect DEF TypeOK, Takes
            <4>3. refused[r] + Q <= req'[r].sends BY <3>3, <3>4, <4>1, <4>2
            <4>4. QED BY <1>1, <2>2, <3>3, <4>2, <4>3 DEF Q
        <3>6. CASE DropUncount(r)
            BY <1>0, <1>6, <2>2, <3>6, ReturnedEffect DEF DropUncount, TypeOK
        <3>7. CASE /\ req[r].pc = "top" /\ outbound' = outbound
                   /\ \E to : Gives(req[r], req'[r], to)
            <4>1. req'[r].sends = req[r].sends + 1 BY <3>7 DEF Gives
            <4>2. refused[r] + Q + 1 <= req'[r].sends BY <3>3, <3>4, <3>7, <4>1
            <4>3. QED BY <1>1, <2>2, <3>3, <4>1, <4>2 DEF Q
        <3>8. CASE Steady(req[r], req'[r]) /\ req[r].pc = "egress" /\ req'[r].pc # "egress"
            <4>1. req'[r].sends = req[r].sends BY <3>8 DEF Steady
            <4>2. refused[r] + Q <= req'[r].sends BY <3>3, <3>4, <3>8, <4>1
            <4>3. QED BY <1>1, <2>2, <3>3, <3>8, <4>2 DEF Q
        <3>9. CASE /\ Steady(req[r], req'[r]) /\ outbound' = outbound
                   /\ req'[r].pc = "egress" => req[r].pc = "egress" \/ req[r].kind # "udp"
            <4>1. req'[r].sends = req[r].sends BY <3>9 DEF Steady
            <4>2. refused[r] + Q <= req'[r].sends BY <3>3, <3>4, <3>9, <4>1
            <4>3. req'[r].pc = "egress" => refused[r] + Q + 1 <= req'[r].sends
                BY <3>1, <3>3, <3>4, <3>9, <4>1
            <4>4. QED BY <1>1, <2>2, <3>3, <4>2, <4>3 DEF Q
        <3>10. QED BY <3>5, <3>6, <3>7, <3>8, <3>9, ThreadCounts
    <2>3. QED BY <2>1, <2>2
<1>7. QED BY <1>6 DEF RefusedOnce

\* What the node refuses leaves its queue.
LEMMA RefusedOnceOutside ==
    ASSUME Divert, RefusedOnce,
           ClaimLoad \/ ClaimLookup \/ EngineStops \/ StopClears \/ NodeEnds \/ NodeFails \/ NodeTakes
    PROVE  RefusedOnce' /\ \A r \in Requests : refused[r] <= refused'[r]
<1>0. TypeOK /\ TypeOK' BY NextDivert DEF Divert, Next
<1>1. req' = req
    BY DEF ClaimLoad, ClaimLookup, EngineStops, StopClears, NodeEnds, NodeFails, NodeTakes, net, divert
<1> SUFFICES ASSUME NEW r \in Requests
             PROVE  /\ refused'[r] + Cardinality(Places(outbound', SentBy(r)))
                         <= refused[r] + Cardinality(Places(outbound, SentBy(r)))
                    /\ refused[r] <= refused'[r]
    <2>1. ASSUME NEW s \in Requests, req'[s].kind = "udp", req'[s].pc # "done",
                 refused'[s] + Cardinality(Places(outbound', SentBy(s)))
                   <= refused[s] + Cardinality(Places(outbound, SentBy(s)))
          PROVE  refused'[s] + Cardinality(Places(outbound', SentBy(s)))
                   + (IF req'[s].pc = "egress" THEN 1 ELSE 0) <= req'[s].sends
        <3>1. refused[s] + Cardinality(Places(outbound, SentBy(s)))
                   + (IF req[s].pc = "egress" THEN 1 ELSE 0) <= req[s].sends
            BY <1>1, <2>1 DEF RefusedOnce
        <3>2. /\ refused[s] \in Nat /\ req[s].sends \in Nat
              /\ Cardinality(Places(outbound, SentBy(s))) \in Nat
            BY <1>0, SizesAreNumbers
        <3>3. refused'[s] \in Nat /\ Cardinality(Places(outbound', SentBy(s))) \in Nat
            BY <1>0, PlacesFinite DEF TypeOK
        <3>4. QED BY <1>1, <2>1, <3>1, <3>2, <3>3
    <2>2. QED BY <2>1 DEF RefusedOnce
<1>2. refused[r] \in Nat /\ Cardinality(Places(outbound, SentBy(r))) \in Nat
    BY <1>0, SizesAreNumbers
<1>3. CASE ClaimLoad \/ ClaimLookup \/ EngineStops \/ StopClears
    <2>1. refused' = refused /\ outbound' = outbound
        BY <1>3 DEF ClaimLoad, ClaimLookup, EngineStops, StopClears, net
    <2>2. QED BY <1>2, <2>1
<1>4. CASE NodeEnds \/ NodeFails
    <2>1. refused' = refused /\ outbound' = <<>> BY <1>4 DEF NodeEnds, NodeFails
    <2>2. Places(outbound', SentBy(r)) = {} BY <2>1 DEF Places
    <2>3. Cardinality(Places(outbound', SentBy(r))) = 0 BY <2>2, SmallSizes
    <2>4. QED BY <1>2, <2>1, <2>3
<1>5. CASE NodeTakes
    <2> DEFINE m == Head(outbound)
    <2>1. outbound \in Seq(Sent) /\ outbound # <<>> /\ outbound' = Tail(outbound)
        BY <1>0, <1>5 DEF NodeTakes, TypeOK
    <2>2. PICK ps \in Replies(m) :
             refused' = [refused EXCEPT ![m.of] = @ + Cardinality({p \in ps : p.what = "unreach"})]
        BY <1>5 DEF NodeTakes
    <2>3. m \in Sent BY <2>1, HeadTailProperties
    <2>4. Cardinality(Places(outbound', SentBy(r)))
            = IF m \in SentBy(r) THEN Cardinality(Places(outbound, SentBy(r))) - 1
                                 ELSE Cardinality(Places(outbound, SentBy(r)))
        BY <2>1, PlacesTail
    <2>5. m \in SentBy(r) <=> m.of = r BY <2>3 DEF SentBy
    <2>6. m.of \in Requests BY <2>3 DEF Sent
    <2>7. Cardinality({p \in ps : p.what = "unreach"}) \in {0, 1}
        <3>1. ps = {} \/ \E p : ps = {p} BY <2>2, <2>3, RepliesTyped
        <3>2. {p \in ps : p.what = "unreach"} = {} \/ \E p : {x \in ps : x.what = "unreach"} = {p} BY <3>1
        <3>3. QED BY <3>2, SmallSizes
    <2> DEFINE c == Cardinality({p \in ps : p.what = "unreach"})
    <2>8. refused' = [refused EXCEPT ![m.of] = @ + c] /\ c \in {0, 1} BY <2>2, <2>7
    <2> HIDE DEF m, c
    <2>9. refused'[r] = IF m.of = r THEN refused[r] + c ELSE refused[r]
        BY <1>0, <2>6, <2>8 DEF TypeOK
    <2>10. CASE m.of = r BY <1>2, <2>4, <2>5, <2>8, <2>9, <2>10
    <2>11. CASE m.of # r BY <1>2, <2>4, <2>5, <2>9, <2>11
    <2>12. QED BY <2>10, <2>11
<1>6. QED BY <1>3, <1>4, <1>5

\* A thread that was handed no other request's packet counted only refusals that happened.
LEMMA RefusalsBound ==
    ASSUME TypeOK, RefusalsCounted, NEW r \in Requests
    PROVE  Believed(r) <= refused[r]
<1> DEFINE a == Cardinality(Places(inbox[r], Errors(r)))
           b == Cardinality(mesh \cap Errors(r))
           c == Cardinality(bridge \cap Errors(r))
<1>1. a \in Nat /\ b \in Nat /\ c \in Nat /\ Believed(r) \in Nat /\ refused[r] \in Nat
    BY SizesAreNumbers
<1>2. Believed(r) + a + b + c <= refused[r] BY DEF RefusalsCounted
<1> HIDE DEF a, b, c
<1>3. QED BY <1>1, <1>2

\* A datagram is sent again when the refusals the thread counted have caught up with it.
LEMMA UdpSendsThread ==
    ASSUME Divert, RefusalsCounted, UdpSends, NEW r \in Requests, NotOpened(r) \/ Step(r) \/ Expire(r)
    PROVE  UdpSends'
<1>0. TypeOK BY DEF Divert
<1>1. refused' = refused BY ThreadsSparePackets
<1>2. Own(r) /\ req'[r].kind = req[r].kind BY ThreadStep
<1>3. ASSUME NEW s \in Requests, req'[s].kind = "udp"
      PROVE  req'[s].sends <= 1 + RESENDS /\ (req'[s].stale \/ req'[s].sends <= 1 + refused[s])
    <2>1. CASE s # r BY <1>2, <1>3, <2>1 DEF Own, UdpSends
    <2>2. CASE s = r
        <3>0. /\ req[r].sends \in Nat /\ req[r].unreachable \in Nat /\ refused[r] \in Nat /\ RESENDS \in Nat
            BY <1>0, FetchAssumption DEF TypeOK, Thread
        <3>1. req[r].kind = "udp" BY <1>2, <1>3, <2>2
        <3>2. req[r].sends <= 1 + RESENDS /\ (req[r].stale \/ req[r].sends <= 1 + refused[r])
            BY <3>1 DEF UdpSends
        <3>3. CASE Receive(r) BY <1>0, <2>2, <3>2, <3>3, ReceiveEffect DEF TypeOK, Takes
        <3>4. CASE DropUncount(r)
            <4>1. req'[r].sends = 0 BY <1>0, <3>4, ReturnedEffect DEF DropUncount, TypeOK, Fresh
            <4>2. QED BY <2>2, <3>0, <4>1
        <3>5. CASE SendsNow(r) /\ \E to : Gives(req[r], req'[r], to)
            <4>1. req'[r].sends = req[r].sends + 1 /\ req'[r].stale = req[r].stale BY <3>5 DEF Gives
            <4>2. CASE req[r].sends = 0 BY <2>2, <3>0, <4>1, <4>2
            <4>3. CASE req[r].sends <= RESENDS /\ req[r].unreachable >= req[r].sends
                <5>1. ASSUME ~req[r].stale PROVE req[r].unreachable <= refused[r]
                    <6>1. Believed(r) = req[r].unreachable BY <5>1 DEF Believed
                    <6>2. QED BY <1>0, <6>1, RefusalsBound
                <5>2. QED BY <2>2, <3>0, <4>1, <4>3, <5>1
            <4>4. QED BY <3>5, <4>2, <4>3 DEF SendsNow
        <3>6. CASE Steady(req[r], req'[r]) BY <2>2, <3>2, <3>6 DEF Steady
        <3>7. QED BY <3>1, <3>3, <3>4, <3>5, <3>6, ThreadCounts
    <2>3. QED BY <2>1, <2>2
<1>4. QED BY <1>1, <1>3 DEF UdpSends

\* Why a thread's step gives it its result.
LEMMA VerdictThread ==
    ASSUME Divert, Verdicts, NEW r \in Requests, NotOpened(r) \/ Step(r) \/ Expire(r)
    PROVE  Verdicts'
<1>0. TypeOK /\ Kinds BY DEF Divert
<1>1. Over' = Over BY ThreadsSparePackets DEF Over, Closed
<1>2. Own(r) BY ThreadStep
<1>3. Verdict(req[r], Over) BY DEF Verdicts
<1>4. ASSUME NEW s \in Requests, s # r PROVE Verdict(req'[s], Over')
    <2>1. Verdict(req[s], Over) /\ req'[s] = req[s] BY <1>2, <1>4 DEF Verdicts, Own
    <2>2. QED BY <1>1, <2>1
<1> SUFFICES Verdict(req'[r], Over') BY <1>4 DEF Verdicts
<1>5. ASSUME NEW label, NEW what,
             Moves(req[r], req'[r], label, what), what = req[r].result,
             req[r].result = None \/ (label \in {"drop", "uncount"} \/ label = req[r].pc)
      PROVE  Verdict(req'[r], Over')
    BY <1>1, <1>3, <1>5 DEF Verdict, Moves, Keeps
<1>6. CASE Top(r)
    <2>1. req[r].pc = "top" /\ req[r].result = None BY <1>3, <1>6 DEF Top, Verdict
    <2>2. CASE ~running /\ Moves(req[r], req'[r], "drop", "restarted")
        BY <1>1, <2>2 DEF Verdict, Moves, Over
    <2>3. CASE Moves(req[r], req'[r], "check", req[r].result)
        BY <1>5, <2>1, <2>3
    <2>4. ASSUME NEW to \in Processed(req[r].kind), Gives(req[r], req'[r], to) PROVE Verdict(req'[r], Over')
        <3>1. \/ to[1] \in {"egress", "check"} /\ to[2] = None
              \/ to[1] = "drop" /\ to[2] \in {"unreachable", "other"}
            BY DEF Processed
        <3>2. CASE to[1] \in {"egress", "check"} /\ to[2] = None
            BY <2>4, <3>2 DEF Gives, Verdict, None
        <3>3. CASE to[1] = "drop" /\ to[2] \in {"unreachable", "other"}
            BY <2>4, <3>3 DEF Gives, Verdict, None
        <3>4. QED BY <3>1, <3>2, <3>3
    <2>5. QED BY <1>0, <1>6, <2>2, <2>3, <2>4, TopEffect DEF TypeOK
<1>7. CASE Egress(r)
    <2>1. CASE Closed /\ Moves(req[r], req'[r], "drop", "restarted")
        BY <1>1, <2>1 DEF Verdict, Moves, Over
    <2>2. CASE Moves(req[r], req'[r], "drop", req[r].result) BY <1>5, <2>2
    <2>3. CASE req[r].result = None /\ Moves(req[r], req'[r], "check", req[r].result) BY <1>5, <2>3
    <2>4. QED BY <1>0, <1>7, <2>1, <2>2, <2>3, EgressEffect DEF TypeOK
<1>8. CASE CheckHttp(r)
    <2>1. req[r].kind = "http" BY <1>8 DEF CheckHttp
    <2>2. Looks(req[r], req'[r]) BY <1>0, <1>8, CheckHttpEffect DEF TypeOK
    <2>3. QED BY <2>1, <2>2 DEF Looks, Keeps, Verdict, None
<1>9. CASE CheckUdp(r)
    <2>1. req[r].kind = "udp" /\ req[r].result = None BY <1>3, <1>9 DEF CheckUdp, Verdict
    <2>2. CASE \E what \in {"ok", "timeout"} : Moves(req[r], req'[r], "drop", what)
        BY <2>1, <2>2 DEF Moves, Keeps, Verdict
    <2>3. CASE req[r].unreachable > RESENDS /\ Moves(req[r], req'[r], "drop", "noroute")
        BY <2>1, <2>3 DEF Moves, Keeps, Verdict
    <2>4. CASE Moves(req[r], req'[r], "wait", req[r].result) BY <1>5, <2>1, <2>4
    <2>5. QED BY <1>0, <1>9, <2>2, <2>3, <2>4, CheckUdpEffect DEF TypeOK
<1>10. CASE CheckPing(r)
    <2>1. req[r].kind = "ping" /\ req[r].result = None BY <1>3, <1>10 DEF CheckPing, Verdict
    <2>2. CASE \E what \in {"reached", "silent"} : Moves(req[r], req'[r], "drop", what)
        BY <2>1, <2>2 DEF Moves, Keeps, Verdict
    <2>3. CASE Moves(req[r], req'[r], "wait", req[r].result) BY <1>5, <2>1, <2>3
    <2>4. QED BY <1>0, <1>10, <2>2, <2>3, CheckPingEffect DEF TypeOK
<1>11. CASE Receive(r)
    <2>1. req[r].pc = "wait" /\ req[r].result = None BY <1>3, <1>11 DEF Receive, Verdict
    <2>2. req'[r].pc = "wait" /\ req'[r].result = None
        BY <1>0, <1>11, <2>1, ReceiveEffect DEF TypeOK, Takes
    <2>3. QED BY <2>2 DEF Verdict, None
<1>12. CASE Received(r)
    <2>1. req[r].result = None BY <1>3, <1>12 DEF Received, Verdict
    <2>2. CASE /\ req[r].kind = "http" /\ req[r].unreachable >= UNREACHABLE_LIMIT
               /\ ~req[r].established /\ Moves(req[r], req'[r], "drop", "noroute")
        BY <2>2 DEF Moves, Keeps, Verdict
    <2>3. CASE Moves(req[r], req'[r], "top", req[r].result) BY <1>5, <2>1, <2>3
    <2>4. QED BY <1>0, <1>12, <2>2, <2>3, ReceivedEffect DEF TypeOK
<1>13. CASE Expire(r) BY <1>0, <1>5, <1>13, ExpireEffect DEF TypeOK
<1>14. CASE NotOpened(r)
    <2>1. Goes(r, "done") /\ req[r].pc = "idle" BY <1>14 DEF NotOpened, Goes
    <2>2. req[r].result = None BY <1>3, <2>1 DEF Verdict
    <2>3. QED BY <1>0, <1>5, <2>1, <2>2, GoesEffect DEF TypeOK, Labels
<1>15. CASE Open(r)
    <2>1. PICK k \in Keys : Moves([req[r] EXCEPT !.key = k], req'[r], "count", req[r].result)
        BY <1>0, <1>15, OpenEffect DEF TypeOK
    <2>2. req[r].result = None BY <1>3, <1>15 DEF Open, Verdict
    <2>3. req'[r].pc = "count" /\ req'[r].result = None BY <2>1, <2>2 DEF Moves
    <2>4. QED BY <2>3 DEF Verdict, None
<1>16. CASE OpenCount(r)
    <2>1. req[r].pc = "count" /\ req[r].kind # None BY <1>0, <1>16 DEF OpenCount, Kinds
    <2>2. req[r].result = None BY <1>3, <2>1 DEF Verdict
    <2>3. QED BY <1>0, <1>5, <1>16, <2>1, <2>2, OpenCountEffect DEF TypeOK
<1>17. CASE DropRemove(r)
    <2>1. Goes(r, "uncount") BY <1>17 DEF DropRemove
    <2>2. QED BY <1>0, <1>5, <2>1, GoesEffect DEF TypeOK, Labels
<1>18. CASE DropUncount(r)
    <2>1. req'[r].pc = "done" /\ req'[r].result = None
        BY <1>0, <1>18, ReturnedEffect DEF TypeOK, DropUncount, Fresh
    <2>2. QED BY <2>1 DEF Verdict, None
<1>19. QED
    BY <1>6, <1>7, <1>8, <1>9, <1>10, <1>11, <1>12, <1>13, <1>14, <1>15, <1>16, <1>17, <1>18 DEF Step

\* The whole inductive invariant.
LEMMA NextIInv == IInv /\ [Next]_vars => IInv'
<1> SUFFICES ASSUME IInv, [Next]_vars PROVE IInv' OBVIOUS
<1> USE DEF IInv
<1>1. Divert' /\ PacketsOfFlows' BY NextDivert, NextPackets
<1>3. CASE \E r \in Requests : NotOpened(r) \/ Step(r) \/ Expire(r)
    BY <1>1, <1>3, RefusalsThread, RefusedOnceThread, UdpSendsThread, VerdictThread
<1>4. CASE ClaimLoad \/ ClaimLookup \/ EngineStops \/ StopClears \/ NodeEnds \/ NodeFails \/ NodeTakes
    <2>1. RefusalsCounted' /\ RefusedOnce' /\ \A r \in Requests : refused[r] <= refused'[r]
        BY <1>4, RefusalsOutside, RefusedOnceOutside
    <2>2. req' = req
        BY <1>4 DEF ClaimLoad, ClaimLookup, EngineStops, StopClears, NodeEnds, NodeFails, NodeTakes, net, divert
    <2>3. \A r \in Requests : refused[r] \in Nat /\ refused'[r] \in Nat /\ req[r].sends \in Nat
        BY <1>1 DEF Divert, TypeOK, Thread
    <2>4. UdpSends'
        <3> SUFFICES ASSUME NEW r \in Requests, req[r].kind = "udp"
                     PROVE  /\ req[r].sends <= 1 + RESENDS
                            /\ req[r].stale \/ req[r].sends <= 1 + refused'[r]
            BY <2>2 DEF UdpSends
        <3>1. /\ req[r].sends <= 1 + RESENDS
              /\ req[r].stale \/ req[r].sends <= 1 + refused[r]
            BY DEF UdpSends
        <3>2. QED BY <2>1, <2>3, <3>1
    <2>5. Over => Over'
        BY <1>4 DEF ClaimLoad, ClaimLookup, EngineStops, StopClears, NodeEnds, NodeFails, NodeTakes, net,
                     Over, Closed
    <2>6. Verdicts'
        <3> SUFFICES ASSUME NEW r \in Requests PROVE Verdict(req'[r], Over') BY DEF Verdicts
        <3>1. Verdict(req[r], Over) BY DEF Verdicts
        <3>2. QED BY <2>2, <2>5, <3>1 DEF Verdict
    <2>7. QED BY <1>1, <2>1, <2>4, <2>6
<1>5. CASE UNCHANGED vars
    <2>1. UNCHANGED <<req, inbox, mesh, bridge, refused, outbound, running, node>>
        BY <1>5 DEF vars, divert, net
    <2>2. RefusalsCounted' BY <2>1 DEF RefusalsCounted, Believed
    <2>3. RefusedOnce' BY <2>1 DEF RefusedOnce
    <2>4. UdpSends' BY <2>1 DEF UdpSends
    <2>5. Verdicts' BY <2>1 DEF Verdicts, Verdict, Over, Closed
    <2>6. QED BY <1>1, <2>2, <2>3, <2>4, <2>5
<1>6. QED BY <1>3, <1>4, <1>5 DEF Next

\* It holds at the start.
LEMMA InitIInv == Init => IInv
<1> SUFFICES ASSUME Init PROVE IInv OBVIOUS
<1>1. Divert /\ PacketsOfFlows BY InitDivert, InitPackets
<1>2. /\ inbox = [r \in Requests |-> <<>>] /\ refused = [r \in Requests |-> 0]
      /\ bridge = {} /\ mesh = {} /\ outbound = <<>> /\ running = TRUE
    BY DEF Init
<1>3. PICK mix \in Mixes, f \in Frames :
        req = [r \in Requests |-> New(mix[r], IF mix[r] = "http" THEN f ELSE None)]
    BY DEF Init
<1>4. ASSUME NEW r \in Requests
      PROVE  req[r].pc = "idle" /\ \E k : Fresh(req[r], k)
    <2>1. mix[r] \in {"http", "udp", "ping", None} BY FetchAssumption
    <2> DEFINE g == IF mix[r] = "http" THEN f ELSE None
    <2>2. g \in Frames \cup {None} OBVIOUS
    <2>3. req[r] = New(mix[r], g) BY <1>3
    <2> HIDE DEF g
    <2>4. Fresh(New(mix[r], g), mix[r]) /\ New(mix[r], g).pc = "idle"
        BY <2>1, <2>2, NewTypes
    <2>5. QED BY <2>3, <2>4
<1>5. RefusalsCounted
    <2> SUFFICES ASSUME NEW r \in Requests
                 PROVE  Believed(r) + Cardinality(Places(inbox[r], Errors(r)))
                          + Cardinality(mesh \cap Errors(r)) + Cardinality(bridge \cap Errors(r))
                          <= refused[r]
        BY DEF RefusalsCounted
    <2>1. Places(inbox[r], Errors(r)) = {} /\ mesh \cap Errors(r) = {} /\ bridge \cap Errors(r) = {}
        BY <1>2 DEF Places
    <2>2. Believed(r) = 0 /\ refused[r] = 0
        <3>1. req[r].stale = FALSE /\ req[r].unreachable = 0 BY <1>4 DEF Fresh
        <3>2. QED BY <1>2, <3>1 DEF Believed
    <2>3. /\ Cardinality(Places(inbox[r], Errors(r))) = 0
          /\ Cardinality(mesh \cap Errors(r)) = 0 /\ Cardinality(bridge \cap Errors(r)) = 0
        BY <2>1, SmallSizes
    <2>4. QED BY <2>2, <2>3
<1>6. RefusedOnce
    <2> SUFFICES ASSUME NEW r \in Requests
                 PROVE  refused[r] + Cardinality(Places(outbound, SentBy(r)))
                          + (IF req[r].pc = "egress" THEN 1 ELSE 0) <= req[r].sends
        BY DEF RefusedOnce
    <2>1. Places(outbound, SentBy(r)) = {} BY <1>2 DEF Places
    <2>2. refused[r] = 0 /\ req[r].sends = 0 /\ req[r].pc = "idle" BY <1>2, <1>4 DEF Fresh
    <2>3. QED BY <2>1, <2>2, SmallSizes
<1>7. UdpSends
    <2>1. \A r \in Requests : req[r].sends = 0 /\ refused[r] = 0 BY <1>2, <1>4 DEF Fresh
    <2>2. QED BY <2>1, FetchAssumption DEF UdpSends
<1>8. Verdicts BY <1>4 DEF Verdicts, Verdict, Fresh, None
<1>9. QED BY <1>1, <1>5, <1>6, <1>7, <1>8 DEF IInv

\* The inductive invariant, for any requests, kinds, ports, sizes and limits.
THEOREM Invariance == Spec => []IInv
BY InitIInv, NextIInv, PTL DEF Spec

\* A datagram is repeated only when every earlier copy was refused, and at most RESENDS
\* times, whatever errors come late or are another request's (meshudp.rs, exchange).
THEOREM RepeatsAreRefusals == Spec => []RepeatsOnlyRefused
<1>1. IInv => RepeatsOnlyRefused BY DEF IInv, UdpSends, RepeatsOnlyRefused
<1>2. QED BY <1>1, Invariance, PTL

\* What a request reports is what happened to it, a restart apart, which stands for every end
\* of the node, its own failure included.
THEOREM VerdictsJustified == Spec => []VerdictJustified
<1>1. ASSUME IInv, NEW r \in Requests
      PROVE  /\ req[r].result = "restarted" => ~running \/ Closed
             /\ req[r].result = "noroute" /\ ~req[r].stale =>
                  IF req[r].kind = "udp" THEN req[r].sends = 1 + RESENDS /\ refused[r] = req[r].sends
                  ELSE refused[r] >= UNREACHABLE_LIMIT /\ ~req[r].established
             /\ req[r].result = "ok" /\ req[r].kind = "http" /\ req[r].frame # "close" => req[r].got = Whole
    <2>1. Verdict(req[r], Over) /\ TypeOK BY <1>1 DEF IInv, Verdicts, Divert
    <2>2. ASSUME req[r].result = "noroute", ~req[r].stale
          PROVE  IF req[r].kind = "udp" THEN req[r].sends = 1 + RESENDS /\ refused[r] = req[r].sends
                 ELSE refused[r] >= UNREACHABLE_LIMIT /\ ~req[r].established
        <3>1. /\ refused[r] \in Nat /\ req[r].sends \in Nat /\ req[r].unreachable \in Nat
              /\ RESENDS \in Nat /\ UNREACHABLE_LIMIT \in Nat
            BY <2>1, FetchAssumption DEF TypeOK, Thread
        <3>2. req[r].unreachable <= refused[r]
            <4>1. Believed(r) = req[r].unreachable BY <2>2 DEF Believed
            <4>2. QED BY <1>1, <2>1, <4>1, RefusalsBound DEF IInv
        <3>3. CASE req[r].kind = "udp"
            <4>1. req[r].unreachable > RESENDS BY <2>1, <2>2, <3>3 DEF Verdict
            <4>2. req[r].sends <= 1 + RESENDS BY <1>1, <3>3 DEF IInv, UdpSends
            <4>3. req[r].pc # "done" BY <2>1, <2>2 DEF Verdict, None
            <4>4. refused[r] + Cardinality(Places(outbound, SentBy(r)))
                    + (IF req[r].pc = "egress" THEN 1 ELSE 0) <= req[r].sends
                BY <1>1, <3>3, <4>3 DEF IInv, RefusedOnce
            <4>5. Cardinality(Places(outbound, SentBy(r))) \in Nat BY <2>1, SizesAreNumbers
            <4>6. refused[r] <= req[r].sends BY <3>1, <4>4, <4>5
            <4>7. QED BY <3>1, <3>2, <3>3, <4>1, <4>2, <4>6
        <3>4. CASE req[r].kind # "udp"
            <4>1. req[r].unreachable >= UNREACHABLE_LIMIT /\ ~req[r].established
                BY <2>1, <2>2, <3>4 DEF Verdict
            <4>2. QED BY <3>1, <3>2, <3>4, <4>1
        <3>5. QED BY <3>3, <3>4
    <2>3. QED BY <2>1, <2>2 DEF Verdict, Over
<1>2. IInv => VerdictJustified BY <1>1 DEF VerdictJustified
<1>3. QED BY <1>2, Invariance, PTL
=============================================================================
