----------------------------- MODULE RelayProofs -----------------------------
(***************************************************************************)
(* Proofs about the mesh relay proxy, for any limits, buffer sizes, bounds *)
(* and failures: its slots, its backlog and the order of its half-closes.  *)
(***************************************************************************)
EXTENDS Relay, SequenceTheorems, TLAPS

-----------------------------------------------------------------------------
(* The inductive invariant.                                                *)

\* The pipe thread before its loop, in it and after it.
Before == {"none", "readHead", "open"}
Running == {"head", "down", "wait"}
After == {"done", "wake", "drop", "ended"}

\* The type of each variable, as far as the steps need it: the Booleans and the rest.
Flags ==
    /\ running \in BOOLEAN /\ stop \in BOOLEAN /\ done \in BOOLEAN /\ closes \in BOOLEAN
    /\ local_closed \in BOOLEAN /\ close_sent \in BOOLEAN /\ local_shut \in BOOLEAN
    /\ established \in BOOLEAN /\ late \in BOOLEAN /\ rfin \in BOOLEAN

Types ==
    /\ listener \in {"accept", "ended"}
    /\ backlogged \in Seq({"ours", "other", "wake"}) /\ active \in Int /\ others \in Nat
    /\ client \in {"idle", "queued", "open", "half", "gone"}
    /\ csent \in 0..MaxUp /\ unread \in Nat /\ lbuf \in 0..Cap /\ seen \in Nat
    /\ pipe \in Pc /\ reader \in {"none", "read", "add", "send", "done"}
    /\ forwarder \in {"none", "run", "done"}
    /\ bytes \in Nat /\ locals \in Nat
    /\ to_mesh \in Nat /\ first_left \in Nat /\ to_local \in 0..ToLocalLimit
    /\ unreachable \in Nat /\ socket \in {"none", "syn", "est", "reset", "closed"}
    /\ txb \in 0..Cap /\ rxb \in 0..Cap /\ rsent \in 0..MaxDown /\ got \in Nat

\* The resolver dials once: its connection is queued once, while it waits for it.
Dialled ==
    /\ \A i \in 1..Len(backlogged) : backlogged[i] = "ours" => client = "queued"
    /\ \A i, j \in 1..Len(backlogged) : backlogged[i] = "ours" /\ backlogged[j] = "ours" => i = j

\* Where the resolver and the reader are, given where the pipe is.
Stages ==
    /\ pipe = "none" => client \in {"idle", "queued", "gone"}
    /\ pipe \notin {"none", "drop", "ended"} => client \in {"open", "half", "gone"}
    /\ pipe \in {"drop", "ended"} => client = "gone"
    /\ pipe \in Before => reader = "none"
    /\ done => pipe \in {"wake", "drop", "ended"}
    /\ pipe \in {"wake", "drop"} => done
    /\ pipe = "ended" /\ ~done => reader = "none" /\ locals = 0

\* Before its loop the pipe has nothing, and after it nothing is left but the reader's.
Emptied ==
    /\ pipe \in Before \cup After =>
         /\ to_mesh = 0 /\ first_left = 0 /\ to_local = 0 /\ got = 0 /\ txb = 0 /\ rxb = 0 /\ rsent = 0
         /\ ~local_closed /\ ~close_sent /\ ~local_shut /\ ~rfin
    /\ pipe \in Before =>
         /\ bytes = 0 /\ locals = 0 /\ ~closes /\ lbuf = 0 /\ seen = 0
         /\ unread = csent

\* What the reader has read and not passed on.
InHand == IF reader \in {"add", "send"} THEN 1 ELSE 0

\* While the loop runs all the client wrote, and the head, is somewhere on the way to the
\* relay, and all the relay sent somewhere on the way to the client.
Conserved ==
    /\ pipe \in Running =>
         /\ got + txb + to_mesh + locals + InHand + unread = 1 + csent
         /\ seen + lbuf + to_local + rxb = rsent
    /\ seen + lbuf <= MaxDown

\* Each half is closed behind its data: the reader's event is the last, our FIN needs it
\* and an empty to_mesh unless the relay's end was passed on first, and the local shutdown
\* needs that end and empty buffers.
Closing ==
    pipe \in Running =>
        /\ closes \/ local_closed => reader = "done"
        /\ reader = "done" => client \in {"half", "gone"} /\ (client = "half" => unread = 0)
        /\ local_closed => locals = 0
        /\ close_sent /\ ~local_shut => local_closed /\ to_mesh = 0
        /\ local_shut => rfin /\ to_local = 0 /\ rxb = 0

\* The backlog counts at least what is held for the mesh beyond the head.
Backlog ==
    /\ bytes <= ToMeshLimit + 1
    /\ ~done => /\ first_left <= to_mesh
                /\ to_mesh + locals + (IF reader = "send" THEN 1 ELSE 0) <= first_left + bytes

IInv == Flags /\ Types /\ ConnectionsBounded /\ Dialled /\ Stages /\ Emptied /\ Conserved /\ Closing /\ Backlog

-----------------------------------------------------------------------------
\* It implies that all is within its size.
LEMMA TypesTypeOK == IInv => TypeOK
<1> USE BoundsAssumption, LimitsAssumption
<1> SUFFICES ASSUME IInv PROVE TypeOK OBVIOUS
<1>1. got <= MaxUp + 1
    <2>1. CASE pipe \in Running
        <3>1. InHand \in Nat BY DEF InHand
        <3>2. got + txb + to_mesh + locals + InHand + unread = 1 + csent
            BY <2>1 DEF IInv, Conserved
        <3>3. /\ got \in Nat /\ txb \in Nat /\ to_mesh \in Nat /\ locals \in Nat /\ unread \in Nat
              /\ csent \in Nat /\ csent <= MaxUp /\ MaxUp \in Nat
            BY DEF IInv, Types
        <3>4. QED BY <3>1, <3>2, <3>3
    <2>2. CASE pipe \notin Running
        BY <2>2 DEF IInv, Types, Emptied, Pc, Running, Before, After
    <2>3. QED BY <2>1, <2>2
<1>2. seen \in 0..MaxDown BY DEF IInv, Types, Conserved
<1>3. QED BY <1>1, <1>2 DEF IInv, Flags, Types, TypeOK

-----------------------------------------------------------------------------
(* The listener.                                                           *)

\* The resolver dials: its connection is queued, and no other of its own is.
LEMMA DialIInv ==
    ASSUME IInv, Dial
    PROVE  IInv'
<1> USE BoundsAssumption, LimitsAssumption DEF IInv, Dial, listen, flags, queue, loop, mesh, peer
<1>1. (Flags /\ ConnectionsBounded /\ Backlog)' BY DEF Flags, ConnectionsBounded, Live, Backlog
<1>2. Types' BY DEF Types
<1>3. Dialled' BY DEF Dialled, Types
<1>4. Stages' BY DEF Stages, Types, Before
<1>5. Emptied' BY DEF Stages, Emptied, Types, Before, After
<1>6. Conserved' BY DEF Stages, Conserved, Emptied, InHand, Types, Running, Before, After
<1>7. Closing' BY DEF Stages, Closing, Types, Running
<1>8. QED BY <1>1, <1>2, <1>3, <1>4, <1>5, <1>6, <1>7

\* Another client is queued behind.
LEMMA OtherDialsIInv ==
    ASSUME IInv, OtherDials
    PROVE  IInv'
<1> USE BoundsAssumption, LimitsAssumption DEF IInv, OtherDials, listen, flags, queue, loop, mesh,
         peer
<1>1. /\ Len(backlogged) \in Nat /\ Len(backlogged') = Len(backlogged) + 1
      /\ \A i \in 1..Len(backlogged) : backlogged'[i] = backlogged[i]
      /\ backlogged'[Len(backlogged) + 1] # "ours" /\ backlogged' \in Seq({"ours", "other", "wake"})
    BY AppendProperties DEF Types
<1>2. \A i \in 1..Len(backlogged') : backlogged'[i] = "ours" =>
        i \in 1..Len(backlogged) /\ backlogged[i] = "ours"
    BY <1>1
<1>3. (Flags /\ ConnectionsBounded /\ Stages /\ Emptied /\ Conserved /\ Closing /\ Backlog)'
    BY DEF Flags, ConnectionsBounded, Live, Stages, Emptied, Conserved, InHand, Closing, Backlog
<1>4. Types' BY <1>1 DEF Types
<1>5. Dialled' BY <1>2 DEF Dialled
<1>6. QED BY <1>3, <1>4, <1>5

\* The listener drops what it has queued.
LEMMA ListenerEndsIInv ==
    ASSUME IInv, ListenerEnds
    PROVE  IInv'
<1> USE BoundsAssumption, LimitsAssumption DEF IInv, ListenerEnds, listen, flags, queue, loop,
         mesh, peer
<1>1. (Flags /\ ConnectionsBounded /\ Backlog)' BY DEF Flags, ConnectionsBounded, Live, Backlog
<1>2. Types' BY DEF Types
<1>3. Dialled' BY DEF Dialled, Types
<1>4. Stages' BY DEF Stages, Types, Before
<1>5. Emptied' BY DEF Stages, Emptied, Types, Before, After
<1>6. Conserved' BY DEF Stages, Conserved, Emptied, InHand, Types, Running, Before, After
<1>7. Closing' BY DEF Stages, Closing, Types, Running
<1>8. QED BY <1>1, <1>2, <1>3, <1>4, <1>5, <1>6, <1>7

\* What accept takes off the queue, and what it leaves there.
LEMMA AcceptsHead ==
    ASSUME IInv, Accepts
    PROVE  /\ Tail(backlogged) \in Seq({"ours", "other", "wake"})
           /\ Head(backlogged) = "ours" => client = "queued" /\ pipe = "none"
           /\ \A i \in 1..Len(Tail(backlogged)) : Tail(backlogged)[i] = "ours" =>
                client = "queued" /\ Head(backlogged) # "ours"
           /\ \A i, j \in 1..Len(Tail(backlogged)) :
                Tail(backlogged)[i] = "ours" /\ Tail(backlogged)[j] = "ours" => i = j
<1> USE DEF IInv, Accepts
<1>1. /\ Len(backlogged) \in Nat \ {0} /\ Head(backlogged) = backlogged[1]
      /\ Tail(backlogged) \in Seq({"ours", "other", "wake"}) /\ Len(Tail(backlogged)) = Len(backlogged) - 1
      /\ \A i \in 1..Len(Tail(backlogged)) : Tail(backlogged)[i] = backlogged[i + 1]
    BY HeadTailProperties, EmptySeq DEF Types
<1>2. Head(backlogged) = "ours" => client = "queued" /\ pipe = "none"
    BY <1>1 DEF Dialled, Stages, Types
<1>3. \A i \in 1..Len(Tail(backlogged)) : Tail(backlogged)[i] = "ours" =>
        client = "queued" /\ Head(backlogged) # "ours"
    <2> SUFFICES ASSUME NEW i \in 1..Len(Tail(backlogged)), Tail(backlogged)[i] = "ours"
                 PROVE  client = "queued" /\ Head(backlogged) # "ours"
        OBVIOUS
    <2>1. i + 1 \in 1..Len(backlogged) /\ 1 \in 1..Len(backlogged) /\ i + 1 # 1 BY <1>1
    <2>2. QED BY <1>1, <2>1 DEF Dialled
<1>4. \A i, j \in 1..Len(Tail(backlogged)) :
        Tail(backlogged)[i] = "ours" /\ Tail(backlogged)[j] = "ours" => i = j
    <2> SUFFICES ASSUME NEW i \in 1..Len(Tail(backlogged)), NEW j \in 1..Len(Tail(backlogged)),
                        Tail(backlogged)[i] = "ours", Tail(backlogged)[j] = "ours"
                 PROVE  i = j
        OBVIOUS
    <2>1. i + 1 \in 1..Len(backlogged) /\ j + 1 \in 1..Len(backlogged) /\ i \in Nat /\ j \in Nat
        BY <1>1
    <2>2. i + 1 = j + 1 BY <1>1, <2>1 DEF Dialled
    <2>3. QED BY <2>1, <2>2
<1>5. QED BY <1>1, <1>2, <1>3, <1>4

\* A refused connection leaves the queue, and the resolver is gone if it was its own.
LEMMA RefuseIInv ==
    ASSUME IInv, Refuse
    PROVE  IInv'
<1> USE BoundsAssumption, LimitsAssumption DEF IInv, Refuse, Accepts, listen, flags, queue, loop,
         mesh, peer
<1>1. (Flags /\ ConnectionsBounded /\ Backlog)' BY DEF Flags, ConnectionsBounded, Live, Backlog
<1>2. Types' BY AcceptsHead DEF Types
<1>3. Dialled' BY AcceptsHead DEF Dialled
<1>4. Stages' BY AcceptsHead DEF Stages, Before
<1>5. Emptied' BY AcceptsHead DEF Emptied
<1>6. Conserved' BY AcceptsHead DEF Conserved, Emptied, InHand, Running, Before
<1>7. Closing' BY AcceptsHead DEF Closing, Running
<1>8. QED BY <1>1, <1>2, <1>3, <1>4, <1>5, <1>6, <1>7

\* An admitted connection takes a slot with its thread; the resolver has one connection only.
LEMMA AdmitIInv ==
    ASSUME IInv, Admit
    PROVE  IInv'
<1> USE BoundsAssumption, LimitsAssumption DEF IInv, Admit, Accepts, Connects, listen, flags,
         queue, loop, mesh, peer
<1>1. (Flags /\ Backlog)' BY DEF Flags, Backlog
<1>2. Types'
    <2>1. CASE Head(backlogged) = "ours" BY AcceptsHead, <2>1 DEF Types, Pc
    <2>2. CASE Head(backlogged) # "ours" BY AcceptsHead, <2>2 DEF Types, Pc
    <2>3. QED BY <2>1, <2>2
<1>3. ConnectionsBounded'
    <2>1. CASE Head(backlogged) = "ours" BY AcceptsHead, <2>1 DEF ConnectionsBounded, Live, Types
    <2>2. CASE Head(backlogged) # "ours" BY AcceptsHead, <2>2 DEF ConnectionsBounded, Live, Types
    <2>3. QED BY <2>1, <2>2
<1>4. Dialled'
    <2>1. CASE Head(backlogged) = "ours" BY AcceptsHead, <2>1 DEF Dialled, Types
    <2>2. CASE Head(backlogged) # "ours" BY AcceptsHead, <2>2 DEF Dialled, Types
    <2>3. QED BY <2>1, <2>2
<1>5. Stages'
    <2>1. CASE Head(backlogged) = "ours" BY AcceptsHead, <2>1 DEF Stages, Types, Before
    <2>2. CASE Head(backlogged) # "ours" BY AcceptsHead, <2>2 DEF Stages, Types, Before
    <2>3. QED BY <2>1, <2>2
<1>6. Emptied'
    <2>1. CASE Head(backlogged) = "ours" BY AcceptsHead, <2>1 DEF Emptied, Types, Before, After
    <2>2. CASE Head(backlogged) # "ours" BY AcceptsHead, <2>2 DEF Emptied, Types, Before, After
    <2>3. QED BY <2>1, <2>2
<1>7. Conserved'
    <2>1. CASE Head(backlogged) = "ours"
        BY AcceptsHead, <2>1 DEF Conserved, Emptied, InHand, Types, Running, Before, After
    <2>2. CASE Head(backlogged) # "ours"
        BY AcceptsHead, <2>2 DEF Conserved, Emptied, InHand, Types, Running, Before, After
    <2>3. QED BY <2>1, <2>2
<1>8. Closing' BY AcceptsHead DEF Closing, Running
<1>9. QED BY <1>1, <1>2, <1>3, <1>4, <1>5, <1>6, <1>7, <1>8

\* Another connection gives its slot back with its thread.
LEMMA OtherEndsIInv ==
    ASSUME IInv, OtherEnds
    PROVE  IInv'
<1> USE BoundsAssumption, LimitsAssumption DEF IInv, OtherEnds, listen, flags, queue, loop, mesh,
         peer
<1>1. (Flags /\ Dialled /\ Stages /\ Emptied /\ Conserved /\ Closing /\ Backlog)'
    BY DEF Flags, Dialled, Stages, Emptied, Conserved, InHand, Closing, Backlog
<1>2. Types' BY DEF Types
<1>3. ConnectionsBounded' BY DEF ConnectionsBounded, Live, Types
<1>4. QED BY <1>1, <1>2, <1>3

\* The proxy is dropped: a connection nobody counts wakes the listener.
LEMMA DropProxyIInv ==
    ASSUME IInv, DropProxy
    PROVE  IInv'
<1> USE BoundsAssumption, LimitsAssumption DEF IInv, DropProxy, listen, flags, queue, loop, mesh,
         peer
<1>1. (ConnectionsBounded /\ Stages /\ Emptied /\ Conserved /\ Closing /\ Backlog)'
    BY DEF ConnectionsBounded, Live, Stages, Emptied, Conserved, InHand, Closing, Backlog
<1>2. Flags' BY Zenon DEF Flags
<1>3. Types' BY DEF Types
<1>4. Dialled'
    <2>1. CASE listener = "ended" BY <2>1 DEF Dialled
    <2>2. CASE listener # "ended"
        <3>1. /\ Len(backlogged) \in Nat /\ Len(backlogged') = Len(backlogged) + 1
              /\ \A i \in 1..Len(backlogged) : backlogged'[i] = backlogged[i]
              /\ backlogged'[Len(backlogged) + 1] # "ours" /\ backlogged' \in Seq({"ours", "other", "wake"})
            BY <2>2, AppendProperties DEF Types
        <3>2. \A i \in 1..Len(backlogged') : backlogged'[i] = "ours" =>
                i \in 1..Len(backlogged) /\ backlogged[i] = "ours"
            BY <3>1
        <3>3. QED BY <3>2 DEF Dialled
    <2>3. QED BY <2>1, <2>2
<1>5. QED BY <1>1, <1>2, <1>3, <1>4

\* The engine stops.
LEMMA EngineStopsIInv ==
    ASSUME IInv, EngineStops
    PROVE  IInv'
<1> USE BoundsAssumption, LimitsAssumption DEF IInv, EngineStops, listen, flags, queue, loop, mesh,
         peer
<1>1. (Types /\ ConnectionsBounded /\ Dialled /\ Stages /\ Emptied /\ Conserved /\ Closing /\ Backlog)'
    BY DEF Types, ConnectionsBounded, Live, Dialled, Stages, Emptied, Conserved, InHand, Closing,
       Backlog
<1>2. Flags' BY Zenon DEF Flags
<1>3. QED BY <1>1, <1>2

-----------------------------------------------------------------------------
(* The two peers.                                                          *)

\* What the client writes is not read yet.
LEMMA ClientWritesIInv ==
    ASSUME IInv, ClientWrites
    PROVE  IInv'
<1> USE BoundsAssumption, LimitsAssumption DEF IInv, ClientWrites, listen, flags, queue, loop,
         mesh, peer
<1>1. (Flags /\ ConnectionsBounded /\ Dialled /\ Stages /\ Backlog)'
    BY DEF Flags, ConnectionsBounded, Live, Dialled, Stages, Backlog
<1>2. Types' BY DEF Types
<1>3. Emptied' BY DEF Stages, Emptied, Types, Before, After
<1>4. Conserved' BY DEF Stages, Conserved, Emptied, InHand, Types, Running, Before, After
<1>5. Closing' BY DEF Stages, Closing, Types, Running
<1>6. QED BY <1>1, <1>2, <1>3, <1>4, <1>5

\* A client that has finished has written all it will.
LEMMA ClientShutsIInv ==
    ASSUME IInv, ClientShuts
    PROVE  IInv'
<1> USE BoundsAssumption, LimitsAssumption DEF IInv, ClientShuts, listen, flags, queue, loop, mesh,
         peer
<1>1. (Flags /\ ConnectionsBounded /\ Backlog)' BY DEF Flags, ConnectionsBounded, Live, Backlog
<1>2. Types' BY DEF Types
<1>3. Dialled' BY DEF Dialled, Types
<1>4. Stages' BY DEF Stages, Types, Before
<1>5. Emptied' BY DEF Stages, Emptied, Types, Before, After
<1>6. Conserved' BY DEF Stages, Conserved, Emptied, InHand, Types, Running, Before, After
<1>7. Closing' BY DEF Stages, Closing, Types, Running
<1>8. QED BY <1>1, <1>2, <1>3, <1>4, <1>5, <1>6, <1>7

\* A client that has closed is not owed anything.
LEMMA ClientClosesIInv ==
    ASSUME IInv, ClientCloses
    PROVE  IInv'
<1> USE BoundsAssumption, LimitsAssumption DEF IInv, ClientCloses, listen, flags, queue, loop,
         mesh, peer
<1>1. (Flags /\ ConnectionsBounded /\ Backlog)' BY DEF Flags, ConnectionsBounded, Live, Backlog
<1>2. Types' BY DEF Types
<1>3. Dialled' BY DEF Dialled, Types
<1>4. Stages' BY DEF Stages, Types, Before
<1>5. Emptied' BY DEF Stages, Emptied, Types, Before, After
<1>6. Conserved' BY DEF Stages, Conserved, Emptied, InHand, Types, Running, Before, After
<1>7. Closing' BY DEF Stages, Closing, Types, Running
<1>8. QED BY <1>1, <1>2, <1>3, <1>4, <1>5, <1>6, <1>7

\* The client reads what was written to it.
LEMMA ClientReadsIInv ==
    ASSUME IInv, ClientReads
    PROVE  IInv'
<1> USE BoundsAssumption, LimitsAssumption DEF IInv, ClientReads, listen, flags, queue, loop, mesh,
         peer
<1>1. (Flags /\ ConnectionsBounded /\ Dialled /\ Stages /\ Closing /\ Backlog)'
    BY DEF Flags, ConnectionsBounded, Live, Dialled, Stages, Closing, Backlog
<1>2. Types' BY DEF Types
<1>3. Emptied' BY DEF Stages, Emptied, Types, Before, After
<1>4. Conserved' BY DEF Stages, Conserved, Emptied, InHand, Types, Running, Before, After
<1>5. QED BY <1>1, <1>2, <1>3, <1>4

\* The relay answers the SYN.
LEMMA RelayAnswersIInv ==
    ASSUME IInv, RelayAnswers
    PROVE  IInv'
<1> USE BoundsAssumption, LimitsAssumption DEF IInv, RelayAnswers, Waiting, listen, flags, queue,
         loop, mesh, peer
<1>1. (Flags /\ ConnectionsBounded /\ Dialled /\ Stages /\ Emptied /\ Conserved /\ Closing /\ Backlog)'
    BY DEF Flags, ConnectionsBounded, Live, Dialled, Stages, Emptied, Conserved, InHand, Closing,
       Backlog
<1>2. Types' BY DEF Types
<1>3. QED BY <1>1, <1>2

\* The SYN is refused.
LEMMA RelayUnreachableIInv ==
    ASSUME IInv, RelayUnreachable
    PROVE  IInv'
<1> USE BoundsAssumption, LimitsAssumption DEF IInv, RelayUnreachable, Waiting, listen, flags,
         queue, loop, mesh, peer
<1>1. (Flags /\ ConnectionsBounded /\ Dialled /\ Stages /\ Emptied /\ Conserved /\ Closing /\ Backlog)'
    BY DEF Flags, ConnectionsBounded, Live, Dialled, Stages, Emptied, Conserved, InHand, Closing,
       Backlog
<1>2. Types' BY DEF Types
<1>3. QED BY <1>1, <1>2

\* The relay takes what the socket sent.
LEMMA RelayTakesIInv ==
    ASSUME IInv, RelayTakes
    PROVE  IInv'
<1> USE BoundsAssumption, LimitsAssumption DEF IInv, RelayTakes, Waiting, listen, flags, queue,
         loop, mesh, peer
<1>1. (Flags /\ ConnectionsBounded /\ Dialled /\ Stages /\ Closing /\ Backlog)'
    BY DEF Flags, ConnectionsBounded, Live, Dialled, Stages, Closing, Backlog
<1>2. Types' BY DEF Types
<1>3. Emptied' BY DEF Stages, Emptied, Types, Before, After
<1>4. Conserved' BY DEF Stages, Conserved, Emptied, InHand, Types, Running, Before, After
<1>5. QED BY <1>1, <1>2, <1>3, <1>4

\* The relay sends, but not after it has finished.
LEMMA RelaySendsIInv ==
    ASSUME IInv, RelaySends
    PROVE  IInv'
<1> USE BoundsAssumption, LimitsAssumption DEF IInv, RelaySends, Waiting, listen, flags, queue,
         loop, mesh, peer
<1>1. (Flags /\ ConnectionsBounded /\ Dialled /\ Stages /\ Backlog)'
    BY DEF Flags, ConnectionsBounded, Live, Dialled, Stages, Backlog
<1>2. Types' BY DEF Types
<1>3. Emptied' BY DEF Stages, Emptied, Types, Before, After
<1>4. Conserved' BY DEF Stages, Conserved, Emptied, InHand, Types, Running, Before, After
<1>5. Closing' BY DEF Stages, Closing, Types, Running
<1>6. QED BY <1>1, <1>2, <1>3, <1>4, <1>5

\* The relay finishes.
LEMMA RelayFinishesIInv ==
    ASSUME IInv, RelayFinishes
    PROVE  IInv'
<1> USE BoundsAssumption, LimitsAssumption DEF IInv, RelayFinishes, Waiting, listen, flags, queue,
         loop, mesh, peer
<1>1. (Types /\ ConnectionsBounded /\ Dialled /\ Stages /\ Conserved /\ Backlog)'
    BY DEF Types, ConnectionsBounded, Live, Dialled, Stages, Conserved, InHand, Backlog
<1>2. Flags' BY Zenon DEF Flags
<1>3. Emptied' BY DEF Stages, Emptied, Types, Before, After
<1>4. Closing' BY DEF Stages, Closing, Types, Running
<1>5. QED BY <1>1, <1>2, <1>3, <1>4

\* Both sides have finished.
LEMMA RelayAcksFinIInv ==
    ASSUME IInv, RelayAcksFin
    PROVE  IInv'
<1> USE BoundsAssumption, LimitsAssumption DEF IInv, RelayAcksFin, Waiting, listen, flags, queue,
         loop, mesh, peer
<1>1. (Flags /\ ConnectionsBounded /\ Dialled /\ Stages /\ Emptied /\ Conserved /\ Closing /\ Backlog)'
    BY DEF Flags, ConnectionsBounded, Live, Dialled, Stages, Emptied, Conserved, InHand, Closing,
       Backlog
<1>2. Types' BY DEF Types
<1>3. QED BY <1>1, <1>2

\* The relay resets.
LEMMA RelayResetsIInv ==
    ASSUME IInv, RelayResets
    PROVE  IInv'
<1> USE BoundsAssumption, LimitsAssumption DEF IInv, RelayResets, Waiting, listen, flags, queue,
         loop, mesh, peer
<1>1. (ConnectionsBounded /\ Dialled /\ Stages /\ Conserved /\ Backlog)'
    BY DEF ConnectionsBounded, Live, Dialled, Stages, Conserved, InHand, Backlog
<1>2. Flags' BY Zenon DEF Flags
<1>3. Types' BY DEF Types
<1>4. Emptied' BY DEF Stages, Emptied, Types, Before, After
<1>5. Closing' BY DEF Stages, Closing, Types, Running
<1>6. QED BY <1>1, <1>2, <1>3, <1>4, <1>5

\* The deadline passes.
LEMMA ConnectTimeoutIInv ==
    ASSUME IInv, ConnectTimeout
    PROVE  IInv'
<1> USE BoundsAssumption, LimitsAssumption DEF IInv, ConnectTimeout, Waiting, listen, flags, queue,
         loop, mesh, peer
<1>1. (Types /\ ConnectionsBounded /\ Dialled /\ Stages /\ Emptied /\ Conserved /\ Closing /\ Backlog)'
    BY DEF Types, ConnectionsBounded, Live, Dialled, Stages, Emptied, Conserved, InHand, Closing,
       Backlog
<1>2. Flags' BY Zenon DEF Flags
<1>3. QED BY <1>1, <1>2

-----------------------------------------------------------------------------
(* The local reader and the mesh forwarder.                                *)

\* The reader takes a read off the connection.
LEMMA ReaderReadsIInv ==
    ASSUME IInv, ReaderReads
    PROVE  IInv'
<1> USE BoundsAssumption, LimitsAssumption DEF IInv, ReaderReads, listen, flags, queue, loop, mesh,
         peer
<1>1. (Flags /\ ConnectionsBounded /\ Dialled)' BY DEF Flags, ConnectionsBounded, Live, Dialled
<1>2. Types' BY DEF Types
<1>3. Stages' BY DEF Stages, Types, Before
<1>4. Emptied' BY DEF Stages, Emptied, Types, Before, After
<1>5. Conserved' BY DEF Stages, Conserved, Emptied, InHand, Types, Running, Before, After
<1>6. Closing' BY DEF Stages, Closing, Types, Running
<1>7. Backlog' BY DEF Backlog, Types, Stages
<1>8. QED BY <1>1, <1>2, <1>3, <1>4, <1>5, <1>6, <1>7

\* The reader ends with the client, and its event is behind all the data.
LEMMA ReaderEofIInv ==
    ASSUME IInv, ReaderEof
    PROVE  IInv'
<1> USE BoundsAssumption, LimitsAssumption DEF IInv, ReaderEof, listen, flags, queue, loop, mesh,
         peer
<1>1. (ConnectionsBounded /\ Dialled)' BY DEF ConnectionsBounded, Live, Dialled
<1>2. Flags' BY Zenon DEF Flags
<1>3. Types' BY DEF Types
<1>4. Stages' BY DEF Stages, Types, Before
<1>5. Emptied' BY DEF Stages, Emptied, Types, Before, After
<1>6. Conserved' BY DEF Stages, Conserved, Emptied, InHand, Types, Running, Before, After
<1>7. Closing' BY DEF Stages, Closing, Types, Running
<1>8. Backlog' BY DEF Backlog, Types, Stages
<1>9. QED BY <1>1, <1>2, <1>3, <1>4, <1>5, <1>6, <1>7, <1>8

\* The reader adds its read to the backlog, which it may pass by one.
LEMMA ReaderAddIInv ==
    ASSUME IInv, ReaderAdd
    PROVE  IInv'
<1> USE BoundsAssumption, LimitsAssumption DEF IInv, ReaderAdd, listen, flags, queue, loop, mesh,
         peer
<1>1. (Flags /\ ConnectionsBounded /\ Dialled)' BY DEF Flags, ConnectionsBounded, Live, Dialled
<1>2. Types' BY DEF Types
<1>3. Stages' BY DEF Stages, Types, Before
<1>4. Emptied' BY DEF Stages, Emptied, Types, Before, After
<1>5. Conserved' BY DEF Stages, Conserved, Emptied, InHand, Types, Running, Before, After
<1>6. Closing' BY DEF Stages, Closing, Types, Running
<1>7. Backlog'
    <2>1. bytes \in Nat /\ ToMeshLimit \in Nat /\ to_mesh \in Nat /\ locals \in Nat /\ first_left \in Nat BY DEF Types
    <2>2. UNCHANGED <<to_mesh, locals, first_left, done>> OBVIOUS
    <2>3. CASE bytes <= ToMeshLimit /\ bytes' = bytes + 1 /\ reader' = "send" BY <2>1, <2>2, <2>3 DEF Backlog
    <2>4. CASE done /\ UNCHANGED bytes BY <2>1, <2>2, <2>4 DEF Backlog
    <2>5. QED BY <2>3, <2>4
<1>8. QED BY <1>1, <1>2, <1>3, <1>4, <1>5, <1>6, <1>7

\* The reader passes its read on.
LEMMA ReaderSendIInv ==
    ASSUME IInv, ReaderSend
    PROVE  IInv'
<1> USE BoundsAssumption, LimitsAssumption DEF IInv, ReaderSend, listen, flags, queue, loop, mesh,
         peer
<1>1. (Flags /\ ConnectionsBounded /\ Dialled)' BY DEF Flags, ConnectionsBounded, Live, Dialled
<1>2. Types' BY DEF Types
<1>3. Stages' BY DEF Stages, Types, Before
<1>4. Emptied' BY DEF Stages, Emptied, Types, Before, After
<1>5. Conserved'
    <2>1. CASE pipe = "ended" BY <2>1 DEF Conserved, Running
    <2>2. CASE pipe # "ended" BY <2>2 DEF Conserved, InHand, Types
    <2>3. QED BY <2>1, <2>2
<1>6. Closing' BY DEF Stages, Closing, Types, Running
<1>7. Backlog' BY DEF Backlog, Types, Stages
<1>8. QED BY <1>1, <1>2, <1>3, <1>4, <1>5, <1>6, <1>7

\* The forwarder ends with the pipe.
LEMMA ForwarderEndsIInv ==
    ASSUME IInv, ForwarderEnds
    PROVE  IInv'
<1> USE BoundsAssumption, LimitsAssumption DEF IInv, ForwarderEnds, listen, flags, queue, loop,
         mesh, peer
<1>1. (Flags /\ ConnectionsBounded /\ Dialled /\ Stages /\ Emptied /\ Conserved /\ Closing /\ Backlog)'
    BY DEF Flags, ConnectionsBounded, Live, Dialled, Stages, Emptied, Conserved, InHand, Closing,
       Backlog
<1>2. Types' BY DEF Types
<1>3. QED BY <1>1, <1>2

-----------------------------------------------------------------------------
(* The pipe thread.                                                        *)

\* The thread returns before its loop: nobody has read or written anything.
LEMMA ReturnedIInv ==
    ASSUME IInv, pipe \in {"readHead", "open"}, Returned,
           UNCHANGED <<backlogged, listener, others, flags, lbuf, seen, queue, loop, mesh, reader,
                    forwarder>>
    PROVE  IInv'
<1> USE BoundsAssumption, LimitsAssumption DEF IInv, Returned, listen, flags, queue, loop, mesh,
         peer
<1>1. (Flags /\ Backlog)' BY DEF Flags, Backlog
<1>2. Types' BY DEF Types, Pc
<1>3. ConnectionsBounded' BY DEF ConnectionsBounded, Live, Types
<1>4. Dialled' BY DEF Dialled, Stages, Types
<1>5. Stages' BY DEF Stages, Emptied, Before
<1>6. Emptied' BY DEF Emptied, Before, After
<1>7. Conserved' BY DEF Conserved, Emptied, Running, Before
<1>8. Closing' BY DEF Closing, Running
<1>9. QED BY <1>1, <1>2, <1>3, <1>4, <1>5, <1>6, <1>7, <1>8

\* The head is read, or the thread returns.
LEMMA ReadHeadIInv ==
    ASSUME IInv, ReadHead
    PROVE  IInv'
<1> USE BoundsAssumption, LimitsAssumption DEF IInv, listen, flags, queue, loop, mesh, peer
<1>1. \/ /\ pipe = "readHead" /\ pipe' = "open"
         /\ UNCHANGED <<listen, flags, peer, queue, loop, mesh, reader, forwarder>>
      \/ pipe = "readHead" /\ Returned /\ UNCHANGED <<backlogged, listener, others, flags, lbuf,
               seen>>
         /\ UNCHANGED <<queue, loop, mesh, reader, forwarder>>
    BY DEF ReadHead
<1> SUFFICES ASSUME pipe = "readHead", pipe' = "open",
                    UNCHANGED <<listen, flags, peer, queue, loop, mesh, reader, forwarder>>
             PROVE  IInv'
    BY <1>1, ReturnedIInv
<1>2. (Flags /\ Dialled /\ Backlog)' BY DEF Flags, Dialled, Backlog
<1>3. Types' BY DEF Types, Pc
<1>4. ConnectionsBounded' BY DEF ConnectionsBounded, Live
<1>5. Stages' BY DEF Stages, Before
<1>6. Emptied' BY DEF Emptied, Before, After
<1>7. Conserved' BY DEF Conserved, Running
<1>8. Closing' BY DEF Closing, Running
<1>9. QED BY <1>2, <1>3, <1>4, <1>5, <1>6, <1>7, <1>8

\* The flow is opened with the head to send, or the thread returns.
LEMMA OpenFlowIInv ==
    ASSUME IInv, OpenFlow
    PROVE  IInv'
<1> USE BoundsAssumption, LimitsAssumption DEF IInv, listen, flags, queue, loop, mesh, peer
<1>1. \/ /\ pipe = "open" /\ pipe' = "head" /\ reader' = "read" /\ forwarder' = "run" /\ socket' = "syn"
         /\ to_mesh' = 1 /\ first_left' = 1
         /\ UNCHANGED <<listen, flags, peer, queue, to_local, local_closed, close_sent, local_shut,
                        established, late, unreachable, rfin, txb, rxb, rsent, got>>
      \/ /\ pipe = "open" /\ Returned
         /\ UNCHANGED <<backlogged, listener, others, flags, lbuf, seen, queue, loop, mesh, reader,
                  forwarder>>
    BY DEF OpenFlow
<1> SUFFICES ASSUME pipe = "open", pipe' = "head", reader' = "read", forwarder' = "run", socket' = "syn",
                    to_mesh' = 1, first_left' = 1,
                    UNCHANGED <<listen, flags, peer, queue, to_local, local_closed, close_sent,
                             local_shut,
                                established, late, unreachable, rfin, txb, rxb, rsent, got>>
             PROVE  IInv'
    BY <1>1, ReturnedIInv
<1>2. (Flags /\ Dialled)' BY DEF Flags, Dialled
<1>3. Types' BY DEF Types, Pc
<1>4. ConnectionsBounded' BY DEF ConnectionsBounded, Live
<1>5. Stages' BY DEF Stages, Before
<1>6. Emptied' BY DEF Emptied, Before, After
<1>7. Conserved' BY DEF Conserved, Emptied, Types, InHand, Before
<1>8. Closing' BY DEF Closing, Emptied, Before
<1>9. Backlog' BY DEF Backlog, Emptied, Before, Types
<1>10. QED BY <1>2, <1>3, <1>4, <1>5, <1>6, <1>7, <1>8, <1>9

\* The loop returns: what it held is gone, and the backlog still covers the rest.
LEMMA RunReturnsIInv ==
    ASSUME IInv, pipe \in Running, RunReturns,
           UNCHANGED <<listen, flags, client, csent, unread, seen, bytes, done, reader, forwarder>>,
           locals' \in {0, locals}, closes' \in BOOLEAN,
           lbuf' \in 0..Cap, seen + lbuf' <= MaxDown
    PROVE  IInv'
<1> USE BoundsAssumption, LimitsAssumption DEF IInv, RunReturns, listen, flags, queue, loop, mesh,
         peer
<1>1. Dialled' BY DEF Dialled
<1>2. Flags' BY Zenon DEF Flags
<1>3. Types' BY DEF Types, Pc
<1>4. ConnectionsBounded' BY DEF ConnectionsBounded, Live, Running
<1>5. Stages' BY DEF Stages, Before, Running
<1>6. Emptied' BY DEF Emptied, Before, After
<1>7. Conserved' BY DEF Conserved, Running
<1>8. Closing' BY DEF Closing, Running
<1>9. Backlog'
    <2>1. CASE locals' = 0 BY <2>1 DEF Backlog, Types
    <2>2. CASE locals' = locals BY <2>2 DEF Backlog, Types
    <2>3. QED BY <2>1, <2>2
<1>10. QED BY <1>1, <1>2, <1>3, <1>4, <1>5, <1>6, <1>7, <1>8, <1>9

\* The engine was rebuilt or the proxy dropped.
LEMMA LoopStopsIInv ==
    ASSUME IInv, LoopStops
    PROVE  IInv'
<1>1. pipe \in Running /\ RunReturns BY DEF LoopStops, Running
<1>2. UNCHANGED <<listen, flags, client, csent, unread, seen, lbuf, bytes, done, locals, closes,
         reader, forwarder>>
    BY DEF LoopStops, peer, queue
<1>3. lbuf \in 0..Cap /\ closes \in BOOLEAN /\ seen + lbuf <= MaxDown
    BY DEF IInv, Flags, Types, Conserved
<1>4. QED BY <1>1, <1>2, <1>3, RunReturnsIInv

\* A packet could not be sent.
LEMMA EgressFailsIInv ==
    ASSUME IInv, EgressFails
    PROVE  IInv'
<1>1. pipe \in Running /\ RunReturns BY DEF EgressFails, Running
<1>2. UNCHANGED <<listen, flags, client, csent, unread, seen, lbuf, bytes, done, locals, closes,
         reader, forwarder>>
    BY DEF EgressFails, peer, queue
<1>3. lbuf \in 0..Cap /\ closes \in BOOLEAN /\ seen + lbuf <= MaxDown
    BY DEF IInv, Flags, Types, Conserved
<1>4. QED BY <1>1, <1>2, <1>3, RunReturnsIInv

\* The socket is polled: what it takes leaves to_mesh and, the head apart, the backlog.
LEMMA LoopUpIInv ==
    ASSUME IInv, LoopUp
    PROVE  IInv'
<1> USE BoundsAssumption, LimitsAssumption DEF IInv
<1>1. CASE local_closed /\ ~(established \/ socket = "est")
    <2>1. pipe \in Running /\ RunReturns BY <1>1 DEF LoopUp, Running
    <2>2. UNCHANGED <<listen, flags, client, csent, unread, seen, lbuf, bytes, done, locals,
             closes, reader, forwarder>>
        BY <1>1 DEF LoopUp, peer
    <2>3. lbuf \in 0..Cap /\ closes \in BOOLEAN /\ seen + lbuf <= MaxDown
        BY DEF Flags, Types, Conserved
    <2>4. QED BY <2>1, <2>2, <2>3, RunReturnsIInv
<1>2. CASE ~(local_closed /\ ~(established \/ socket = "est"))
    <2> DEFINE n == Room
               h == Min(n, first_left)
    <2>1. /\ pipe = "head" /\ pipe' = "down"
          /\ established' = (established \/ socket = "est")
          /\ late' = (late /\ ~(established \/ socket = "est"))
          /\ unreachable' \in {0, unreachable}
          /\ UNCHANGED <<listen, flags, peer, done, locals, closes, reader, forwarder,
                         to_local, local_closed, local_shut, socket, rfin, rxb, rsent, got>>
        BY <1>2 DEF LoopUp
    <2>2. /\ to_mesh' = to_mesh - n /\ txb' = txb + n /\ first_left' = first_left - h
          /\ bytes' = Minus(bytes, n - h)
          /\ close_sent' = (close_sent \/ (local_closed /\ to_mesh' = 0))
        BY <1>2 DEF LoopUp, Up, Sent
    <2>3. n \in Nat /\ n <= to_mesh /\ txb + n <= Cap BY DEF Room, Min, Types
    <2> HIDE DEF n
    <2>4. h \in Nat /\ h <= n /\ h <= first_left /\ (h = n \/ h = first_left) BY <2>3 DEF Min, Types
    <2> HIDE DEF h
    <2>5. bytes' \in Nat /\ bytes' <= bytes /\ bytes <= bytes' + (n - h)
        BY <2>2, <2>3, <2>4 DEF Minus, Types
    <2> USE DEF listen, flags, peer
    <2>6. Flags' BY <2>1, <2>2, Zenon DEF Flags
    <2>7. Types'
        <3>1. txb' \in 0..Cap /\ to_mesh' \in Nat /\ first_left' \in Nat
            BY <2>2, <2>3, <2>4 DEF Types
        <3>2. unreachable' \in Nat /\ pipe' \in Pc BY <2>1 DEF Types, Pc
        <3>3. QED BY <2>1, <2>5, <3>1, <3>2 DEF Types
    <2>8. ConnectionsBounded' BY <2>1 DEF ConnectionsBounded, Live
    <2>9. Dialled' BY <2>1 DEF Dialled
    <2>10. Stages' BY <2>1 DEF Stages, Before
    <2>11. Emptied' BY <2>1 DEF Emptied, Before, After
    <2>12. Conserved' BY <2>1, <2>2, <2>3 DEF Conserved, InHand, Types, Running
    <2>13. Closing'
        <3>1. to_mesh' \in Nat /\ (to_mesh = 0 => to_mesh' = 0) BY <2>2, <2>3 DEF Types
        <3>2. QED BY <2>1, <2>2, <3>1 DEF Closing, Running
    <2>14. Backlog'
        <3>1. bytes' <= ToMeshLimit + 1 BY <2>5 DEF Backlog, Types
        <3>2. ASSUME ~done'
              PROVE  /\ first_left' <= to_mesh'
                     /\ to_mesh' + locals' + (IF reader' = "send" THEN 1 ELSE 0) <= first_left' + bytes'
            <4> DEFINE k == IF reader = "send" THEN 1 ELSE 0
            <4>1. k \in Nat OBVIOUS
            <4>2. first_left <= to_mesh /\ to_mesh + locals + k <= first_left + bytes
                BY <2>1, <3>2 DEF Backlog
            <4> HIDE DEF k
            <4>3. to_mesh \in Nat /\ first_left \in Nat /\ locals \in Nat /\ bytes \in Nat
                BY DEF Types
            <4>4. first_left' <= to_mesh' BY <2>2, <2>3, <2>4, <4>2, <4>3
            <4>5. to_mesh' + locals + k <= first_left' + bytes'
                BY <2>2, <2>3, <2>4, <2>5, <4>1, <4>2, <4>3
            <4>6. QED BY <2>1, <4>4, <4>5 DEF k
        <3>3. QED BY <3>1, <3>2 DEF Backlog
    <2>15. QED BY <2>6, <2>7, <2>8, <2>9, <2>10, <2>11, <2>12, <2>13, <2>14
<1>3. QED BY <1>1, <1>2

\* The relay's data is taken as far as the limit allows and written as far as the client
\* takes it; its end is passed on behind the last of it.
LEMMA LoopDownIInv ==
    ASSUME IInv, LoopDown
    PROVE  IInv'
<1> USE BoundsAssumption, LimitsAssumption DEF IInv
<1> DEFINE r == Min(rxb, Minus(ToLocalLimit, to_local))
           t == to_local + r
           w == Min(t, Cap - lbuf)
           shut == established /\ rfin /\ rxb = r /\ t = w /\ ~local_shut
           broken == client = "gone" /\ t > 0
<1>1. /\ pipe = "down" /\ lbuf' = IF broken THEN lbuf ELSE lbuf + w
      /\ UNCHANGED <<listen, flags, client, csent, unread, seen, queue, reader, forwarder>>
      /\ \/ RunReturns
         \/ /\ ~broken /\ pipe' = "wait" /\ rxb' = rxb - r /\ to_local' = t - w
            /\ local_shut' = (local_shut \/ shut)
            /\ close_sent' = (close_sent \/ (shut /\ to_mesh = 0))
            /\ UNCHANGED <<to_mesh, first_left, local_closed, established, late, unreachable,
                           socket, rfin, txb, rsent, got>>
    BY DEF LoopDown
<1>2. r \in Nat /\ r <= rxb /\ to_local + r <= ToLocalLimit BY DEF Min, Minus, Types
<1> HIDE DEF r
<1>3. t \in Nat /\ t <= ToLocalLimit /\ (t = 0 => to_local = 0 /\ r = 0) /\ t = to_local + r
    BY <1>2 DEF Types
<1> HIDE DEF t
<1>4. w \in Nat /\ w <= t /\ lbuf + w <= Cap
    <2>1. lbuf \in Nat /\ Cap \in Nat /\ lbuf <= Cap BY DEF Types
    <2>2. QED BY <1>3, <2>1 DEF Min
<1> HIDE DEF w
<1>5. lbuf' \in 0..Cap /\ seen + lbuf' <= MaxDown
    <2>1. lbuf' = lbuf \/ lbuf' = lbuf + w BY <1>1
    <2>2. seen + lbuf + to_local + rxb = rsent BY <1>1 DEF Conserved, Running
    <2>3. /\ seen \in Nat /\ lbuf \in Nat /\ lbuf <= Cap /\ Cap \in Nat /\ to_local \in Nat
          /\ rxb \in Nat /\ rsent \in Nat /\ rsent <= MaxDown /\ MaxDown \in Nat
        BY DEF Types
    <2>4. w <= to_local + rxb BY <1>2, <1>3, <1>4, <2>3
    <2>5. seen + lbuf <= MaxDown /\ seen + lbuf + w <= MaxDown BY <1>4, <2>2, <2>3, <2>4
    <2>6. QED BY <1>4, <2>1, <2>3, <2>5
<1> USE DEF listen, flags, queue
<1>6. CASE RunReturns
    <2>1. pipe \in Running /\ closes' \in BOOLEAN /\ locals' \in {0, locals}
          /\ UNCHANGED <<listen, flags, client, csent, unread, seen, bytes, done, reader,
                   forwarder>>
        BY <1>1 DEF Flags, Running
    <2>2. QED BY <1>5, <1>6, <2>1, RunReturnsIInv
<1>7. CASE /\ ~broken /\ pipe' = "wait" /\ rxb' = rxb - r /\ to_local' = t - w
           /\ local_shut' = (local_shut \/ shut)
           /\ close_sent' = (close_sent \/ (shut /\ to_mesh = 0))
           /\ UNCHANGED <<to_mesh, first_left, local_closed, established, late, unreachable,
                          socket, rfin, txb, rsent, got>>
    <2>1. Flags'
        <3>1. (local_shut \/ shut) \in BOOLEAN /\ (close_sent \/ (shut /\ to_mesh = 0)) \in BOOLEAN OBVIOUS
        <3>2. QED BY <1>1, <1>7, <3>1, Zenon DEF Flags
    <2>2. Types' BY <1>1, <1>2, <1>3, <1>4, <1>5, <1>7 DEF Types, Pc
    <2>3. ConnectionsBounded' BY <1>1, <1>7 DEF ConnectionsBounded, Live
    <2>4. Dialled' BY <1>1 DEF Dialled
    <2>5. Stages' BY <1>1, <1>7 DEF Stages, Before
    <2>6. Emptied' BY <1>1, <1>7 DEF Emptied, Before, After
    <2>7. Conserved'
        <3>1. lbuf' = lbuf + w BY <1>1, <1>7
        <3>2. seen + lbuf' + to_local' + rxb' = rsent
            BY <1>1, <1>2, <1>3, <1>4, <1>7, <3>1 DEF Conserved, Types, Running
        <3>3. QED BY <1>1, <1>5, <1>7, <3>2 DEF Conserved, InHand, Running
    <2>8. Closing'
        <3>1. local_shut' => rfin /\ to_local' = 0 /\ rxb' = 0
            <4>1. CASE local_shut
                <5>1. rfin /\ to_local = 0 /\ rxb = 0 BY <1>1, <4>1 DEF Closing, Running
                <5>2. r = 0 /\ t = 0 /\ w = 0 BY <1>2, <1>3, <1>4, <5>1
                <5>3. QED BY <1>7, <5>1, <5>2
            <4>2. CASE shut BY <1>2, <1>3, <1>4, <1>7, <4>2 DEF Types
            <4>3. QED BY <1>7, <4>1, <4>2
        <3>2. close_sent' /\ ~local_shut' => close_sent /\ ~local_shut BY <1>7
        <3>3. QED BY <1>1, <1>7, <3>1, <3>2 DEF Closing, Running
    <2>9. Backlog' BY <1>1, <1>7 DEF Backlog
    <2>10. QED BY <2>1, <2>2, <2>3, <2>4, <2>5, <2>6, <2>7, <2>8, <2>9
<1>8. QED BY <1>1, <1>6, <1>7

\* The events are taken, all of them: nothing of the client's comes behind its end.
LEMMA LoopWakeIInv ==
    ASSUME IInv, LoopWake
    PROVE  IInv'
<1> USE BoundsAssumption, LimitsAssumption DEF IInv
<1>1. /\ pipe = "wait" /\ locals' = 0 /\ closes' = FALSE
      /\ UNCHANGED <<listen, flags, peer, bytes, done, reader, forwarder>>
      /\ \/ RunReturns
         \/ /\ pipe' = "head" /\ to_mesh' = to_mesh + locals /\ local_closed' = (local_closed \/ closes)
            /\ UNCHANGED <<first_left, to_local, close_sent, local_shut, established, mesh>>
    BY DEF LoopWake
<1>2. CASE RunReturns
    <2>1. pipe \in Running /\ closes' \in BOOLEAN /\ locals' \in {0, locals} /\ lbuf' = lbuf
          /\ UNCHANGED <<listen, flags, client, csent, unread, seen, bytes, done, reader,
                   forwarder>>
        BY <1>1 DEF Running, peer
    <2>2. lbuf \in 0..Cap /\ seen + lbuf <= MaxDown
        BY DEF Types, Conserved
    <2>3. QED BY <1>2, <2>1, <2>2, RunReturnsIInv
<1>3. CASE /\ pipe' = "head" /\ to_mesh' = to_mesh + locals /\ local_closed' = (local_closed \/ closes)
           /\ UNCHANGED <<first_left, to_local, close_sent, local_shut, established, mesh>>
    <2> USE DEF listen, flags, peer, mesh
    <2>1. Flags'
        <3>1. (local_closed \/ closes) \in BOOLEAN OBVIOUS
        <3>2. QED BY <1>1, <1>3, <3>1, Zenon DEF Flags
    <2>2. Types' BY <1>1, <1>3 DEF Types, Pc
    <2>3. ConnectionsBounded' BY <1>1, <1>3 DEF ConnectionsBounded, Live
    <2>4. Dialled' BY <1>1 DEF Dialled
    <2>5. Stages' BY <1>1, <1>3 DEF Stages, Before
    <2>6. Emptied' BY <1>1, <1>3 DEF Emptied, Before, After
    <2>7. Conserved' BY <1>1, <1>3 DEF Conserved, InHand, Running, Types
    <2>8. Closing'
        <3>1. close_sent /\ ~local_shut => local_closed /\ to_mesh' = 0
            BY <1>1, <1>3 DEF Closing, Running, Types
        <3>2. QED BY <1>1, <1>3, <3>1 DEF Closing, Running
    <2>9. Backlog'
        <3> DEFINE k == IF reader = "send" THEN 1 ELSE 0
        <3>1. k \in Nat OBVIOUS
        <3>2. ~done => first_left <= to_mesh /\ to_mesh + locals + k <= first_left + bytes
            BY DEF Backlog
        <3> HIDE DEF k
        <3>3. ~done => first_left' <= to_mesh' /\ to_mesh' + locals' + k <= first_left' + bytes'
            BY <1>1, <1>3, <3>1, <3>2 DEF Types
        <3>4. QED BY <1>1, <3>3 DEF Backlog, k
    <2>10. QED BY <2>1, <2>2, <2>3, <2>4, <2>5, <2>6, <2>7, <2>8, <2>9
<1>4. QED BY <1>1, <1>2, <1>3

\* The last steps of the pipe: the flag, the backlog and the local connection, the slot.
LEMMA PipeDoneIInv ==
    ASSUME IInv, PipeDone
    PROVE  IInv'
<1> USE BoundsAssumption, LimitsAssumption DEF IInv, PipeDone, listen, flags, queue, loop, mesh,
         peer
<1>1. Flags' BY Zenon DEF Flags
<1>2. Types' BY DEF Types, Pc
<1>3. ConnectionsBounded' BY DEF ConnectionsBounded, Live
<1>4. Dialled' BY DEF Dialled
<1>5. Stages' BY DEF Stages, Before
<1>6. (Emptied /\ Conserved /\ Closing)'
    BY DEF Emptied, Conserved, Closing, InHand, Before, After, Running
<1>7. Backlog' BY DEF Backlog
<1>8. QED BY <1>1, <1>2, <1>3, <1>4, <1>5, <1>6, <1>7

\* ... and so the resolver's end is gone before the slot is free.
LEMMA PipeWakeIInv ==
    ASSUME IInv, PipeWake
    PROVE  IInv'
<1> USE BoundsAssumption, LimitsAssumption DEF IInv, PipeWake, listen, flags, queue, loop, mesh,
         peer
<1>1. Flags' BY Zenon DEF Flags
<1>2. Types' BY DEF Types, Pc
<1>3. ConnectionsBounded' BY DEF ConnectionsBounded, Live
<1>4. Dialled' BY DEF Dialled, Stages
<1>5. Stages' BY DEF Stages, Before
<1>6. (Emptied /\ Conserved /\ Closing)'
    BY DEF Emptied, Conserved, Closing, InHand, Before, After, Running
<1>7. Backlog' BY DEF Backlog, Stages
<1>8. QED BY <1>1, <1>2, <1>3, <1>4, <1>5, <1>6, <1>7

\* The slot is given back last.
LEMMA PipeEndsIInv ==
    ASSUME IInv, PipeEnds
    PROVE  IInv'
<1> USE BoundsAssumption, LimitsAssumption DEF IInv, PipeEnds, listen, flags, queue, loop, mesh,
         peer
<1>1. Flags' BY Zenon DEF Flags
<1>2. Types' BY DEF Types, Pc
<1>3. ConnectionsBounded' BY DEF ConnectionsBounded, Live, Types
<1>4. Dialled' BY DEF Dialled
<1>5. Stages' BY DEF Stages, Before
<1>6. (Emptied /\ Conserved /\ Closing)'
    BY DEF Emptied, Conserved, Closing, InHand, Before, After, Running
<1>7. Backlog' BY DEF Backlog, Types
<1>8. QED BY <1>1, <1>2, <1>3, <1>4, <1>5, <1>6, <1>7

-----------------------------------------------------------------------------
(* The theorems.                                                           *)

\* Before anyone dials.
LEMMA InitIInv == Init => IInv
<1> SUFFICES ASSUME Init PROVE IInv OBVIOUS
<1> USE BoundsAssumption, LimitsAssumption DEF Init
<1>1. Flags BY Zenon DEF Flags
<1>2. Types BY DEF Types, Pc
<1>3. ConnectionsBounded BY DEF ConnectionsBounded, Live
<1>4. Dialled BY DEF Dialled
<1>5. Stages BY DEF Stages
<1>6. Emptied BY DEF Emptied
<1>7. Conserved BY DEF Conserved, Running
<1>8. Closing BY DEF Closing, Running
<1>9. Backlog BY DEF Backlog
<1>10. QED BY <1>1, <1>2, <1>3, <1>4, <1>5, <1>6, <1>7, <1>8, <1>9 DEF IInv

\* Every step keeps the inductive invariant.
LEMMA NextIInv == IInv /\ [Next]_vars => IInv'
<1> SUFFICES ASSUME IInv, [Next]_vars PROVE IInv' OBVIOUS
<1>1. CASE ListenerStep BY <1>1, ListenerEndsIInv, RefuseIInv, AdmitIInv DEF ListenerStep
<1>2. CASE OtherDials \/ OtherEnds \/ DropProxy \/ EngineStops
    BY <1>2, OtherDialsIInv, OtherEndsIInv, DropProxyIInv, EngineStopsIInv
<1>3. CASE ClientStep
    BY <1>3, DialIInv, ClientWritesIInv, ClientShutsIInv, ClientClosesIInv,
           ClientReadsIInv DEF ClientStep
<1>4. CASE RelayStep
    BY <1>4, RelayAnswersIInv, RelayUnreachableIInv, RelayTakesIInv, RelaySendsIInv,
       RelayFinishesIInv, RelayAcksFinIInv, RelayResetsIInv DEF RelayStep
<1>5. CASE ConnectTimeout BY <1>5, ConnectTimeoutIInv
<1>6. CASE ReaderStep
    BY <1>6, ReaderReadsIInv, ReaderEofIInv, ReaderAddIInv, ReaderSendIInv DEF ReaderStep
<1>7. CASE ForwarderEnds BY <1>7, ForwarderEndsIInv
<1>8. CASE PipeStep
    BY <1>8, ReadHeadIInv, OpenFlowIInv, LoopStopsIInv, EgressFailsIInv, LoopUpIInv, LoopDownIInv,
       LoopWakeIInv, PipeDoneIInv, PipeWakeIInv, PipeEndsIInv DEF PipeStep
<1>9. CASE UNCHANGED vars
    <2> USE <1>9 DEF vars, listen, flags, peer, queue, loop, mesh
    <2>1. Flags' /\ Types' BY DEF IInv, Flags, Types
    <2>2. ConnectionsBounded' /\ Dialled' /\ Stages'
        BY DEF IInv, ConnectionsBounded, Live, Dialled, Stages
    <2>3. Emptied' /\ Closing' /\ Backlog' BY DEF IInv, Emptied, Closing, Backlog
    <2>4. Conserved' BY DEF IInv, Conserved, InHand
    <2>5. QED BY <2>1, <2>2, <2>3, <2>4 DEF IInv
<1>10. QED BY <1>1, <1>2, <1>3, <1>4, <1>5, <1>6, <1>7, <1>8, <1>9 DEF Next

\* The inductive invariant, for any limits, buffer sizes and failures.
THEOREM Invariance == Spec => []IInv
BY InitIInv, NextIInv, PTL DEF Spec

\* Threads are at their statements and buffers within their sizes: what the loop takes
\* never passes the room there is, in either direction.
THEOREM TypeCorrect == Spec => []TypeOK
BY Invariance, TypesTypeOK, PTL

\* The slots taken are those of the connections that have a thread, at most
\* MAX_CONNECTIONS, however accepts, ends and a dropped proxy interleave.
THEOREM SlotsBounded == Spec => []ConnectionsBounded
<1>1. IInv => ConnectionsBounded BY DEF IInv
<1>2. QED BY <1>1, Invariance, PTL

\* Whatever a slow relay does, the proxy holds the head, TO_MESH_LIMIT and one read more.
THEOREM HeldBounded == Spec => []BacklogBounded
<1>1. ASSUME IInv PROVE BacklogBounded
    <2> DEFINE k == IF reader = "send" THEN 1 ELSE 0
    <2>1. k \in Nat OBVIOUS
    <2>2. ~done => to_mesh + locals + k <= first_left + bytes BY <1>1 DEF IInv, Backlog
    <2>3. bytes <= ToMeshLimit + 1 BY <1>1 DEF IInv, Backlog
    <2>4. /\ to_mesh \in Nat /\ locals \in Nat /\ first_left \in Nat /\ bytes \in Nat /\ ToMeshLimit \in Nat
        BY <1>1, LimitsAssumption DEF IInv, Types
    <2> HIDE DEF k
    <2>5. ~done => to_mesh + locals + k <= first_left + ToMeshLimit + 1 BY <2>1, <2>2, <2>3, <2>4
    <2>6. QED BY <2>5 DEF BacklogBounded, k
<1>2. QED BY <1>1, Invariance, PTL

\* Neither half is closed ahead of its data, unless the relay finished first: then what the
\* client has still on its way behind our FIN is all there is to lose.
THEOREM HalfClosesKeepOrder == Spec => []HalfClosesInOrder
<1>1. ASSUME IInv, close_sent PROVE got + txb + Held + unread = 1 + csent
    <2>1. pipe \in Running BY <1>1 DEF IInv, Emptied, Types, Pc, Before, After, Running
    <2>2. got + txb + to_mesh + locals + InHand + unread = 1 + csent
        BY <1>1, <2>1 DEF IInv, Conserved
    <2>3. InHand \in Nat /\ Held = to_mesh + locals + InHand BY DEF Held, InHand
    <2>4. /\ got \in Nat /\ txb \in Nat /\ to_mesh \in Nat /\ locals \in Nat /\ unread \in Nat
          /\ csent \in Nat
        BY <1>1 DEF IInv, Types
    <2>5. QED BY <2>2, <2>3, <2>4
<1>2. ASSUME IInv, close_sent, ~local_shut
      PROVE  Held = 0 /\ reader = "done" /\ (client = "half" => unread = 0)
    <2>1. pipe \in Running BY <1>2 DEF IInv, Emptied, Types, Pc, Before, After, Running
    <2>2. /\ local_closed /\ to_mesh = 0 /\ locals = 0 /\ reader = "done"
          /\ client = "half" => unread = 0
        BY <1>2, <2>1 DEF IInv, Closing
    <2>3. QED BY <2>2 DEF Held
<1>3. ASSUME IInv, local_shut PROVE seen + lbuf = rsent
    <2>1. pipe \in Running BY <1>3 DEF IInv, Emptied, Types, Pc, Before, After, Running
    <2>2. to_local = 0 /\ rxb = 0 BY <1>3, <2>1 DEF IInv, Closing
    <2>3. seen + lbuf + to_local + rxb = rsent BY <1>3, <2>1 DEF IInv, Conserved
    <2>4. seen \in Nat /\ lbuf \in Nat /\ rsent \in Nat BY <1>3 DEF IInv, Types
    <2>5. QED BY <2>2, <2>3, <2>4
<1>4. IInv => HalfClosesInOrder BY <1>1, <1>2, <1>3 DEF HalfClosesInOrder
<1>5. QED BY <1>4, Invariance, PTL
=============================================================================
