----------------------------- MODULE PumpProofs -----------------------------
(***************************************************************************)
(* Proofs about the TUN pump, for any number of tunnels and packets and    *)
(* any failures: no tunnel fd is closed under a thread that was not given  *)
(* up, and packets cross any number of swaps in order.                     *)
(***************************************************************************)
EXTENDS Pump, TLAPS

One(P) == IF P THEN 1 ELSE 0

\* TypeOK in two parts: the Booleans are for another prover than the rest.
Flags == running \in BOOLEAN /\ live \in [Gens -> BOOLEAN] /\ woken \in [Gens -> BOOLEAN]
Types ==
    /\ reader \in [Gens -> ReaderPc] /\ writer \in [Gens -> WriterPc] /\ bridge \in BridgePc
    /\ hand \in [Gens -> 0..MaxSends] /\ marks \in [Gens -> 0..2]
    /\ wq \in Seq(0..MaxSends) /\ rx \in Gens \cup {0, Dropped}
    /\ inq \in 0..1 /\ outq \in 0..OutCap /\ node \in {"up", "stopping", "gone"}
    /\ io \in 0..MaxGen /\ fd \in Gens /\ gen \in Gens /\ open \subseteq Gens
    /\ ctl \in Ctl /\ abandoned \subseteq Gens
    /\ sent \in Seq(1..MaxSends) /\ taken \in Seq(1..MaxSends)

\* A thread sends its done marker as its last statement.
Marks == \A g \in Gens : marks[g] = One(reader[g] = "done") + One(writer[g] = "done")

\* Generations that are yet to come have no threads.
NotStarted(g) == reader[g] = "none" /\ writer[g] = "none" /\ g \notin abandoned
Future == \A g \in Gens : g > gen => NotStarted(g)

\* Where the engine's thread is, which generation it works on and which fd it will close.
Swapping == {"swapLive", "swapWake", "swapSentinel", "swapWait"}
Joining == {"joinLive", "joinWake", "joinSentinel", "joinWait"}
Holding == {"idle"} \cup Swapping \cup Joining
Undoing == {"undoLive", "undoWake", "undoWait"}
Retired(g) == g \in abandoned \/ IoEnded(g)
Stage ==
    /\ ctl \in Holding <=> io # 0
    /\ ctl = "new" => gen = 1 /\ fd = 1 /\ rx = 0 /\ NotStarted(gen) /\ open = {1}
    /\ ctl \in {"idle"} \cup Joining => io = gen /\ fd = gen
    /\ ctl \in Swapping => io = fd /\ fd < gen /\ NotStarted(gen) /\ gen \in open
    /\ ctl = "swapSpawn" => fd < gen /\ NotStarted(gen) /\ gen \in open /\ IoEnded(fd) /\ rx = 0
    /\ ctl \in Undoing => writer[gen] = "none" /\ gen \in open /\ (fd = gen \/ (fd < gen /\ IoEnded(fd)))
    /\ ctl = "undoLive" => rx = 0
    /\ ctl \in {"swapFailed", "joinBridge", "joinNode"} => Retired(fd)

\* The receiver is with the one writer that is not over, and comes back to the pump unless
\* its generation was given up.
Receiver ==
    /\ io # 0 => rx = io /\ io \notin abandoned
    /\ \A g \in Gens : writer[g] \notin Ended => rx = g
    /\ \A g \in Gens : hand[g] # 0 <=> writer[g] = "write"

\* The packets taken, the one a writer holds and those queued follow one another.
Held == \E g \in Gens : hand[g] # 0
Out == Len(taken) + One(Held)
Queued(q) == {i \in DOMAIN q : q[i] # Sentinel}
Contents(q) == {q[i] : i \in Queued(q)}
Sorted(q) == \A i, j \in Queued(q) : i < j => q[i] < q[j]
Channel ==
    /\ \A i \in DOMAIN sent : sent[i] = i
    /\ \A i \in DOMAIN taken : taken[i] = i
    /\ \A g \in Gens : hand[g] \in {0, Len(taken) + 1}
    /\ Out <= Len(sent) /\ Contents(wq) = Out + 1 .. Len(sent) /\ Sorted(wq)

IInv == Flags /\ Types /\ Marks /\ Future /\ Stage /\ ClosedUnused /\ Receiver /\ Channel

USE GenAssumption, CapAssumption

\* The start: one tunnel, no threads, nothing sent.
LEMMA InitIInv == Init => IInv
<1> SUFFICES ASSUME Init PROVE IInv OBVIOUS
<1>1. 1 \in Gens BY DEF Gens
<1>2. Flags BY DEF Init, Flags
<1>3. Types
    <2>1. /\ reader \in [Gens -> ReaderPc] /\ writer \in [Gens -> WriterPc] /\ bridge \in BridgePc
          /\ ctl \in Ctl /\ node \in {"up", "stopping", "gone"}
        BY DEF Init, ReaderPc, WriterPc, BridgePc, Ended, Ctl
    <2>2. hand \in [Gens -> 0..MaxSends] /\ marks \in [Gens -> 0..2] BY DEF Init
    <2>3. wq \in Seq(0..MaxSends) /\ sent \in Seq(1..MaxSends) /\ taken \in Seq(1..MaxSends) BY DEF Init
    <2>4. /\ rx \in Gens \cup {0, Dropped} /\ inq \in 0..1 /\ outq \in 0..OutCap /\ io \in 0..MaxGen
          /\ fd \in Gens /\ gen \in Gens /\ open \subseteq Gens /\ abandoned \subseteq Gens
        BY <1>1 DEF Init
    <2>5. QED BY <2>1, <2>2, <2>3, <2>4 DEF Types
<1>4. Marks BY DEF Init, Marks, One
<1>5. Future BY DEF Init, Future, NotStarted
<1>6. Stage
    <2>1. ctl = "new" /\ io = 0 /\ gen = 1 /\ fd = 1 /\ rx = 0 /\ open = {1} /\ NotStarted(gen)
        BY <1>1 DEF Init, NotStarted
    <2>2. QED BY <2>1 DEF Stage, Holding, Swapping, Joining, Undoing
<1>7. ClosedUnused BY DEF Init, ClosedUnused
<1>8. Receiver BY DEF Init, Receiver, Ended
<1>9. Channel
    <2>1. Out = 0 BY DEF Init, Out, One, Held
    <2>2. QED BY <2>1 DEF Init, Channel, Contents, Sorted, Queued, Held
<1>10. QED BY <1>2, <1>3, <1>4, <1>5, <1>6, <1>7, <1>8, <1>9 DEF IInv

-----------------------------------------------------------------------------
(* What the steps do, apart from the statement they are about.             *)

\* Everything the engine's thread owns stays.
EngineSame == UNCHANGED <<running, io, fd, gen, open, ctl, abandoned>>

\* A thread goes to a statement other than its last, or to its last.
LEMMA ReaderMoves ==
    ASSUME Types, NEW g \in Gens, NEW pc \in ReaderPc, ReaderGoes(g, pc)
    PROVE  reader' \in [Gens -> ReaderPc] /\ reader'[g] = pc /\ \A h \in Gens : h # g => reader'[h] = reader[h]
BY DEF Types, ReaderGoes

\* A writer that goes on to another statement changes no other thread.
LEMMA WriterMoves ==
    ASSUME Types, NEW g \in Gens, NEW pc \in WriterPc, WriterGoes(g, pc)
    PROVE  writer' \in [Gens -> WriterPc] /\ writer'[g] = pc /\ \A h \in Gens : h # g => writer'[h] = writer[h]
BY DEF Types, WriterGoes

\* A thread that sends its done marker is counted once more.
LEMMA MarkMoves ==
    ASSUME Types, NEW g \in Gens, marks' = [marks EXCEPT ![g] = @ + 1]
    PROVE  DOMAIN marks' = Gens /\ marks'[g] = marks[g] + 1 /\ \A h \in Gens : h # g => marks'[h] = marks[h]
BY DEF Types

\* A step that ends no thread leaves the count of markers alone.
LEMMA MarkStays ==
    ASSUME Types, NEW g \in Gens, marks' = marks
    PROVE  DOMAIN marks' = Gens /\ marks'[g] = marks[g] + 0 /\ \A h \in Gens : h # g => marks'[h] = marks[h]
<1>1. marks \in [Gens -> 0..2] BY DEF Types
<1>2. marks[g] \in 0..2 BY <1>1
<1>3. QED BY <1>1, <1>2

\* A step of the reader of generation g.
LEMMA ReaderEffect ==
    ASSUME Types, NEW g \in Gens, ReaderStep(g)
    PROVE  /\ EngineSame /\ UNCHANGED <<live, woken, writer, hand, rx, bridge, inq, node, taken>>
           /\ reader[g] \notin Ended /\ reader'[g] # "none" /\ reader' \in [Gens -> ReaderPc]
           /\ \A h \in Gens : h # g => reader'[h] = reader[h] /\ marks'[h] = marks[h]
           /\ DOMAIN marks' = Gens
           /\ marks'[g] = marks[g] + One(reader'[g] = "done")
           /\ outq' \in 0..OutCap /\ (UNCHANGED chan \/ Send)
<1>1. /\ EngineSame /\ UNCHANGED <<live, woken, writer, hand, rx, bridge, inq, node, taken>>
      /\ reader[g] \notin Ended /\ (UNCHANGED chan \/ Send)
    BY Zenon DEF ReaderStep, ReaderHead, ReaderWake, ReaderHangup, ReaderInput, ReaderDispatch, ReaderSend,
        ReaderRest, engine, EngineSame, Ended, chan
<1>2. outq' \in 0..OutCap
    BY DEF ReaderStep, ReaderHead, ReaderWake, ReaderHangup, ReaderInput, ReaderDispatch, ReaderSend, Types
<1>3. \/ \E pc \in {"head", "poll", "packet", "send"} : ReaderGoes(g, pc) /\ marks' = marks
      \/ ReaderEnds(g)
    BY Zenon DEF ReaderStep, ReaderHead, ReaderWake, ReaderHangup, ReaderInput, ReaderDispatch, ReaderSend
<1>4. CASE \E pc \in {"head", "poll", "packet", "send"} : ReaderGoes(g, pc) /\ marks' = marks
    <2>1. PICK pc \in {"head", "poll", "packet", "send"} : ReaderGoes(g, pc) /\ marks' = marks BY <1>4
    <2>2. pc \in ReaderPc /\ pc # "done" /\ pc # "none" BY DEF ReaderPc
    <2>3. QED BY <1>1, <1>2, <2>1, <2>2, ReaderMoves, MarkStays DEF One
<1>5. CASE ReaderEnds(g)
    <2>1. "done" \in ReaderPc BY DEF ReaderPc, Ended
    <2>2. QED BY <1>1, <1>2, <1>5, <2>1, ReaderMoves, MarkMoves DEF One, ReaderEnds
<1>6. QED BY <1>3, <1>4, <1>5

\* A step of the writer of generation g.
LEMMA WriterEffect ==
    ASSUME Types, NEW g \in Gens, WriterStep(g)
    PROVE  /\ EngineSame /\ UNCHANGED <<live, woken, reader, bridge, inq, outq, node, sent>>
           /\ writer[g] \notin Ended /\ writer'[g] # "none" /\ writer' \in [Gens -> WriterPc]
           /\ \A h \in Gens : h # g => writer'[h] = writer[h] /\ marks'[h] = marks[h]
           /\ DOMAIN marks' = Gens
           /\ marks'[g] = marks[g] + One(writer'[g] = "done")
           /\ rx' = IF writer'[g] = "done" /\ g \in abandoned THEN Dropped ELSE rx
           /\ \/ writer[g] # "write" /\ writer'[g] # "write" /\ UNCHANGED <<hand, wq, taken>>
              \/ /\ writer[g] # "write" /\ writer'[g] # "write" /\ UNCHANGED <<hand, taken>>
                 /\ wq # <<>> /\ Head(wq) = Sentinel /\ wq' = Tail(wq)
              \/ /\ writer[g] # "write" /\ writer'[g] = "write" /\ UNCHANGED taken
                 /\ wq # <<>> /\ Head(wq) # Sentinel /\ wq' = Tail(wq)
                 /\ hand' = [hand EXCEPT ![g] = Head(wq)]
              \/ /\ writer[g] = "write" /\ writer'[g] # "write" /\ UNCHANGED wq
                 /\ taken' = Append(taken, hand[g]) /\ hand' = [hand EXCEPT ![g] = 0]
<1>1. /\ EngineSame /\ UNCHANGED <<live, woken, reader, bridge, inq, outq, node, sent>>
      /\ writer[g] \notin Ended
    BY Zenon DEF WriterStep, WriterHead, WriterRecv, WriterWrite, WriterRest, engine, EngineSame, Ended
<1>2. {"head", "recv", "write", "done"} \subseteq WriterPc BY DEF WriterPc, Ended
<1>3. CASE WriterHead(g)
    <2>1. writer[g] = "head" /\ UNCHANGED <<hand, wq, taken>> BY <1>3 DEF WriterHead
    <2>2. CASE WriterGoes(g, "recv") /\ UNCHANGED <<marks, rx>>
        BY <1>1, <1>2, <2>1, <2>2, WriterMoves, MarkStays DEF One
    <2>3. CASE WriterEnds(g)
        BY <1>1, <1>2, <2>1, <2>3, WriterMoves, MarkMoves DEF One, WriterEnds
    <2>4. QED BY <1>3, <2>2, <2>3 DEF WriterHead
<1>4. CASE WriterRecv(g)
    <2>1. writer[g] = "recv" /\ UNCHANGED <<taken, marks, rx>> /\ wq # <<>> /\ wq' = Tail(wq)
        BY <1>4 DEF WriterRecv
    <2>2. CASE Head(wq) = Sentinel /\ WriterGoes(g, "head") /\ UNCHANGED hand
        BY <1>1, <1>2, <2>1, <2>2, WriterMoves, MarkStays DEF One
    <2>3. CASE Head(wq) # Sentinel /\ WriterGoes(g, "write") /\ hand' = [hand EXCEPT ![g] = Head(wq)]
        BY <1>1, <1>2, <2>1, <2>3, WriterMoves, MarkStays DEF One
    <2>4. QED BY <1>4, <2>2, <2>3 DEF WriterRecv
<1>5. CASE WriterWrite(g)
    <2>1. /\ writer[g] = "write" /\ UNCHANGED wq
          /\ taken' = Append(taken, hand[g]) /\ hand' = [hand EXCEPT ![g] = 0]
        BY <1>5 DEF WriterWrite
    <2>2. CASE WriterGoes(g, "head") /\ UNCHANGED <<marks, rx>>
        BY <1>1, <1>2, <2>1, <2>2, WriterMoves, MarkStays DEF One
    <2>3. CASE WriterEnds(g)
        BY <1>1, <1>2, <2>1, <2>3, WriterMoves, MarkMoves DEF One, WriterEnds
    <2>4. QED BY <1>5, <2>2, <2>3 DEF WriterWrite
<1>6. QED BY <1>3, <1>4, <1>5 DEF WriterStep

\* The bridge, the node and the other senders leave threads and engine alone.
LEMMA OtherEffect ==
    ASSUME Types, BridgeStep \/ NodeStep \/ OtherSend
    PROVE  /\ EngineSame /\ UNCHANGED <<live, woken, reader, writer, hand, marks, rx, taken>>
           /\ bridge' \in BridgePc /\ inq' \in 0..1 /\ outq' \in 0..OutCap
           /\ node' \in {"up", "stopping", "gone"} /\ (UNCHANGED chan \/ Send)
<1> USE DEF engine, threads, EngineSame, BridgeRest, BridgePc, Ended, Types, chan
<1>1. CASE BridgeHead BY <1>1 DEF BridgeHead
<1>2. CASE BridgeRecv BY <1>2 DEF BridgeRecv
<1>3. CASE NodeDeliver BY <1>3 DEF NodeDeliver
<1>4. CASE NodeDrain BY <1>4 DEF NodeDrain
<1>5. CASE NodeFails \/ NodeEnds BY <1>5 DEF NodeFails, NodeEnds
<1>6. CASE OtherSend BY <1>6 DEF OtherSend
<1>7. QED BY <1>1, <1>2, <1>3, <1>4, <1>5, <1>6 DEF BridgeStep, NodeStep

-----------------------------------------------------------------------------
(* The channel.                                                            *)

\* Something is put at the end of a queue.
LEMMA AppendQueue ==
    ASSUME NEW q \in Seq(0..MaxSends), NEW e \in 0..MaxSends, Sorted(q),
           e # Sentinel => \A p \in Contents(q) : p < e
    PROVE  /\ Append(q, e) \in Seq(0..MaxSends) /\ Sorted(Append(q, e))
           /\ Contents(Append(q, e)) = Contents(q) \cup ({e} \ {Sentinel})
<1> DEFINE r == Append(q, e)
<1>1. /\ r \in Seq(0..MaxSends) /\ DOMAIN r = 1..(Len(q) + 1) /\ DOMAIN q = 1..Len(q) /\ Len(q) \in Nat
      /\ r[Len(q) + 1] = e /\ \A i \in 1..Len(q) : r[i] = q[i] /\ q[i] \in Nat
    OBVIOUS
<1> HIDE DEF r
<1>2. /\ \A i \in Queued(r) : i = Len(q) + 1 \/ (i \in Queued(q) /\ r[i] = q[i])
      /\ \A i \in Queued(q) : i \in Queued(r) /\ r[i] = q[i] /\ i < Len(q) + 1
      /\ Len(q) + 1 \in Queued(r) <=> e # Sentinel
    BY <1>1 DEF Queued
<1>3. Contents(r) = Contents(q) \cup ({e} \ {Sentinel}) BY <1>1, <1>2 DEF Contents
<1>4. Sorted(r)
    <2>1. SUFFICES ASSUME NEW i \in Queued(r), NEW j \in Queued(r), i < j PROVE r[i] < r[j] BY DEF Sorted
    <2>2. i \in 1..(Len(q) + 1) /\ j \in 1..(Len(q) + 1) BY <1>1 DEF Queued
    <2>3. CASE j = Len(q) + 1
        <3>1. i \in Queued(q) /\ r[i] = q[i] BY <1>2, <2>1, <2>2, <2>3
        <3>2. QED BY <1>1, <1>2, <2>3, <3>1 DEF Contents
    <2>4. CASE j # Len(q) + 1
        <3>1. i # Len(q) + 1 BY <1>1, <2>1, <2>2, <2>4
        <3>2. i \in Queued(q) /\ r[i] = q[i] /\ j \in Queued(q) /\ r[j] = q[j] BY <1>2, <2>4, <3>1
        <3>3. QED BY <2>1, <3>2 DEF Sorted
    <2>5. QED BY <2>3, <2>4
<1>5. QED BY <1>1, <1>3, <1>4 DEF r

\* The head of a queue is taken out.
LEMMA TailQueue ==
    ASSUME NEW q \in Seq(0..MaxSends), q # <<>>, Sorted(q)
    PROVE  /\ Tail(q) \in Seq(0..MaxSends) /\ Sorted(Tail(q)) /\ Head(q) \in 0..MaxSends
           /\ Contents(q) = Contents(Tail(q)) \cup ({Head(q)} \ {Sentinel})
           /\ Head(q) # Sentinel => \A p \in Contents(Tail(q)) : Head(q) < p
<1> DEFINE r == Tail(q)
<1>1. /\ r \in Seq(0..MaxSends) /\ DOMAIN r = 1..(Len(q) - 1) /\ DOMAIN q = 1..Len(q) /\ Len(q) \in Nat
      /\ Head(q) = q[1] /\ Len(q) >= 1 /\ \A i \in 1..(Len(q) - 1) : r[i] = q[i + 1]
    OBVIOUS
<1> HIDE DEF r
<1>2. \A i \in Queued(r) : i \in Nat /\ 1 < i + 1 /\ i + 1 \in Queued(q) /\ r[i] = q[i + 1] BY <1>1 DEF Queued
<1>3. \A i \in Queued(q) : i # 1 => i \in Nat /\ i - 1 \in Queued(r) /\ r[i - 1] = q[i]
    <2>1. SUFFICES ASSUME NEW i \in Queued(q), i # 1
                   PROVE  i \in Nat /\ i - 1 \in Queued(r) /\ r[i - 1] = q[i]
        OBVIOUS
    <2>2. i \in 2..Len(q) /\ q[i] # Sentinel BY <1>1, <2>1 DEF Queued
    <2>3. i - 1 \in 1..(Len(q) - 1) /\ (i - 1) + 1 = i BY <1>1, <2>2
    <2>4. r[i - 1] = q[i] BY <1>1, <2>3
    <2>5. QED BY <1>1, <2>2, <2>3, <2>4 DEF Queued
<1>4. 1 \in Queued(q) <=> Head(q) # Sentinel BY <1>1 DEF Queued
<1>5. Contents(q) = Contents(r) \cup ({Head(q)} \ {Sentinel})
    <2>1. ASSUME NEW p \in Contents(q) PROVE p \in Contents(r) \cup ({Head(q)} \ {Sentinel})
        <3>1. PICK i \in Queued(q) : p = q[i] BY DEF Contents
        <3>2. CASE i = 1 BY <1>1, <1>4, <3>1, <3>2
        <3>3. CASE i # 1 BY <1>3, <3>1, <3>3 DEF Contents
        <3>4. QED BY <3>2, <3>3
    <2>2. ASSUME NEW p \in Contents(r) PROVE p \in Contents(q)
        <3>1. PICK i \in Queued(r) : p = r[i] BY DEF Contents
        <3>2. i + 1 \in Queued(q) /\ p = q[i + 1] BY <1>2, <3>1
        <3>3. QED BY <3>2 DEF Contents
    <2>3. Head(q) # Sentinel => Head(q) \in Contents(q) BY <1>1, <1>4 DEF Contents
    <2>4. QED BY <2>1, <2>2, <2>3
<1>6. Sorted(r)
    <2>1. SUFFICES ASSUME NEW i \in Queued(r), NEW j \in Queued(r), i < j PROVE r[i] < r[j] BY DEF Sorted
    <2>2. i + 1 \in Queued(q) /\ j + 1 \in Queued(q) /\ i + 1 < j + 1 BY <1>2, <2>1
    <2>3. q[i + 1] < q[j + 1] BY <2>2 DEF Sorted
    <2>4. QED BY <1>2, <2>3
<1>7. ASSUME Head(q) # Sentinel, NEW p \in Contents(r) PROVE Head(q) < p
    <2>1. PICK i \in Queued(r) : p = r[i] BY DEF Contents
    <2>2. i + 1 \in Queued(q) /\ p = q[i + 1] /\ 1 < i + 1 BY <1>2, <2>1
    <2>3. QED BY <1>1, <1>4, <1>7, <2>2 DEF Sorted
<1>8. Head(q) \in 0..MaxSends BY <1>1
<1>9. QED BY <1>1, <1>5, <1>6, <1>7, <1>8 DEF r

\* The channel's part of the types.
LEMMA ChannelTypes ==
    ASSUME Types
    PROVE  /\ sent \in Seq(1..MaxSends) /\ wq \in Seq(0..MaxSends) /\ taken \in Seq(1..MaxSends)
           /\ hand \in [Gens -> 0..MaxSends] /\ Len(sent) \in Nat /\ Len(taken) \in Nat /\ Out \in Nat
BY DEF Types, Out, One

\* A packet is sent.
LEMMA SendChannel ==
    ASSUME Types, Channel, Send, hand' = hand, taken' = taken
    PROVE  Channel' /\ wq' \in Seq(0..MaxSends) /\ sent' \in Seq(1..MaxSends)
<1> DEFINE n == Len(sent) + 1
<1>1. n \in 1..MaxSends /\ n \in 0..MaxSends /\ sent' = Append(sent, n) /\ wq' = Append(wq, n)
    BY ChannelTypes DEF Send
<1>2. sent' \in Seq(1..MaxSends) /\ Len(sent') = n /\ \A i \in DOMAIN sent' : sent'[i] = i
    <2>1. sent \in Seq(1..MaxSends) /\ \A i \in 1..Len(sent) : sent[i] = i BY ChannelTypes DEF Channel
    <2>2. QED BY <1>1, <2>1
<1>3. Held' = Held /\ Out' = Out BY DEF Held, Out
<1>4. n # Sentinel /\ \A p \in Contents(wq) : p < n BY ChannelTypes DEF Channel, Sentinel
<1>5. wq' \in Seq(0..MaxSends) /\ Sorted(wq') /\ Contents(wq') = Contents(wq) \cup {n}
    <2>1. Sorted(wq) /\ wq \in Seq(0..MaxSends) BY ChannelTypes DEF Channel
    <2>2. /\ Append(wq, n) \in Seq(0..MaxSends) /\ Sorted(Append(wq, n))
          /\ Contents(Append(wq, n)) = Contents(wq) \cup ({n} \ {Sentinel})
        BY <1>1, <1>4, <2>1, AppendQueue
    <2>3. QED BY <1>1, <1>4, <2>2
<1>6. Contents(wq') = Out' + 1 .. Len(sent') BY <1>2, <1>3, <1>5, ChannelTypes DEF Channel
<1>7. QED BY <1>2, <1>3, <1>5, <1>6, ChannelTypes DEF Channel

\* A sentinel is sent.
LEMMA SentinelChannel ==
    ASSUME Types, Channel, wq' = Append(wq, Sentinel), UNCHANGED <<sent, hand, taken>>
    PROVE  Channel' /\ wq' \in Seq(0..MaxSends)
<1>1. Sentinel \in 0..MaxSends BY DEF Sentinel
<1>2. wq' \in Seq(0..MaxSends) /\ Sorted(wq') /\ Contents(wq') = Contents(wq)
    BY <1>1, ChannelTypes, AppendQueue DEF Channel
<1>3. Held' = Held /\ Out' = Out BY DEF Held, Out
<1>4. QED BY <1>2, <1>3 DEF Channel

\* A sentinel is taken out.
LEMMA TakeSentinel ==
    ASSUME Types, Channel, wq # <<>>, Head(wq) = Sentinel, wq' = Tail(wq), UNCHANGED <<sent, hand, taken>>
    PROVE  Channel' /\ wq' \in Seq(0..MaxSends)
<1>1. wq' \in Seq(0..MaxSends) /\ Sorted(wq') /\ Contents(wq') = Contents(wq)
    <2>1. Sorted(wq) /\ wq \in Seq(0..MaxSends) BY ChannelTypes DEF Channel
    <2>2. Contents(wq) = Contents(Tail(wq)) \cup ({Sentinel} \ {Sentinel}) BY <2>1, TailQueue
    <2>3. Contents(wq) = Contents(Tail(wq)) BY <2>2
    <2>4. QED BY <2>1, <2>3, TailQueue
<1>2. Held' = Held /\ Out' = Out BY DEF Held, Out
<1>3. QED BY <1>1, <1>2 DEF Channel

\* A packet is taken out: it is the next.
LEMMA TakePacket ==
    ASSUME Types, Channel, NEW g \in Gens, ~Held, wq # <<>>, Head(wq) # Sentinel, wq' = Tail(wq),
           hand' = [hand EXCEPT ![g] = Head(wq)], UNCHANGED <<sent, taken>>
    PROVE  /\ Channel' /\ wq' \in Seq(0..MaxSends) /\ hand' \in [Gens -> 0..MaxSends]
           /\ hand'[g] # 0 /\ \A h \in Gens : h # g => hand'[h] = 0
<1> DEFINE n == Len(taken)
           p == Head(wq)
<1>1. Out = n /\ n \in Nat /\ Len(sent) \in Nat BY ChannelTypes DEF Out, One
<1>2. /\ wq' \in Seq(0..MaxSends) /\ Sorted(wq') /\ p \in 0..MaxSends
      /\ Contents(wq) = Contents(wq') \cup {p} /\ \A e \in Contents(wq') : p < e
    <2>1. Sorted(wq) /\ wq \in Seq(0..MaxSends) BY ChannelTypes DEF Channel
    <2>2. QED BY <2>1, TailQueue
<1>3. Contents(wq) = n + 1 .. Len(sent) BY <1>1 DEF Channel
<1>4. p = n + 1 /\ n + 1 <= Len(sent)
    <2>1. p \in n + 1 .. Len(sent) BY <1>2, <1>3
    <2>2. n + 1 \in Contents(wq') \cup {p} BY <1>1, <1>2, <1>3, <2>1
    <2>3. QED BY <1>1, <1>2, <2>1, <2>2
<1>5. Contents(wq') = n + 2 .. Len(sent)
    <2>1. ASSUME NEW e \in Contents(wq') PROVE e \in n + 2 .. Len(sent)
        <3>1. e \in n + 1 .. Len(sent) /\ p < e BY <1>2, <1>3
        <3>2. QED BY <1>1, <1>4, <3>1
    <2>2. ASSUME NEW e \in n + 2 .. Len(sent) PROVE e \in Contents(wq')
        <3>1. e \in n + 1 .. Len(sent) /\ e # p BY <1>1, <1>4
        <3>2. QED BY <1>2, <1>3, <3>1
    <2>3. QED BY <2>1, <2>2
<1>6. \A h \in Gens : hand[h] = 0 BY DEF Held
<1>7. hand' \in [Gens -> 0..MaxSends] /\ hand'[g] = n + 1 /\ \A h \in Gens : h # g => hand'[h] = 0
    BY <1>2, <1>4, <1>6, ChannelTypes
<1>8. Held' /\ Out' = n + 1 BY <1>1, <1>7 DEF Held, Out, One
<1>9. \A h \in Gens : hand'[h] \in {0, n + 1} BY <1>7
<1>10. Contents(wq') = Out' + 1 .. Len(sent) BY <1>1, <1>5, <1>8
<1>11. Channel' BY <1>2, <1>4, <1>8, <1>9, <1>10 DEF Channel
<1>12. QED BY <1>1, <1>2, <1>7, <1>11

\* The packet held is written, or lost with its writer; it is out either way.
LEMMA WriteChannel ==
    ASSUME Types, Channel, NEW g \in Gens, hand[g] # 0, \A h \in Gens : hand[h] # 0 => h = g,
           taken' = Append(taken, hand[g]), hand' = [hand EXCEPT ![g] = 0], UNCHANGED <<sent, wq>>
    PROVE  /\ Channel' /\ taken' \in Seq(1..MaxSends) /\ hand' \in [Gens -> 0..MaxSends]
           /\ \A h \in Gens : hand'[h] = 0
<1> DEFINE n == Len(taken)
<1>1. hand[g] = n + 1 /\ Out = n + 1 /\ n \in Nat /\ hand[g] \in 1..MaxSends
    BY ChannelTypes DEF Channel, Held, Out, One
<1>2. taken' \in Seq(1..MaxSends) /\ Len(taken') = n + 1 /\ \A i \in DOMAIN taken' : taken'[i] = i
    BY <1>1, ChannelTypes DEF Channel
<1>3. hand' \in [Gens -> 0..MaxSends] /\ \A h \in Gens : hand'[h] = 0 BY ChannelTypes
<1>4. Out' = n + 1 BY <1>1, <1>2, <1>3 DEF Held, Out, One
<1>5. \A h \in Gens : hand'[h] \in {0, Len(taken') + 1} BY <1>3
<1>6. Channel' BY <1>1, <1>2, <1>4, <1>5 DEF Channel
<1>7. QED BY <1>2, <1>3, <1>6

\* Nothing happens to the channel.
LEMMA SameChannel ==
    ASSUME Channel, UNCHANGED <<sent, wq, hand, taken>>
    PROVE  Channel'
BY DEF Channel, Held, Out

-----------------------------------------------------------------------------
(* The pump's threads, the bridge and the node.                            *)

\* A step that starts no thread and leaves the engine's thread where it is.
LEMMA EngineKept ==
    ASSUME Types, Future, Stage, ClosedUnused, EngineSame,
           \A h \in Gens : /\ reader[h] = "none" => reader'[h] = "none"
                           /\ writer[h] = "none" => writer'[h] = "none"
                           /\ reader[h] \in Ended => reader'[h] \in Ended
                           /\ writer[h] \in Ended => writer'[h] \in Ended,
           rx = 0 => rx' = 0
    PROVE  Future' /\ Stage' /\ ClosedUnused'
<1>1. UNCHANGED <<io, fd, gen, open, ctl, abandoned>> /\ gen \in Gens /\ fd \in Gens BY DEF EngineSame, Types
<1>2. \A h \in Gens : (NotStarted(h) => NotStarted(h)') /\ (IoEnded(h) => IoEnded(h)')
    BY <1>1 DEF NotStarted, IoEnded
<1>3. Future' BY <1>1, <1>2 DEF Future
<1>4. Stage' BY <1>1, <1>2 DEF Stage, Retired, NotStarted, IoEnded
<1>5. ClosedUnused' BY <1>1, <1>2 DEF ClosedUnused, Gens
<1>6. QED BY <1>3, <1>4, <1>5

\* The flags are the engine's.
LEMMA FlagsKept ==
    ASSUME Flags, UNCHANGED <<running, live, woken>>
    PROVE  Flags'
BY Zenon DEF Flags

\* Every statement of a reader keeps the inductive invariant.
LEMMA ReaderInv ==
    ASSUME IInv, NEW g \in Gens, ReaderStep(g)
    PROVE  IInv'
<1> USE DEF IInv
<1>1. /\ EngineSame /\ UNCHANGED <<live, woken, writer, hand, rx, bridge, inq, node, taken>>
      /\ reader[g] \notin Ended /\ reader'[g] # "none" /\ reader' \in [Gens -> ReaderPc]
      /\ \A h \in Gens : h # g => reader'[h] = reader[h] /\ marks'[h] = marks[h]
      /\ DOMAIN marks' = Gens /\ marks'[g] = marks[g] + One(reader'[g] = "done")
      /\ outq' \in 0..OutCap /\ (UNCHANGED chan \/ Send)
    BY ReaderEffect
<1>2. Channel' /\ wq' \in Seq(0..MaxSends) /\ sent' \in Seq(1..MaxSends)
    BY <1>1, SendChannel, SameChannel, ChannelTypes DEF chan
<1>3. Flags' BY <1>1, FlagsKept DEF EngineSame
<1>4. Marks' BY <1>1 DEF Marks, One, Ended
<1>5. Types'
    <2>1. marks' \in [Gens -> 0..2]
        <3>1. \A h \in Gens : marks'[h] \in 0..2 BY <1>4 DEF Marks, One
        <3>2. marks' = [h \in Gens |-> marks'[h]]
            <4>1. CASE \E pc : ReaderGoes(g, pc) /\ marks' = marks BY <4>1 DEF Types
            <4>2. CASE ReaderEnds(g) BY <4>2 DEF ReaderEnds, Types
            <4>3. QED BY Zenon, <4>1, <4>2 DEF ReaderStep, ReaderHead, ReaderWake, ReaderHangup, ReaderInput,
                ReaderDispatch, ReaderSend
        <3>3. QED BY <3>1, <3>2
    <2>2. QED BY <1>1, <1>2, <2>1 DEF Types, EngineSame
<1>6. Future' /\ Stage' /\ ClosedUnused' BY <1>1, EngineKept DEF Ended
<1>7. Receiver' BY <1>1 DEF Receiver, EngineSame
<1>8. QED BY <1>2, <1>3, <1>4, <1>5, <1>6, <1>7

\* Every statement of a writer keeps the inductive invariant.
LEMMA WriterInv ==
    ASSUME IInv, NEW g \in Gens, WriterStep(g)
    PROVE  IInv'
<1> USE DEF IInv
<1>1. /\ EngineSame /\ UNCHANGED <<live, woken, reader, bridge, inq, outq, node, sent>>
      /\ writer[g] \notin Ended /\ writer'[g] # "none" /\ writer' \in [Gens -> WriterPc]
      /\ \A h \in Gens : h # g => writer'[h] = writer[h] /\ marks'[h] = marks[h]
      /\ DOMAIN marks' = Gens /\ marks'[g] = marks[g] + One(writer'[g] = "done")
      /\ rx' = IF writer'[g] = "done" /\ g \in abandoned THEN Dropped ELSE rx
    BY WriterEffect
<1>2. rx = g /\ g # 0 /\ g # Dropped /\ \A h \in Gens : h # g => hand[h] = 0 /\ writer[h] \in Ended
    BY <1>1 DEF Receiver, Gens, Dropped, Ended, Types
<1>3. hand[g] # 0 <=> writer[g] = "write" BY DEF Receiver
<1>4. /\ Channel' /\ wq' \in Seq(0..MaxSends) /\ taken' \in Seq(1..MaxSends)
      /\ hand' \in [Gens -> 0..MaxSends] /\ (hand'[g] # 0 <=> writer'[g] = "write")
      /\ \A h \in Gens : h # g => hand'[h] = 0
    <2>1. CASE writer[g] # "write" /\ writer'[g] # "write" /\ UNCHANGED <<hand, wq, taken>>
        BY <1>1, <1>2, <1>3, <2>1, SameChannel, ChannelTypes
    <2>2. CASE /\ writer[g] # "write" /\ writer'[g] # "write" /\ UNCHANGED <<hand, taken>>
               /\ wq # <<>> /\ Head(wq) = Sentinel /\ wq' = Tail(wq)
        BY <1>1, <1>2, <1>3, <2>2, TakeSentinel, ChannelTypes
    <2>3. CASE /\ writer[g] # "write" /\ writer'[g] = "write" /\ UNCHANGED taken
               /\ wq # <<>> /\ Head(wq) # Sentinel /\ wq' = Tail(wq)
               /\ hand' = [hand EXCEPT ![g] = Head(wq)]
        <3>1. ~Held BY <1>2, <1>3, <2>3 DEF Held
        <3>2. QED BY <1>1, <2>3, <3>1, TakePacket, ChannelTypes
    <2>4. CASE /\ writer[g] = "write" /\ writer'[g] # "write" /\ UNCHANGED wq
               /\ taken' = Append(taken, hand[g]) /\ hand' = [hand EXCEPT ![g] = 0]
        <3>1. hand[g] # 0 /\ \A h \in Gens : hand[h] # 0 => h = g BY <1>2, <1>3, <2>4
        <3>2. QED BY <1>1, <2>4, <3>1, WriteChannel, ChannelTypes
    <2>5. QED BY <2>1, <2>2, <2>3, <2>4, WriterEffect
<1>5. Flags' BY <1>1, FlagsKept DEF EngineSame
<1>6. Marks' BY <1>1 DEF Marks, One, Ended
<1>7. Types'
    <2>1. marks' \in [Gens -> 0..2]
        <3>1. \A h \in Gens : marks'[h] \in 0..2 BY <1>6 DEF Marks, One
        <3>2. marks' = [h \in Gens |-> marks'[h]]
            <4>1. CASE marks' = marks BY <4>1 DEF Types
            <4>2. CASE WriterEnds(g) BY <4>2 DEF WriterEnds, Types
            <4>3. QED BY Zenon, <4>1, <4>2 DEF WriterStep, WriterHead, WriterRecv, WriterWrite
        <3>3. QED BY <3>1, <3>2
    <2>2. rx' \in Gens \cup {0, Dropped} BY <1>1, <1>2
    <2>3. UNCHANGED <<reader, bridge, inq, outq, node, sent, io, fd, gen, open, ctl, abandoned>>
        BY <1>1 DEF EngineSame
    <2>4. QED BY <1>1, <1>4, <2>1, <2>2, <2>3 DEF Types
<1>8. Future' /\ Stage' /\ ClosedUnused'
    <2>1. rx # 0 BY <1>2
    <2>2. \A h \in Gens : /\ writer[h] = "none" => writer'[h] = "none"
                          /\ writer[h] \in Ended => writer'[h] \in Ended
        BY <1>1 DEF Ended
    <2>3. QED BY <1>1, <2>1, <2>2, EngineKept
<1>9. Receiver'
    <2>1. \A h \in Gens : hand'[h] # 0 <=> writer'[h] = "write" BY <1>1, <1>2, <1>4 DEF Ended
    <2>2. \A h \in Gens : writer'[h] \notin Ended => rx' = h BY <1>1, <1>2 DEF Ended
    <2>3. io' # 0 => rx' = io' /\ io' \notin abandoned' BY <1>1, <1>2 DEF Receiver, EngineSame
    <2>4. QED BY <2>1, <2>2, <2>3 DEF Receiver
<1>10. QED BY <1>4, <1>5, <1>6, <1>7, <1>8, <1>9

\* The bridge, the node and the other senders keep the inductive invariant.
LEMMA OtherInv ==
    ASSUME IInv, BridgeStep \/ NodeStep \/ OtherSend
    PROVE  IInv'
<1> USE DEF IInv
<1>1. /\ EngineSame /\ UNCHANGED <<live, woken, reader, writer, hand, marks, rx, taken>>
      /\ bridge' \in BridgePc /\ inq' \in 0..1 /\ outq' \in 0..OutCap
      /\ node' \in {"up", "stopping", "gone"} /\ (UNCHANGED chan \/ Send)
    BY OtherEffect
<1>2. Channel' /\ wq' \in Seq(0..MaxSends) /\ sent' \in Seq(1..MaxSends)
    BY <1>1, SendChannel, SameChannel, ChannelTypes DEF chan
<1>3. Flags' BY <1>1, FlagsKept DEF EngineSame
<1>4. Marks' /\ Receiver' BY <1>1 DEF Marks, Receiver, EngineSame
<1>5. Types' BY <1>1, <1>2 DEF Types, EngineSame
<1>6. Future' /\ Stage' /\ ClosedUnused' BY <1>1, EngineKept
<1>7. QED BY <1>2, <1>3, <1>4, <1>5, <1>6

-----------------------------------------------------------------------------
(* The engine's thread.                                                    *)

\* Where the engine's thread can be, by stage.
LEMMA Places ==
    /\ Holding = {"idle", "swapLive", "swapWake", "swapSentinel", "swapWait",
                  "joinLive", "joinWake", "joinSentinel", "joinWait"}
    /\ Holding \subseteq Ctl
BY DEF Holding, Swapping, Joining, Ctl

\* A step that touches no thread and keeps the receiver.
LEMMA ThreadsKept ==
    ASSUME Marks, Receiver, Channel, UNCHANGED <<reader, writer, hand, marks, rx, io, abandoned, wq, sent, taken>>
    PROVE  Marks' /\ Receiver' /\ Channel'
<1>1. Marks' /\ Receiver' BY DEF Marks, Receiver
<1>2. QED BY <1>1, SameChannel

\* The threads of generation g start with the receiver.
LEMMA StartIoEffect ==
    ASSUME Types, Marks, Receiver, NEW g \in Gens, NotStarted(g), rx = 0, StartIo(g)
    PROVE  /\ reader' \in [Gens -> ReaderPc] /\ writer' \in [Gens -> WriterPc]
           /\ reader'[g] = "head" /\ writer'[g] = "head" /\ rx' = g
           /\ \A h \in Gens : h # g => reader'[h] = reader[h] /\ writer'[h] = writer[h]
           /\ UNCHANGED <<woken, hand, marks>>
           /\ Marks' /\ \A h \in Gens : writer'[h] \notin Ended => rx' = h
           /\ \A h \in Gens : hand'[h] # 0 <=> writer'[h] = "write"
<1>1. "head" \in ReaderPc /\ "head" \in WriterPc BY DEF ReaderPc, WriterPc
<1>2. /\ reader' \in [Gens -> ReaderPc] /\ writer' \in [Gens -> WriterPc]
      /\ reader'[g] = "head" /\ writer'[g] = "head" /\ rx' = g
      /\ \A h \in Gens : h # g => reader'[h] = reader[h] /\ writer'[h] = writer[h]
      /\ UNCHANGED <<woken, hand, marks>>
    BY <1>1 DEF StartIo, Types
<1>3. Marks' BY <1>2 DEF Marks, One, NotStarted
<1>4. \A h \in Gens : writer[h] \in Ended BY DEF Receiver, Gens
<1>5. \A h \in Gens : writer'[h] \notin Ended => rx' = h BY <1>2, <1>4
<1>6. \A h \in Gens : hand'[h] # 0 <=> writer'[h] = "write" BY <1>2 DEF Receiver, NotStarted
<1>7. QED BY <1>2, <1>3, <1>5, <1>6

\* The flags of one generation are set or cleared.
LEMMA FlagsSet ==
    ASSUME Flags, NEW g, NEW b \in BOOLEAN, running' = running \/ running' = FALSE,
           live' = live \/ live' = [live EXCEPT ![g] = b],
           woken' = woken \/ woken' = [woken EXCEPT ![g] = b]
    PROVE  Flags'
<1>1. running' \in BOOLEAN BY Zenon DEF Flags
<1>2. live' \in [Gens -> BOOLEAN]
    <2>1. CASE live' = live BY <2>1 DEF Flags
    <2>2. CASE live' = [live EXCEPT ![g] = b] BY <2>2 DEF Flags
    <2>3. QED BY <2>1, <2>2
<1>3. woken' \in [Gens -> BOOLEAN]
    <2>1. CASE woken' = woken BY <2>1 DEF Flags
    <2>2. CASE woken' = [woken EXCEPT ![g] = b] BY <2>2 DEF Flags
    <2>3. QED BY <2>1, <2>2
<1>4. QED BY <1>1, <1>2, <1>3 DEF Flags

\* Pump::spawn, with its two failures.
LEMMA SpawnInv ==
    ASSUME IInv, Spawn
    PROVE  IInv'
<1> USE DEF IInv
<1>1. /\ ctl = "new" /\ ctl' = "idle" /\ io' = 1 /\ bridge' = "head" /\ StartIo(1)
      /\ UNCHANGED <<running, fd, gen, open, abandoned, wq, sent, inq, outq, node, taken>>
    BY DEF Spawn, chan
<1>2. gen = 1 /\ rx = 0 /\ NotStarted(1) /\ fd = 1 /\ 1 \in Gens /\ open = {1}
    BY <1>1 DEF Stage, Gens
<1>3. /\ reader' \in [Gens -> ReaderPc] /\ writer' \in [Gens -> WriterPc]
      /\ rx' = 1 /\ \A h \in Gens : h # 1 => reader'[h] = reader[h] /\ writer'[h] = writer[h]
      /\ UNCHANGED <<woken, hand, marks>>
      /\ Marks' /\ \A h \in Gens : writer'[h] \notin Ended => rx' = h
      /\ \A h \in Gens : hand'[h] # 0 <=> writer'[h] = "write"
    BY <1>1, <1>2, StartIoEffect
<1>4. Flags' BY <1>1, <1>3, FlagsSet DEF StartIo
<1>5. Types'
    <2>1. ctl' \in Ctl /\ bridge' \in BridgePc BY <1>1 DEF Ctl, BridgePc
    <2>2. QED BY <1>1, <1>2, <1>3, <2>1 DEF Types, Gens
<1>6. Future' BY <1>1, <1>2, <1>3 DEF Future, NotStarted
<1>7. Stage' BY <1>1, <1>2 DEF Stage, Holding, Swapping, Joining, Undoing
<1>8. ClosedUnused' BY <1>1, <1>2 DEF ClosedUnused
<1>9. Receiver' BY <1>1, <1>2, <1>3 DEF Receiver, NotStarted
<1>10. Channel' BY <1>1, <1>3, SameChannel
<1>11. QED BY <1>3, <1>4, <1>5, <1>6, <1>7, <1>8, <1>9, <1>10

\* A pump whose reader or writer cannot be spawned closes the fd with no thread on it.
LEMMA SpawnIoFailsInv ==
    ASSUME IInv, SpawnIoFails
    PROVE  IInv'
<1> USE DEF IInv
<1>1. /\ ctl = "new" /\ ctl' = "failed" /\ open' = {} /\ rx' = Dropped /\ node' \in {node, "stopping"}
      /\ UNCHANGED <<running, io, fd, gen, abandoned, live, woken, reader, writer, hand, marks,
             bridge, wq, sent, inq, outq, taken>>
    BY DEF SpawnIoFails, TellNode, chan
<1>2. gen = 1 /\ rx = 0 /\ io = 0 /\ NotStarted(1) BY <1>1, Places DEF Stage
<1>3. Flags' BY <1>1, FlagsKept
<1>4. Types'
    <2>1. ctl' \in Ctl BY <1>1 DEF Ctl
    <2>2. QED BY <1>1, <2>1 DEF Types
<1>5. Future' /\ Marks' BY <1>1 DEF Future, NotStarted, Marks
<1>6. Stage' BY <1>1, <1>2 DEF Stage, Holding, Swapping, Joining, Undoing
<1>7. ClosedUnused' BY <1>1, <1>2 DEF ClosedUnused, IoEnded, NotStarted, Ended
<1>8. Receiver'
    <2>1. \A h \in Gens : writer[h] \in Ended BY <1>2 DEF Receiver, Gens
    <2>2. QED BY <1>1, <1>2, <2>1 DEF Receiver
<1>9. Channel' BY <1>1, SameChannel
<1>10. QED BY <1>3, <1>4, <1>5, <1>6, <1>7, <1>8, <1>9

\* A bridge that cannot be spawned leaves reader and writer on a closed fd: they are given up.
LEMMA SpawnBridgeFailsInv ==
    ASSUME IInv, SpawnBridgeFails
    PROVE  IInv'
<1> USE DEF IInv
<1>1. /\ ctl = "new" /\ ctl' = "failed" /\ open' = {} /\ abandoned' = {1} /\ node' \in {node, "stopping"} /\ StartIo(1)
      /\ UNCHANGED <<running, io, fd, gen, bridge, wq, sent, inq, outq, taken>>
    BY DEF SpawnBridgeFails, TellNode, chan
<1>2. gen = 1 /\ rx = 0 /\ io = 0 /\ NotStarted(1) /\ 1 \in Gens BY <1>1, Places DEF Stage, Gens
<1>3. /\ reader' \in [Gens -> ReaderPc] /\ writer' \in [Gens -> WriterPc]
      /\ rx' = 1 /\ \A h \in Gens : h # 1 => reader'[h] = reader[h] /\ writer'[h] = writer[h]
      /\ UNCHANGED <<woken, hand, marks>>
      /\ Marks' /\ \A h \in Gens : writer'[h] \notin Ended => rx' = h
      /\ \A h \in Gens : hand'[h] # 0 <=> writer'[h] = "write"
    BY <1>1, <1>2, StartIoEffect
<1>4. Flags' BY <1>1, <1>3, FlagsSet DEF StartIo
<1>5. Types'
    <2>1. ctl' \in Ctl BY <1>1 DEF Ctl
    <2>2. QED BY <1>1, <1>2, <1>3, <2>1 DEF Types
<1>6. Future'
    <2>1. \A g \in Gens : g > 1 => reader[g] = "none" /\ writer[g] = "none" BY <1>2 DEF Future, NotStarted
    <2>2. QED BY <1>1, <1>2, <1>3, <2>1 DEF Future, NotStarted
<1>7. Stage' BY <1>1, <1>2 DEF Stage, Holding, Swapping, Joining, Undoing
<1>8. ClosedUnused' BY <1>1, <1>2 DEF ClosedUnused
<1>9. Receiver' BY <1>1, <1>2, <1>3 DEF Receiver
<1>10. Channel' BY <1>1, <1>3, SameChannel
<1>11. QED BY <1>3, <1>4, <1>5, <1>6, <1>7, <1>8, <1>9, <1>10

\* swap_tun_locked has dupped the new fd.
LEMMA SwapBeginInv ==
    ASSUME IInv, SwapBegin
    PROVE  IInv'
<1> USE DEF IInv
<1>1. /\ ctl = "idle" /\ ctl' = "swapLive" /\ gen < MaxGen /\ gen' = gen + 1 /\ open' = open \cup {gen + 1}
      /\ UNCHANGED <<running, io, fd, abandoned, live, woken, reader, writer, hand, marks, rx, wq, sent,
             node, bridge, inq, outq, taken>>
    BY DEF SwapBegin, CtlGoes, threads, chan, Others
<1>2. io = gen /\ fd = gen /\ gen \in Gens /\ gen + 1 \in Gens /\ NotStarted(gen + 1) /\ gen \in Nat
    BY <1>1 DEF Stage, Types, Gens, Future
<1>3. Flags' BY <1>1, FlagsKept
<1>4. Types'
    <2>1. ctl' \in Ctl BY <1>1 DEF Ctl
    <2>2. QED BY <1>1, <1>2, <2>1 DEF Types
<1>5. Future' BY <1>1, <1>2 DEF Future, NotStarted, Gens
<1>6. Stage'
    <2>1. NotStarted(gen)' /\ io' # 0 BY <1>1, <1>2 DEF NotStarted, Gens
    <2>2. QED BY <1>1, <1>2, <2>1 DEF Stage, Holding, Swapping, Joining, Undoing
<1>7. ClosedUnused' BY <1>1, <1>2 DEF ClosedUnused, IoEnded
<1>8. Marks' /\ Receiver' /\ Channel' BY <1>1, ThreadsKept
<1>9. QED BY <1>3, <1>4, <1>5, <1>6, <1>7, <1>8

\* stop_locked begins.
LEMMA StopBeginInv ==
    ASSUME IInv, StopBegin
    PROVE  IInv'
<1> USE DEF IInv
<1>1. /\ ctl \in {"idle", "swapFailed"} /\ ctl' = (IF io = 0 THEN "joinBridge" ELSE "joinLive")
      /\ running' = FALSE /\ node' \in {node, "stopping"}
      /\ UNCHANGED <<io, fd, gen, open, abandoned, live, woken, reader, writer, hand, marks, rx, wq, sent,
             bridge, inq, outq, taken>>
    BY DEF StopBegin, TellNode, CtlGoes, threads, chan, Others
<1>2. \/ ctl = "idle" /\ io # 0 /\ io = gen /\ fd = gen /\ ctl' = "joinLive"
      \/ io = 0 /\ Retired(fd) /\ ctl' = "joinBridge"
    BY <1>1, Places DEF Stage
<1>3. Flags' BY <1>1, FlagsSet
<1>4. Types'
    <2>1. ctl' \in Ctl BY <1>2 DEF Ctl
    <2>2. QED BY <1>1, <2>1 DEF Types
<1>5. Future' BY <1>1 DEF Future, NotStarted
<1>6. Stage'
    <2>1. Retired(fd)' = Retired(fd) BY <1>1 DEF Retired, IoEnded
    <2>2. CASE ctl' = "joinLive"
        BY <1>1, <1>2, <2>2 DEF Stage, Holding, Swapping, Joining, Undoing
    <2>3. CASE ctl' = "joinBridge"
        BY <1>1, <1>2, <2>1, <2>3 DEF Stage, Holding, Swapping, Joining, Undoing
    <2>4. QED BY <1>2, <2>2, <2>3
<1>7. ClosedUnused' BY <1>1 DEF ClosedUnused, IoEnded
<1>8. Marks' /\ Receiver' /\ Channel' BY <1>1, ThreadsKept
<1>9. QED BY <1>3, <1>4, <1>5, <1>6, <1>7, <1>8

\* stop_io up to its wait.
LEMMA StopIoStepInv ==
    ASSUME IInv, StopIoLive \/ StopIoWake \/ StopIoSentinel
    PROVE  IInv'
<1> USE DEF IInv
<1>1. /\ \/ ctl \in Swapping /\ ctl' \in Swapping
         \/ ctl \in Joining /\ ctl' \in Joining
      /\ UNCHANGED <<running, io, fd, gen, open, abandoned, reader, writer, hand, marks, rx, sent,
             node, bridge, inq, outq, taken>>
    BY DEF StopIoLive, StopIoWake, StopIoSentinel, CtlGoes, threads, chan, Others, IoThreads, Swapping, Joining
<1>2. Flags' BY <1>1, FlagsSet DEF StopIoLive, StopIoWake, StopIoSentinel, threads
<1>3. Channel' /\ wq' \in Seq(0..MaxSends)
    <2>1. CASE wq' = wq BY <1>1, <2>1, SameChannel, ChannelTypes
    <2>2. CASE wq' = Append(wq, Sentinel) BY <1>1, <2>2, SentinelChannel
    <2>3. QED BY <2>1, <2>2 DEF StopIoLive, StopIoWake, StopIoSentinel, chan
<1>4. Types'
    <2>1. ctl' \in Ctl BY <1>1 DEF Ctl, Swapping, Joining
    <2>2. QED BY <1>1, <1>3, <2>1 DEF Types
<1>5. Future' BY <1>1 DEF Future, NotStarted
<1>6. Stage'
    <2>1. NotStarted(gen)' = NotStarted(gen) BY <1>1 DEF NotStarted
    <2>2. CASE ctl \in Swapping /\ ctl' \in Swapping
        BY <1>1, <2>1, <2>2 DEF Stage, Holding, Swapping, Joining, Undoing
    <2>3. CASE ctl \in Joining /\ ctl' \in Joining
        BY <1>1, <2>1, <2>3 DEF Stage, Holding, Swapping, Joining, Undoing
    <2>4. QED BY <1>1, <2>2, <2>3
<1>7. ClosedUnused' BY <1>1 DEF ClosedUnused, IoEnded
<1>8. Marks' /\ Receiver' BY <1>1 DEF Marks, Receiver
<1>9. QED BY <1>2, <1>3, <1>4, <1>5, <1>6, <1>7, <1>8

\* Both threads are joined: they have ended, and the receiver is back.
LEMMA StopIoJoinedInv ==
    ASSUME IInv, StopIoJoined
    PROVE  IInv'
<1> USE DEF IInv
<1>1. /\ ctl \in {"swapWait", "joinWait"} /\ marks[io] = 2 /\ io' = 0
      /\ ctl' = (IF ctl = "swapWait" THEN "swapSpawn" ELSE "joinBridge")
      /\ rx' = (IF rx = io THEN 0 ELSE rx)
      /\ UNCHANGED <<running, fd, gen, open, abandoned, live, woken, reader, writer, hand, marks, sent, wq,
             node, bridge, inq, outq, taken>>
    BY DEF StopIoJoined, CtlGoes, chan, Others, IoThreads
<1>2. io # 0 /\ io = fd /\ fd \in Gens /\ rx = io BY <1>1, Places DEF Stage, Swapping, Joining, Types, Receiver
<1>3. reader[fd] = "done" /\ writer[fd] = "done" BY <1>1, <1>2 DEF Marks, One
<1>4. Flags' BY <1>1, FlagsKept
<1>5. Types'
    <2>1. ctl' \in Ctl BY <1>1 DEF Ctl
    <2>2. QED BY <1>1, <1>2, <2>1 DEF Types
<1>6. Future' BY <1>1 DEF Future, NotStarted
<1>7. Stage'
    <2>1. /\ NotStarted(gen)' = NotStarted(gen) /\ IoEnded(fd)' /\ Retired(fd)' /\ rx' = 0
        BY <1>1, <1>2, <1>3 DEF NotStarted, IoEnded, Retired, Ended
    <2>2. CASE ctl = "swapWait"
        <3>1. fd < gen /\ NotStarted(gen) /\ gen \in open BY <2>2 DEF Stage, Swapping
        <3>2. ctl' = "swapSpawn" BY <1>1, <2>2
        <3>3. QED BY <1>1, <2>1, <3>1, <3>2 DEF Stage, Holding, Swapping, Joining, Undoing
    <2>3. CASE ctl # "swapWait"
        <3>1. ctl' = "joinBridge" BY <1>1, <2>3
        <3>2. QED BY <1>1, <2>1, <3>1 DEF Stage, Holding, Swapping, Joining, Undoing
    <2>4. QED BY <2>2, <2>3
<1>8. ClosedUnused' BY <1>1 DEF ClosedUnused, IoEnded
<1>9. Receiver'
    <2>1. \A h \in Gens : writer[h] \in Ended BY <1>2, <1>3 DEF Receiver, Ended
    <2>2. QED BY <1>1, <2>1 DEF Receiver
<1>10. Marks' /\ Channel' BY <1>1, SameChannel DEF Marks
<1>11. QED BY <1>4, <1>5, <1>6, <1>7, <1>8, <1>9, <1>10

\* The wait times out: the generation is given up with whatever it still does.
LEMMA StopIoTimeoutInv ==
    ASSUME IInv, StopIoTimeout
    PROVE  IInv'
<1> USE DEF IInv
<1>1. /\ ctl \in {"swapWait", "joinWait"} /\ io' = 0 /\ abandoned' = abandoned \cup {io}
      /\ rx' = (IF rx = io /\ writer[io] = "done" THEN Dropped ELSE rx)
      /\ \/ ctl = "swapWait" /\ ctl' = "swapFailed" /\ open' = open \ {gen}
         \/ ctl = "joinWait" /\ ctl' = "joinBridge" /\ open' = open
      /\ UNCHANGED <<running, fd, gen, live, woken, reader, writer, hand, marks, sent, wq,
             node, bridge, inq, outq, taken>>
    BY DEF StopIoTimeout, CtlGoes, chan, Others, IoThreads
<1>2. io # 0 /\ io = fd /\ fd \in Gens /\ rx = io /\ fd <= gen /\ gen \in Gens
    BY <1>1, Places DEF Stage, Swapping, Joining, Types, Receiver, Gens
<1>3. Flags' BY <1>1, FlagsKept
<1>4. Types'
    <2>1. ctl' \in Ctl BY <1>1 DEF Ctl
    <2>2. io' \in 0..MaxGen /\ open' \subseteq Gens /\ abandoned' \subseteq Gens
        <3>1. open \subseteq Gens /\ abandoned \subseteq Gens /\ io \in Gens BY <1>2 DEF Types
        <3>2. io' = 0 /\ abandoned' = abandoned \cup {io} /\ (open' = open \/ open' = open \ {gen}) BY <1>1
        <3>3. QED BY <3>1, <3>2
    <2>3. rx' \in Gens \cup {0, Dropped} BY <1>1 DEF Types
    <2>4. QED BY <1>1, <2>1, <2>2, <2>3 DEF Types
<1>5. Future' BY <1>1, <1>2 DEF Future, NotStarted, Gens
<1>6. Stage'
    <2>1. Retired(fd)' BY <1>1, <1>2 DEF Retired
    <2>2. QED BY <1>1, <2>1 DEF Stage, Holding, Swapping, Joining, Undoing
<1>7. ClosedUnused'
    <2>1. ctl = "swapWait" => IoEnded(gen) BY DEF Stage, Swapping, NotStarted, IoEnded, Ended
    <2>2. \A g \in Gens : IoEnded(g)' = IoEnded(g) BY <1>1 DEF IoEnded
    <2>3. \A g \in (1..gen \ open') : g \in Gens /\ (g \in (1..gen \ open) \/ (g = gen /\ ctl = "swapWait"))
        BY <1>1, <1>2 DEF Gens
    <2>4. QED BY <1>1, <2>1, <2>2, <2>3 DEF ClosedUnused
<1>8. Receiver'
    <2>1. \A h \in Gens : writer[h] \notin Ended => h = io /\ writer[io] # "done" BY <1>2 DEF Receiver, Ended
    <2>2. \A h \in Gens : writer'[h] \notin Ended => rx' = h BY <1>1, <1>2, <2>1
    <2>3. QED BY <1>1, <2>2 DEF Receiver
<1>9. Marks' /\ Channel' BY <1>1, SameChannel DEF Marks
<1>10. QED BY <1>3, <1>4, <1>5, <1>6, <1>7, <1>8, <1>9

\* spawn_io on the new fd; the old one is closed, and nobody uses it.
LEMMA SwapSpawnInv ==
    ASSUME IInv, SwapSpawn
    PROVE  IInv'
<1> USE DEF IInv
<1>1. /\ ctl = "swapSpawn" /\ ctl' = "idle" /\ io' = gen /\ fd' = gen /\ open' = open \ {fd} /\ StartIo(gen)
      /\ UNCHANGED <<running, gen, abandoned, wq, sent, node, bridge, inq, outq, taken>>
    BY DEF SwapSpawn, CtlGoes, chan, Others
<1>2. /\ rx = 0 /\ NotStarted(gen) /\ fd < gen /\ gen \in open /\ IoEnded(fd)
      /\ gen \in Gens /\ fd \in Gens /\ gen # 0
    BY <1>1 DEF Stage, Types, Gens
<1>3. /\ reader' \in [Gens -> ReaderPc] /\ writer' \in [Gens -> WriterPc]
      /\ rx' = gen /\ \A h \in Gens : h # gen => reader'[h] = reader[h] /\ writer'[h] = writer[h]
      /\ UNCHANGED <<woken, hand, marks>>
      /\ Marks' /\ \A h \in Gens : writer'[h] \notin Ended => rx' = h
      /\ \A h \in Gens : hand'[h] # 0 <=> writer'[h] = "write"
    BY <1>1, <1>2, StartIoEffect
<1>4. Flags' BY <1>1, <1>3, FlagsSet DEF StartIo
<1>5. Types'
    <2>1. ctl' \in Ctl /\ io' \in 0..MaxGen BY <1>1, <1>2 DEF Ctl, Gens
    <2>2. QED BY <1>1, <1>2, <1>3, <2>1 DEF Types
<1>6. Future'
    <2>1. \A g \in Gens : g > gen => g # gen BY <1>2 DEF Gens
    <2>2. QED BY <1>1, <1>3, <2>1 DEF Future, NotStarted
<1>7. Stage' BY <1>1, <1>2 DEF Stage, Holding, Swapping, Joining, Undoing
<1>8. ClosedUnused'
    <2>1. \A g \in (1..gen \ open') : g \in Gens /\ g # gen /\ (g \in (1..gen \ open) \/ g = fd)
        BY <1>1, <1>2 DEF Gens
    <2>2. \A g \in Gens : g # gen => IoEnded(g)' = IoEnded(g) BY <1>3 DEF IoEnded
    <2>3. QED BY <1>1, <1>2, <2>1, <2>2 DEF ClosedUnused
<1>9. Receiver' BY <1>1, <1>2, <1>3 DEF Receiver, NotStarted
<1>10. Channel' BY <1>1, <1>3, SameChannel
<1>11. QED BY <1>3, <1>4, <1>5, <1>6, <1>7, <1>8, <1>9, <1>10

\* A swap whose eventfd or reader cannot be created closes the new fd with no thread on it.
LEMMA SwapIoFailsInv ==
    ASSUME IInv, SwapIoFails
    PROVE  IInv'
<1> USE DEF IInv
<1>1. /\ ctl = "swapSpawn" /\ ctl' = "swapFailed" /\ rx' = Dropped /\ open' = open \ {gen}
      /\ UNCHANGED <<running, io, fd, gen, abandoned, live, woken, reader, writer, hand, marks, wq, sent,
             node, bridge, inq, outq, taken>>
    BY DEF SwapIoFails, CtlGoes, IoThreads, chan, Others
<1>2. rx = 0 /\ io = 0 /\ NotStarted(gen) /\ IoEnded(fd) /\ IoEnded(gen)
    BY <1>1, Places DEF Stage, NotStarted, IoEnded, Ended
<1>3. Flags' BY <1>1, FlagsKept
<1>4. Types'
    <2>1. ctl' \in Ctl BY <1>1 DEF Ctl
    <2>2. QED BY <1>1, <2>1 DEF Types
<1>5. Future' BY <1>1 DEF Future, NotStarted
<1>6. Stage'
    <2>1. Retired(fd)' BY <1>1, <1>2 DEF Retired, IoEnded
    <2>2. QED BY <1>1, <1>2, <2>1 DEF Stage, Holding, Swapping, Joining, Undoing
<1>7. ClosedUnused'
    <2>1. \A g : IoEnded(g)' = IoEnded(g) BY <1>1 DEF IoEnded
    <2>2. \A g \in (1..gen \ open') : g \in (1..gen \ open) \/ g = gen BY <1>1
    <2>3. QED BY <1>1, <1>2, <2>1, <2>2 DEF ClosedUnused
<1>8. Receiver'
    <2>1. \A h \in Gens : writer[h] \in Ended BY <1>2 DEF Receiver, Gens
    <2>2. QED BY <1>1, <1>2, <2>1 DEF Receiver
<1>9. Marks' /\ Channel' BY <1>1, SameChannel DEF Marks
<1>10. QED BY <1>3, <1>4, <1>5, <1>6, <1>7, <1>8, <1>9

\* The writer of a new generation cannot be created: its reader is up alone.
LEMMA ReaderAloneInv ==
    ASSUME IInv, ReaderAlone
    PROVE  IInv'
<1> USE DEF IInv
<1>1. /\ ctl \in {"new", "swapSpawn"} /\ ctl' = "undoLive"
      /\ reader' = [reader EXCEPT ![gen] = "head"] /\ live' = [live EXCEPT ![gen] = TRUE]
      /\ UNCHANGED <<running, io, fd, gen, open, abandoned, woken, writer, hand, marks, rx, wq, sent,
             node, bridge, inq, outq, taken>>
    BY DEF ReaderAlone, chan
<1>2. /\ rx = 0 /\ io = 0 /\ NotStarted(gen) /\ gen \in open /\ gen \in Gens /\ fd \in Gens
      /\ fd = gen \/ (fd < gen /\ IoEnded(fd))
    BY <1>1, Places DEF Stage, Types
<1>3. /\ reader' \in [Gens -> ReaderPc] /\ reader'[gen] = "head"
      /\ \A h \in Gens : h # gen => reader'[h] = reader[h]
    BY <1>1, <1>2 DEF Types, ReaderPc
<1>4. Flags' BY <1>1, FlagsSet
<1>5. Types'
    <2>1. ctl' \in Ctl BY <1>1 DEF Ctl
    <2>2. QED BY <1>1, <1>3, <2>1 DEF Types
<1>6. Marks' BY <1>1, <1>2, <1>3 DEF Marks, One, NotStarted
<1>7. Future'
    <2>1. \A g \in Gens : g > gen => g # gen BY <1>2 DEF Gens
    <2>2. QED BY <1>1, <1>3, <2>1 DEF Future, NotStarted
<1>8. Stage'
    <2>1. writer'[gen] = "none" BY <1>1, <1>2 DEF NotStarted
    <2>2. fd = gen \/ (fd < gen /\ IoEnded(fd)')
        <3>1. fd < gen => fd # gen BY <1>2 DEF Gens
        <3>2. QED BY <1>1, <1>2, <1>3, <3>1 DEF IoEnded
    <2>3. QED BY <1>1, <1>2, <2>1, <2>2 DEF Stage, Holding, Swapping, Joining, Undoing
<1>9. ClosedUnused'
    <2>1. \A g \in (1..gen \ open) : g \in Gens /\ g # gen BY <1>2 DEF Gens
    <2>2. \A g \in Gens : g # gen => IoEnded(g)' = IoEnded(g) BY <1>1, <1>3 DEF IoEnded
    <2>3. QED BY <1>1, <2>1, <2>2 DEF ClosedUnused
<1>10. Receiver' BY <1>1, <1>2 DEF Receiver
<1>11. Channel' BY <1>1, SameChannel
<1>12. QED BY <1>4, <1>5, <1>6, <1>7, <1>8, <1>9, <1>10, <1>11

\* spawn_io retires that reader up to its join; the receiver goes with the writer's closure.
LEMMA UndoInv ==
    ASSUME IInv, UndoLive \/ UndoWake
    PROVE  IInv'
<1> USE DEF IInv
<1>1. /\ ctl \in Undoing /\ ctl' \in {"undoWake", "undoWait"}
      /\ rx' = rx \/ (rx' = Dropped /\ rx = 0)
      /\ UNCHANGED <<running, io, fd, gen, open, abandoned, reader, writer, hand, marks, wq, sent,
             node, bridge, inq, outq, taken>>
    BY DEF UndoLive, UndoWake, chan, Undoing, Stage
<1>2. io = 0 BY <1>1, Places DEF Stage, Undoing
<1>3. Flags'
    <2>1. CASE UndoLive BY <2>1, FlagsSet DEF UndoLive
    <2>2. CASE UndoWake BY <2>2, FlagsSet DEF UndoWake
    <2>3. QED BY <2>1, <2>2
<1>4. Types'
    <2>1. ctl' \in Ctl BY <1>1 DEF Ctl
    <2>2. QED BY <1>1, <2>1 DEF Types
<1>5. Future' BY <1>1 DEF Future, NotStarted
<1>6. Stage'
    <2>1. IoEnded(fd)' = IoEnded(fd) BY <1>1 DEF IoEnded
    <2>2. writer'[gen'] = "none" /\ gen' \in open' /\ (fd' = gen' \/ (fd' < gen' /\ IoEnded(fd)'))
        BY <1>1, <2>1 DEF Stage
    <2>3. QED BY <1>1, <1>2, <2>2 DEF Stage, Holding, Swapping, Joining, Undoing
<1>7. ClosedUnused' BY <1>1 DEF ClosedUnused, IoEnded
<1>8. Receiver'
    <2>1. rx = 0 => \A h \in Gens : writer[h] \in Ended BY DEF Receiver, Gens
    <2>2. QED BY <1>1, <1>2, <2>1 DEF Receiver
<1>9. Marks' /\ Channel' BY <1>1, SameChannel DEF Marks
<1>10. QED BY <1>3, <1>4, <1>5, <1>6, <1>7, <1>8, <1>9

\* The reader has been joined: the caller closes the fd, of a failed start or a failed swap.
LEMMA UndoJoinInv ==
    ASSUME IInv, UndoJoin
    PROVE  IInv'
<1> USE DEF IInv
<1>1. /\ ctl = "undoWait" /\ reader[gen] = "done" /\ open' = open \ {gen}
      /\ (gen = fd /\ ctl' = "failed") \/ (gen # fd /\ ctl' = "swapFailed")
      /\ node' \in {node, "stopping"}
      /\ UNCHANGED <<running, io, fd, gen, abandoned, live, woken, reader, writer, hand, marks, rx, wq, sent,
             bridge, inq, outq, taken>>
    BY DEF UndoJoin, TellNode, threads, chan
<1>2. IoEnded(gen) /\ io = 0 /\ (gen # fd => IoEnded(fd))
    BY <1>1, Places DEF Stage, Undoing, IoEnded, Ended
<1>3. Flags' BY <1>1, FlagsKept
<1>4. Types'
    <2>1. ctl' \in Ctl BY <1>1 DEF Ctl
    <2>2. QED BY <1>1, <2>1 DEF Types
<1>5. Future' BY <1>1 DEF Future, NotStarted
<1>6. Stage'
    <2>1. gen # fd => Retired(fd)' BY <1>1, <1>2 DEF Retired, IoEnded
    <2>2. QED BY <1>1, <1>2, <2>1 DEF Stage, Holding, Swapping, Joining, Undoing
<1>7. ClosedUnused'
    <2>1. \A g : IoEnded(g)' = IoEnded(g) BY <1>1 DEF IoEnded
    <2>2. \A g \in (1..gen \ open') : g \in (1..gen \ open) \/ g = gen BY <1>1
    <2>3. QED BY <1>1, <1>2, <2>1, <2>2 DEF ClosedUnused
<1>8. Marks' /\ Receiver' /\ Channel' BY <1>1, ThreadsKept
<1>9. QED BY <1>3, <1>4, <1>5, <1>6, <1>7, <1>8

\* Pump::join is past its waits; stop_locked closes the fd once the node is gone.
LEMMA JoinInv ==
    ASSUME IInv, JoinBridge \/ JoinNode
    PROVE  IInv'
<1> USE DEF IInv
<1>1. /\ \/ ctl = "joinBridge" /\ ctl' = "joinNode" /\ open' = open
         \/ ctl = "joinNode" /\ ctl' = "stopped" /\ open' = open \ {fd}
      /\ UNCHANGED <<running, io, fd, gen, abandoned, live, woken, reader, writer, hand, marks, rx, wq, sent,
             node, bridge, inq, outq, taken>>
    BY DEF JoinBridge, JoinNode, CtlGoes, threads, chan, Others
<1>2. Retired(fd) /\ io = 0 BY <1>1, Places DEF Stage
<1>3. Flags' BY <1>1, FlagsKept
<1>4. Types'
    <2>1. ctl' \in Ctl BY <1>1 DEF Ctl
    <2>2. QED BY <1>1, <2>1 DEF Types
<1>5. Future' BY <1>1 DEF Future, NotStarted
<1>6. Stage'
    <2>1. Retired(fd)' BY <1>1, <1>2 DEF Retired, IoEnded
    <2>2. QED BY <1>1, <1>2, <2>1 DEF Stage, Holding, Swapping, Joining, Undoing
<1>7. ClosedUnused'
    <2>1. \A g : IoEnded(g)' = IoEnded(g) BY <1>1 DEF IoEnded
    <2>2. \A g \in (1..gen \ open') : g \in (1..gen \ open) \/ g = fd BY <1>1
    <2>3. QED BY <1>1, <1>2, <2>1, <2>2 DEF ClosedUnused, Retired
<1>8. Marks' /\ Receiver' /\ Channel' BY <1>1, ThreadsKept
<1>9. QED BY <1>3, <1>4, <1>5, <1>6, <1>7, <1>8

-----------------------------------------------------------------------------
\* Every step keeps the invariant.
LEMMA NextIInv == IInv /\ [Next]_vars => IInv'
<1> SUFFICES ASSUME IInv, [Next]_vars PROVE IInv' OBVIOUS
<1>1. CASE UNCHANGED vars
    <2>1. UNCHANGED <<running, live, woken, reader, writer, hand, marks, wq, rx, bridge, inq, outq,
              node, io, fd, gen, open, ctl, abandoned, sent, taken>>
        BY <1>1 DEF vars
    <2>2. Flags' BY <2>1, FlagsKept DEF IInv
    <2>3. Marks' /\ Receiver' /\ Channel' BY <2>1, ThreadsKept DEF IInv
    <2>4. Future' /\ Stage' /\ ClosedUnused' BY <2>1, EngineKept DEF IInv, EngineSame
    <2>5. Types' BY <2>1 DEF IInv, Types
    <2>6. QED BY <2>2, <2>3, <2>4, <2>5 DEF IInv
<1>2. CASE Control
    BY <1>2, SpawnInv, SpawnIoFailsInv, SpawnBridgeFailsInv, SwapBeginInv, StopBeginInv, StopIoStepInv,
       StopIoJoinedInv, StopIoTimeoutInv, SwapSpawnInv, SwapIoFailsInv, ReaderAloneInv, UndoInv, UndoJoinInv, JoinInv
    DEF Control
<1>3. CASE \E g \in Gens : ReaderStep(g) \/ WriterStep(g) BY <1>3, ReaderInv, WriterInv
<1>4. CASE BridgeStep \/ NodeStep \/ OtherSend BY <1>4, OtherInv
<1>5. QED BY <1>1, <1>2, <1>3, <1>4 DEF Next

\* The inductive invariant holds in every reachable state of the pump.
THEOREM Invariance == Spec => []IInv
<1>1. QED BY InitIInv, NextIInv, PTL DEF Spec

\* Every reachable state of the pump is of its type, for any number of tunnels and packets.
THEOREM TypeCorrect == Spec => []TypeOK
<1>1. IInv => TypeOK BY DEF IInv, Flags, Types, TypeOK
<1>2. QED BY <1>1, Invariance, PTL

\* However often the fd is swapped and whatever fails, swap_tun_locked and stop_locked
\* close a tunnel fd only when its reader and writer have ended, or were given up on.
THEOREM NoFdClosedInUse == Spec => []ClosedUnused
<1>1. IInv => ClosedUnused BY DEF IInv
<1>2. QED BY <1>1, Invariance, PTL

\* The packets sent into the writer channel cross any number of swaps in order, none lost and
\* none twice, whatever sentinels the generations left in the channel.
THEOREM PacketsKeepOrder == Spec => []InOrder
<1>1. ASSUME IInv PROVE InOrder
    <2> DEFINE held == {g \in Gens : hand[g] # 0}
    <2> DEFINE queued == {i \in DOMAIN wq : wq[i] # Sentinel}
    <2>1. Len(taken) \in Nat /\ Len(sent) \in Nat /\ hand \in [Gens -> 0..MaxSends]
        BY <1>1, ChannelTypes DEF IInv
    <2>2. \A g \in Gens, h \in Gens : hand[g] # 0 /\ hand[h] # 0 => g = h BY <1>1 DEF IInv, Receiver, Ended
    <2>3. \A g \in Gens : hand[g] # 0 => hand[g] = Len(taken) + 1 BY <1>1 DEF IInv, Channel
    <2>4. Contents(wq) = Out + 1 .. Len(sent) /\ Sorted(wq) /\ Out <= Len(sent) BY <1>1 DEF IInv, Channel
    <2>8. {wq[i] : i \in queued} = Contents(wq) BY DEF Contents, Queued
    <2>9. \A i \in queued : wq[i] \in Contents(wq) BY <2>8
    <2>10. \A i, j \in queued : i < j => wq[i] < wq[j] BY <2>4 DEF Sorted, Queued
    <2>11. \A i \in DOMAIN taken : taken[i] = i BY <1>1 DEF IInv, Channel
    <2>12. \A g, h \in held : g = h BY <2>2
    <2>5. CASE Held
        <3>1. PICK f \in Gens : hand[f] # 0 BY <2>5 DEF Held
        <3>2. Out = Len(taken) + 1 BY <2>5 DEF Out, One
        <3>3. {hand[g] : g \in {g \in Gens : hand[g] # 0}} = {Len(taken) + 1} BY <2>2, <2>3, <3>1
        <3>4. {Len(taken) + 1} \cup (Len(taken) + 2 .. Len(sent)) = Len(taken) + 1 .. Len(sent)
            BY <2>1, <2>4, <3>2
        <3>5. \A p \in Contents(wq) : Len(taken) + 1 < p BY <2>1, <2>4, <3>2
        <3>6. {hand[g] : g \in held} \cup {wq[i] : i \in queued} = Len(taken) + 1 .. Len(sent)
            <4>1. Out + 1 = Len(taken) + 2 BY <2>1, <3>2
            <4>2. QED BY <2>4, <2>8, <3>3, <3>4, <4>1
        <3>7. \A g \in held, i \in queued : hand[g] < wq[i] BY <2>3, <2>9, <3>5
        <3>8. QED BY <2>10, <2>11, <2>12, <3>6, <3>7 DEF InOrder
    <2>6. CASE ~Held
        <3>1. Out = Len(taken) + 0 BY <2>6 DEF Out, One
        <3>2. \A g \in Gens : hand[g] = 0 BY <2>6 DEF Held
        <3>3. held = {} BY <3>2
        <3>4. {hand[g] : g \in held} \cup {wq[i] : i \in queued} = Len(taken) + 1 .. Len(sent)
            <4>1. Out = Len(taken) BY <2>1, <3>1
            <4>2. {hand[g] : g \in held} = {} BY <3>3
            <4>3. QED BY <2>4, <2>8, <4>1, <4>2
        <3>5. QED BY <2>10, <2>11, <2>12, <3>3, <3>4 DEF InOrder
    <2>7. QED BY <2>5, <2>6
<1>2. QED BY <1>1, Invariance, PTL
=============================================================================
