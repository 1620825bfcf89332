----------------------------- MODULE DnsProofs ------------------------------
(***************************************************************************)
(* Proofs about Dns, for any number of upstreams and flips of the flag.    *)
(*                                                                         *)
(* The four safety properties speak of the reply, which is fixed by what   *)
(* the query's thread holds when it finishes.  IInv says how it came to    *)
(* hold it: which parts of serve a pinned or a .fips name can reach, what  *)
(* is still undecided where, and what an empty legacy reply stands for.    *)
(***************************************************************************)
EXTENDS Dns, TLAPS

\* Until the task is spawned nothing is decided or fetched.
NothingYet ==
    pc \in {"route", "responder", "poll", "pending", "spawn"} =>
        outcome = "none" /\ task = "none" /\ legacy = "none"

\* .fips names stay on their own path; pins are for public names.
FipsPath ==
    /\ query.fips => ~query.names /\ pc \in {"route", "responder", "finish", "done"}
    /\ pc = "responder" => query.fips
    /\ query.pinned => query.names

\* A pinned name is never prefetched nor released early.
PinnedPath ==
    query.pinned => prefetch = "none" /\ ~denied /\ pc \notin {"decided", "look", "settle"}

\* What is decided where.
Deciding ==
    /\ pc \in {"select", "decided", "look"} => task # "none" /\ outcome = "none"
    /\ pc = "ask" /\ outcome = "none" => task # "none"
    /\ pc = "forward" => outcome \in {"legacy", "capped", "overrun"}
    /\ pc = "ask" => outcome # "answer"
    /\ pc = "settle" => outcome # "overrun" /\ (outcome = "none" => legacy # "none")
    /\ pc \in {"finish", "done"} /\ outcome # "answer" => legacy # "none"
    /\ outcome = "legacy" => task \in {"none", "legacy", "failed"}

\* A decision that came first has not been overtaken.
InTimeHeld ==
    inTime =>
        /\ task = "answer" /\ outcome \in {"none", "answer"}
        /\ outcome = "none" => pc \in {"select", "decided", "look", "ask"}
        /\ pc = "look" => legacy = "none"

\* "nothing" is the word of a thread that asked every upstream.
Exhausted ==
    /\ prefetch = "nothing" => tried.thread = NumUpstreams
    /\ legacy = "nothing" /\ ~query.fips =>
         tried.thread = NumUpstreams \/ tried.own = NumUpstreams

Replied == pc = "done" => reply = Replies

IInv ==
    /\ TypeOK /\ NothingYet /\ FipsPath /\ PinnedPath /\ PinnedStaysPrivate
    /\ Deciding /\ InTimeHeld /\ Exhausted /\ Replied

-----------------------------------------------------------------------------
\* The states serve begins in satisfy the invariant.
LEMMA InitIInv == Init => IInv
<1> SUFFICES ASSUME Init PROVE IInv
  OBVIOUS
<1>1. query \in Query /\ {validated, denied, armed, overrun, give_up, inTime} \subseteq BOOLEAN
  BY DEF Init
<1>2. 0 \in 0..NumUpstreams
  BY BoundsAssumption
<1>3. tried \in [{"thread", "own"} -> 0..NumUpstreams]
  BY <1>2 DEF Init
<1>4. reply \in [from : {"none", "mesh", "legacy", "servfail"}, capped : BOOLEAN]
  BY DEF Init, NoReply
<1>5. TypeOK
  BY <1>1, <1>3, <1>4 DEF Init, TypeOK, Pc, Settled, Results
<1> QED
  BY <1>5 DEF Init, IInv, NothingYet, FipsPath, PinnedPath, PinnedStaysPrivate, Deciding,
              InTimeHeld, Exhausted, Replied, Query

USE DEF IInv, TypeOK, Query, Pc, Settled, Results, NothingYet, FipsPath, PinnedPath,
        PinnedStaysPrivate, Deciding, InTimeHeld, Exhausted, Replied, Replies, From, NoReply,
        Goes, world, lookup, After, Decision

\* Routing, the .fips path and the lookup up to its spawn keep the invariant.
LEMMA BeginsKeep ==
    ASSUME IInv, Route \/ Responder \/ PollSettles \/ PollPends \/ Pending \/ Spawn
    PROVE  IInv'
<1>1. CASE Route
  BY <1>1 DEF Route
<1>2. CASE Responder
  BY <1>2 DEF Responder
<1>3. CASE PollSettles
  BY <1>3 DEF PollSettles
<1>4. CASE PollPends
  BY <1>4 DEF PollPends
<1>5. CASE Pending
  BY <1>5 DEF Pending
<1>6. CASE Spawn
  BY <1>6 DEF Spawn
<1> QED
  BY <1>1, <1>2, <1>3, <1>4, <1>5, <1>6

\* So do the ways the lookup's select ends.
LEMMA SelectKeeps ==
    ASSUME IInv, SelectJoined \/ SelectOverrun \/ SelectDenied
    PROVE  IInv'
<1>1. CASE SelectJoined
  BY <1>1 DEF SelectJoined
<1>2. CASE SelectOverrun
  BY <1>2 DEF SelectOverrun
<1>3. CASE SelectDenied
  BY <1>3 DEF SelectDenied
<1> QED
  BY <1>1, <1>2, <1>3

\* So does the loop of the early release.
LEMMA EarlyKeeps ==
    ASSUME IInv,
           DecidedIs \/ DecidedNot \/ LookFetched \/ LookAsks \/ LookEnds \/ LookAgain \/ Settle
    PROVE  IInv'
<1>1. CASE DecidedIs
  BY <1>1 DEF DecidedIs
<1>2. CASE DecidedNot
  BY <1>2 DEF DecidedNot
<1>3. CASE LookFetched
  BY <1>3 DEF LookFetched
<1>4. CASE LookAsks
  BY <1>4 DEF LookAsks
<1>5. CASE LookEnds
  BY <1>5 DEF LookEnds
<1>6. CASE LookAgain
  BY <1>6 DEF LookAgain
<1>7. CASE Settle
  BY <1>7 DEF Settle
<1> QED
  BY <1>1, <1>2, <1>3, <1>4, <1>5, <1>6, <1>7

\* So do asking the upstreams, from either thread, and the reply.
LEMMA AskingKeeps ==
    ASSUME IInv, PrefetchAsks \/ Ask \/ Forward \/ Finish
    PROVE  IInv'
<1>1. CASE PrefetchAsks
  BY <1>1, BoundsAssumption DEF PrefetchAsks, Asks
<1>2. CASE Ask
  BY <1>2, BoundsAssumption DEF Ask, Asks
<1>3. CASE Forward
  BY <1>3 DEF Forward
<1>4. CASE Finish
  BY <1>4 DEF Finish
<1> QED
  BY <1>1, <1>2, <1>3, <1>4

\* So do the task, the passing of time and the flag.
LEMMA WorldKeeps ==
    ASSUME IInv,
           TaskFinishes \/ UpstreamDenies \/ BudgetPasses \/ GiveUpPasses \/ SetInternetValidated
    PROVE  IInv'
<1>1. CASE TaskFinishes
  BY <1>1 DEF TaskFinishes
<1>2. CASE UpstreamDenies
  BY <1>2 DEF UpstreamDenies
<1>3. CASE BudgetPasses
  BY <1>3 DEF BudgetPasses
<1>4. CASE GiveUpPasses
  BY <1>4 DEF GiveUpPasses
<1>5. CASE SetInternetValidated
  BY <1>5 DEF SetInternetValidated
<1> QED
  BY <1>1, <1>2, <1>3, <1>4, <1>5

\* Every step keeps the invariant.
LEMMA NextIInv == IInv /\ [Next]_vars => IInv'
<1> SUFFICES ASSUME IInv, [Next]_vars PROVE IInv'
  OBVIOUS
<1>1. CASE UNCHANGED vars
  BY <1>1 DEF vars
<1>2. CASE Next
  BY <1>2, BeginsKeep, SelectKeeps, EarlyKeeps, AskingKeeps, WorldKeeps DEF Next, Serve
<1> QED
  BY <1>1, <1>2

HIDE DEF IInv, TypeOK, NothingYet, FipsPath, PinnedPath, PinnedStaysPrivate, Deciding,
         InTimeHeld, Exhausted, Replied

\* The invariant holds throughout.
THEOREM Invariance == Spec => []IInv
  BY InitIInv, NextIInv, PTL DEF Spec

\* Every reachable state of a query's thread is of its type.
THEOREM TypeCorrect == Spec => []TypeOK
<1>1. IInv => TypeOK
  BY DEF IInv
<1> QED
  BY <1>1, Invariance, PTL

\* No upstream hears of a name under a pin before its lookup has failed it, for any
\* number of upstreams and however the flag is pushed meanwhile.
THEOREM PinsArePrivate == Spec => []PinnedStaysPrivate
<1>1. IInv => PinnedStaysPrivate
  BY DEF IInv
<1> QED
  BY <1>1, Invariance, PTL

\* A decision to answer that is in before the legacy reply is what the app gets.
THEOREM DecisionWins == Spec => []DecisionFirst
<1>1. IInv => DecisionFirst
  BY DEF IInv, InTimeHeld, Replied, DecisionFirst
<1> QED
  BY <1>1, Invariance, PTL

\* A legacy reply keeps its own TTLs only for a name found not to be over fips.
THEOREM ShortLived == Spec => []UndecidedIsShortLived
<1>1. IInv => UndecidedIsShortLived
  BY DEF IInv, TypeOK, FipsPath, Deciding, Replied, UndecidedIsShortLived
<1> QED
  BY <1>1, Invariance, PTL

\* A public name is refused only when every upstream was asked in vain.
THEOREM StillReachable == Spec => []NeverUnreachable
<1>1. IInv => NeverUnreachable
  BY DEF IInv, TypeOK, Deciding, Exhausted, Replied, NeverUnreachable
<1> QED
  BY <1>1, Invariance, PTL
=============================================================================
