-------------------------------- MODULE Dns ---------------------------------
(***************************************************************************)
(* One intercepted DNS query: DnsProxy::serve of shim/src/dns.rs with the  *)
(* public-names lookup of shim/src/names.rs, its spawned task, the thread  *)
(* that fetches the legacy answer ahead (prefetch), and the flag           *)
(* VpnService pushes while all of it runs.                                 *)
(*                                                                         *)
(* A reply is where it came from and whether its TTLs are capped; the      *)
(* library's decision, the responder and the upstreams are external.       *)
(***************************************************************************)
EXTENDS Integers

CONSTANTS
    NumUpstreams,   \* upstream resolvers, tried in order
    MaxFlips,       \* bound: changes of the validated flag
    Failures        \* which of "spawn" (no prefetch thread), "responder", "upstream" happen

ASSUME BoundsAssumption == {NumUpstreams, MaxFlips} \subseteq Nat
ASSUME FailuresAssumption == Failures \subseteq {"spawn", "responder", "upstream"}

\* What serve branches on: a .fips name, whether the lookup is asked, a pinned domain above the
\* name, and a message long enough for a SERVFAIL.
Query == [fips : BOOLEAN, names : BOOLEAN, pinned : BOOLEAN, whole : BOOLEAN]

Settled == {"answer", "legacy", "capped"}
Results == Settled \cup {"failed"}

VARIABLES
    query,
    validated,  \* PhoneTxt.probes(): a validated Internet, by the TXT timeout
    flips,
    pc,         \* the query's thread
    task,       \* the spawned lookup: "none", "running" or its result
    denied,     \* an upstream denied the record for every candidate domain
    armed,      \* the select waits for that denial
    overrun,    \* BUDGET has passed since the lookup was spawned
    give_up,    \* BUDGET has passed since the early release
    outcome,    \* the lookup's outcome: "none" while undecided, "overrun": Capped by BUDGET
    prefetch,   \* the fetching thread: "none", "running", "dead", or what it sent
    tried,      \* upstreams the fetching thread and the query's own have given up on
    legacy,     \* the upstreams' reply in the query's hands: "none", "answer", "nothing"
    inTime,     \* history: the decision to answer came before any other
    reply       \* what was sent to the app

world == <<query, validated, flips>>
lookup == <<task, denied, armed, overrun, give_up, inTime>>
vars == <<world, lookup, pc, outcome, prefetch, tried, legacy, reply>>

Pc == {"route", "responder", "poll", "pending", "spawn", "select", "decided", "look", "ask",
       "settle", "forward", "finish", "done"}
NoReply == [from |-> "none", capped |-> FALSE]
From(f) == [from |-> f, capped |-> FALSE]

\* A message without a whole header has no name, so neither a .fips one nor a pin.
Init ==
    /\ query \in {q \in Query : (q.fips => q.whole /\ ~q.names) /\ (q.pinned => q.names /\ q.whole)}
    /\ validated \in BOOLEAN /\ flips = 0
    /\ pc = "route" /\ task = "none" /\ denied = FALSE /\ armed = FALSE
    /\ overrun = FALSE /\ give_up = FALSE /\ outcome = "none"
    /\ prefetch = "none" /\ tried = [who \in {"thread", "own"} |-> 0]
    /\ legacy = "none" /\ inTime = FALSE /\ reply = NoReply

Goes(l) == pc' = l

-----------------------------------------------------------------------------
(* serve: .fips names.                                                     *)

Route ==
    /\ pc = "route"
    /\ Goes(IF query.fips THEN "responder" ELSE IF query.names THEN "poll" ELSE "forward")
    /\ outcome' = IF query.fips \/ query.names THEN "none" ELSE "legacy"
    /\ UNCHANGED <<world, lookup, prefetch, tried, legacy, reply>>

\* The responder is asked for the name, or for the npub the hosts file has for it, whose
\* reply is re-issued under the asked name; either may fail.
Responder ==
    /\ pc = "responder"
    /\ \/ legacy' = "answer"
       \/ "responder" \in Failures /\ legacy' = "nothing"
    /\ Goes("finish")
    /\ UNCHANGED <<world, lookup, outcome, prefetch, tried, reply>>

-----------------------------------------------------------------------------
(* Names::lookup.                                                          *)

\* What settled() and decided() make of a result; a task that failed is Legacy.
Decision(r) == IF r = "failed" THEN "legacy" ELSE r

After(o) == IF o = "answer" THEN "finish" ELSE "forward"

\* The first poll settles a cached decision and what is no hostname.
PollSettles ==
    /\ pc = "poll"
    /\ outcome' \in IF query.whole THEN Settled ELSE {"legacy"}
    /\ Goes(After(outcome'))
    /\ UNCHANGED <<world, lookup, prefetch, tried, legacy, reply>>

PollPends ==
    /\ pc = "poll" /\ query.whole
    /\ Goes("pending")
    /\ UNCHANGED <<world, lookup, outcome, prefetch, tried, legacy, reply>>

\* A mutant of Pending: the pins are not looked at.
PendingPinned ==
    /\ pc = "pending"
    /\ prefetch' \in IF ~validated THEN {"none"}
                     ELSE {"running"} \cup (IF "spawn" \in Failures THEN {"dead"} ELSE {})
    /\ Goes("spawn")
    /\ UNCHANGED <<world, lookup, outcome, tried, legacy, reply>>

\* pending() starts the fetching thread; one that cannot be spawned leaves a
\* disconnected channel.
Pending ==
    /\ pc = "pending"
    /\ prefetch' \in IF ~validated \/ query.pinned THEN {"none"}
                     ELSE {"running"} \cup (IF "spawn" \in Failures THEN {"dead"} ELSE {})
    /\ Goes("spawn")
    /\ UNCHANGED <<world, lookup, outcome, tried, legacy, reply>>

\* The lookup goes on in a task; the flag is read again for the select.
Spawn ==
    /\ pc = "spawn"
    /\ task' = "running" /\ armed' = validated
    /\ Goes("select")
    /\ UNCHANGED <<world, denied, overrun, give_up, inTime, outcome, prefetch, tried, legacy, reply>>

\* The select is biased: a finished task comes first, then the budget.
SelectJoined ==
    /\ pc = "select" /\ task # "running"
    /\ outcome' = Decision(task)
    /\ Goes(After(outcome'))
    /\ UNCHANGED <<world, lookup, prefetch, tried, legacy, reply>>

SelectOverrun ==
    /\ pc = "select" /\ task = "running" /\ overrun
    /\ outcome' = "overrun"
    /\ Goes("forward")
    /\ UNCHANGED <<world, lookup, prefetch, tried, legacy, reply>>

\* Outcome::Early; serve begins with a first look at the decision.
SelectDenied ==
    /\ pc = "select" /\ task = "running" /\ ~overrun /\ armed /\ denied
    /\ Goes("decided")
    /\ UNCHANGED <<world, lookup, outcome, prefetch, tried, legacy, reply>>

-----------------------------------------------------------------------------
(* serve: the early release.                                               *)

\* decided(wait) finds the task finished, or not within its wait.
DecidedIs ==
    /\ pc = "decided" /\ task # "running"
    /\ outcome' = Decision(task)
    /\ Goes("settle")
    /\ UNCHANGED <<world, lookup, prefetch, tried, legacy, reply>>

DecidedNot ==
    /\ pc = "decided" /\ task = "running"
    /\ Goes("look")
    /\ UNCHANGED <<world, lookup, outcome, prefetch, tried, legacy, reply>>

\* No legacy reply yet: the prefetched one, or the query's own.
LookFetched ==
    /\ pc = "look" /\ legacy = "none"
    /\ prefetch \notin {"none", "dead"}
    /\ legacy' = IF prefetch = "running" THEN "none" ELSE prefetch
    /\ Goes("decided")
    /\ UNCHANGED <<world, lookup, outcome, prefetch, tried, reply>>

LookAsks ==
    /\ pc = "look" /\ legacy = "none"
    /\ prefetch \in {"none", "dead"}
    /\ Goes("ask")
    /\ UNCHANGED <<world, lookup, outcome, prefetch, tried, legacy, reply>>

\* A mutant of LookEnds: give_up is not looked at.
LookEndsNever ==
    /\ pc = "look" /\ legacy = "answer"
    /\ Goes("settle")
    /\ UNCHANGED <<world, lookup, outcome, prefetch, tried, legacy, reply>>

\* The legacy reply is in, or the upstreams gave nothing and the wait is over.
LookEnds ==
    /\ pc = "look"
    /\ legacy = "answer" \/ (legacy = "nothing" /\ give_up)
    /\ Goes("settle")
    /\ UNCHANGED <<world, lookup, outcome, prefetch, tried, legacy, reply>>

LookAgain ==
    /\ pc = "look" /\ legacy = "nothing" /\ ~give_up
    /\ Goes("decided")
    /\ UNCHANGED <<world, lookup, outcome, prefetch, tried, legacy, reply>>

\* A mutant of Settle: a legacy reply already in hand is sent before the decision.
SettleLegacy ==
    /\ pc = "settle"
    /\ outcome' = IF legacy = "answer" THEN "none" ELSE outcome
    /\ Goes(IF outcome' \in {"legacy", "capped"} /\ legacy = "none" THEN "forward" ELSE "finish")
    /\ UNCHANGED <<world, lookup, prefetch, tried, legacy, reply>>

\* The decision, with the legacy reply fetched first if it needs one.
Settle ==
    /\ pc = "settle"
    /\ Goes(IF outcome \in {"legacy", "capped"} /\ legacy = "none" THEN "forward" ELSE "finish")
    /\ UNCHANGED <<world, lookup, outcome, prefetch, tried, legacy, reply>>

-----------------------------------------------------------------------------
(* The upstreams.                                                          *)

\* forward_upstreams, one exchange: a reply, none in time, or none left to ask.
Asks(who, l) ==
    \/ tried[who] < NumUpstreams /\ l = "answer" /\ UNCHANGED tried
    \/ /\ tried[who] < NumUpstreams /\ "upstream" \in Failures
       /\ l = "none" /\ tried' = [tried EXCEPT ![who] = @ + 1]
    \/ tried[who] = NumUpstreams /\ l = "nothing" /\ UNCHANGED tried

PrefetchAsks ==
    /\ prefetch = "running"
    /\ \E l \in {"none", "answer", "nothing"} :
         Asks("thread", l) /\ prefetch' = IF l = "none" THEN "running" ELSE l
    /\ UNCHANGED <<world, lookup, pc, outcome, legacy, reply>>

\* The query's own thread asks: back to the decision when it has none yet.
Ask ==
    /\ pc = "ask"
    /\ \E l \in {"none", "answer", "nothing"} : Asks("own", l) /\ legacy' = l
    /\ Goes(IF legacy' = "none" THEN "ask" ELSE IF outcome = "none" THEN "decided" ELSE "finish")
    /\ UNCHANGED <<world, lookup, outcome, prefetch, reply>>

\* A mutant of Forward: a fetching thread that died has no answer.
ForwardDead ==
    /\ pc = "forward" /\ prefetch # "running"
    /\ legacy' = CASE prefetch = "dead" -> "nothing" [] prefetch = "none" -> "none" [] OTHER -> prefetch
    /\ Goes(IF legacy' = "none" THEN "ask" ELSE "finish")
    /\ UNCHANGED <<world, lookup, outcome, prefetch, tried, reply>>

\* forward: recv waits for the fetching thread; a dead one is replaced by our own asking.
Forward ==
    /\ pc = "forward" /\ prefetch # "running"
    /\ legacy' = IF prefetch \in {"none", "dead"} THEN "none" ELSE prefetch
    /\ Goes(IF legacy' = "none" THEN "ask" ELSE "finish")
    /\ UNCHANGED <<world, lookup, outcome, prefetch, tried, reply>>

-----------------------------------------------------------------------------
\* A mutant of Replies: an undecided name's reply is not capped.
RepliesLong ==
    IF outcome = "answer" THEN From("mesh")
    ELSE IF legacy = "answer" THEN [from |-> "legacy", capped |-> outcome \in {"capped", "overrun"}]
    ELSE IF query.whole THEN From("servfail") ELSE NoReply

\* The reply: a synthesized answer, the upstreams' (or the responder's) with its TTLs
\* capped while the name is undecided or its server unreachable (one clamp_ttls cannot
\* parse, which goes out as it came, is left out), a SERVFAIL, or nothing for a message
\* that has no header.
Replies ==
    IF outcome = "answer" THEN From("mesh")
    ELSE IF legacy = "answer"
         THEN [from |-> "legacy", capped |-> ~query.fips /\ outcome # "legacy"]
    ELSE IF query.whole THEN From("servfail") ELSE NoReply

Finish ==
    /\ pc = "finish"
    /\ reply' = Replies
    /\ Goes("done")
    /\ UNCHANGED <<world, lookup, outcome, prefetch, tried, legacy>>

-----------------------------------------------------------------------------
(* The lookup's task, time, and the flag.                                  *)

TaskFinishes ==
    /\ task = "running"
    /\ task' \in Results
    /\ inTime' = (task' = "answer" /\ legacy = "none" /\ outcome = "none")
    /\ UNCHANGED <<world, denied, armed, overrun, give_up, pc, outcome, prefetch, tried, legacy, reply>>

\* Only a domain without a pin is probed plainly, and only with a validated Internet.
UpstreamDenies ==
    /\ task = "running" /\ ~denied /\ validated /\ ~query.pinned
    /\ denied' = TRUE
    /\ UNCHANGED <<world, task, armed, overrun, give_up, inTime, pc, outcome, prefetch, tried, legacy, reply>>

BudgetPasses ==
    /\ pc = "select" /\ ~overrun
    /\ overrun' = TRUE
    /\ UNCHANGED <<world, task, denied, armed, give_up, inTime, pc, outcome, prefetch, tried, legacy, reply>>

GiveUpPasses ==
    /\ pc \in {"decided", "look", "ask"} /\ outcome = "none" /\ ~give_up
    /\ give_up' = TRUE
    /\ UNCHANGED <<world, task, denied, armed, overrun, inTime, pc, outcome, prefetch, tried, legacy, reply>>

SetInternetValidated ==
    /\ flips < MaxFlips /\ pc # "done"
    /\ validated' = ~validated /\ flips' = flips + 1
    /\ UNCHANGED <<query, lookup, pc, outcome, prefetch, tried, legacy, reply>>

Serve ==
    \/ Route \/ Responder \/ PollSettles \/ PollPends \/ Pending \/ Spawn
    \/ SelectJoined \/ SelectOverrun \/ SelectDenied
    \/ DecidedIs \/ DecidedNot \/ LookFetched \/ LookAsks \/ LookEnds \/ LookAgain \/ Settle
    \/ Ask \/ Forward \/ Finish

Next ==
    \/ Serve \/ PrefetchAsks
    \/ TaskFinishes \/ UpstreamDenies \/ BudgetPasses \/ GiveUpPasses \/ SetInternetValidated

Spec == Init /\ [][Next]_vars

\* Threads run and time passes; the lookup's task may hang for good.
FairSpec ==
    /\ Spec
    /\ WF_vars(Serve) /\ WF_vars(PrefetchAsks) /\ WF_vars(BudgetPasses) /\ WF_vars(GiveUpPasses)

-----------------------------------------------------------------------------
(* Properties.                                                             *)

\* The query's thread is at its statements, and a decision comes from where it may.
TypeOK ==
    /\ query \in Query /\ {validated, denied, armed, overrun, give_up, inTime} \subseteq BOOLEAN
    /\ pc \in Pc /\ task \in {"none", "running"} \cup Results
    /\ outcome \in {"none", "overrun"} \cup Settled
    /\ prefetch \in {"none", "running", "dead", "answer", "nothing"}
    /\ tried \in [{"thread", "own"} -> 0..NumUpstreams] /\ legacy \in {"none", "answer", "nothing"}
    /\ reply \in [from : {"none", "mesh", "legacy", "servfail"}, capped : BOOLEAN]

\* "Unresolvable upstreams must yield SERVFAIL, not silence" (dns.rs, a test of serve):
\* every query of a whole message is answered, although the lookup's task may hang, the
\* fetching thread die and every upstream time out.
Answered == <>(pc = "done" /\ (reply.from # "none" \/ ~query.whole))

\* "the upstream hears of it only when the server is not [reachable], and then after the
\* fact" (names.rs:85-90): no upstream is asked for a name under a pinned domain before
\* its lookup has ended otherwise than with an answer, or has overrun its budget.
PinnedStaysPrivate ==
    query.pinned /\ (prefetch # "none" \/ pc = "ask" \/ legacy # "none") =>
        outcome \in {"legacy", "capped", "overrun"}

\* "one that arrives before the upstream's answer is the answer, so a name over fips
\* never sits behind a slow upstream" (dns.rs:188-193): whatever the early release, the
\* prefetch and the budget make of it.
DecisionFirst == pc = "done" /\ inTime => reply.from = "mesh"

\* "so the application's resolver asks again by then instead of keeping the legacy
\* address" (names.rs:50-63): a legacy reply whose TTLs are its own is sent only when
\* the lookup said the name is not over fips, or failed.
UndecidedIsShortLived ==
    pc = "done" /\ query.names /\ reply.from = "legacy" /\ ~reply.capped =>
        task \in {"none", "legacy", "failed"}

\* "A name that is not over fips is never made unreachable by this code"
\* (names.rs:22-24): a public name fails only after every upstream was asked.
NeverUnreachable ==
    pc = "done" /\ ~query.fips /\ reply.from = "servfail" =>
        tried.thread = NumUpstreams \/ tried.own = NumUpstreams
=============================================================================
