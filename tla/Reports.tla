------------------------------- MODULE Reports -------------------------------
(***************************************************************************)
(* The calculations of the server and of the dashboard that keep no state: *)
(* the fixed-window rate limiter, the figures of GET /api/metrics, of the  *)
(* analysis page and of the bot's /uptime, the error bursts and the        *)
(* findings of the analysis page, and the schedule of the health reports.  *)
(* Each is an operator; a behaviour asks for one of them with some input,  *)
(* and the properties compare its value with what it is for.               *)
(***************************************************************************)
EXTENDS Integers, Sequences, FiniteSets, FiniteSetsExt

VARIABLE question       \* what is asked for, and the input

NoQuestion == [kind |-> "none", input |-> <<>>]

Asked(kind) == question.kind = kind

InOrder(s) == \A i, j \in DOMAIN s : i < j => s[i] <= s[j]

\* sort((a, b) => a - b)
Sorted(s) ==
    LET p == CHOOSE p \in Bijection(DOMAIN s, DOMAIN s) : InOrder([i \in DOMAIN s |-> s[p[i]]])
    IN  [i \in DOMAIN s |-> s[p[i]]]

SeqsUpTo(S, n) == UNION {[1..k -> S] : k \in 0..n}

-----------------------------------------------------------------------------
(* The rate limiter (worker/src/middleware/rate-limit.ts), for the requests *)
(* of one address at the times of `arrivals', in order.                     *)

CONSTANTS
    Window,         \* windowMs
    MaxRequests     \* maxRequests

ASSUME LimiterOK == Window \in Nat /\ MaxRequests \in Nat

\* An entry that is still used as if its window had not ended.
NeverStale(entry, now) == FALSE

\* A window that has passed: the entry is swept, or replaced.
Stale(entry, now) == now - entry.start > Window

\* rateLimit: the request is counted, refused or not.
Limit(entry, now) ==
    IF entry.count = 0 \/ Stale(entry, now)
    THEN [count |-> 1, start |-> now]
    ELSE [entry EXCEPT !.count = @ + 1]

NoEntry == [count |-> 0, start |-> 0]

\* The entry each request leaves, and whether the request passes.
Entries(arrivals) ==
    LET entry[i \in DOMAIN arrivals] ==
            Limit(IF i = 1 THEN NoEntry ELSE entry[i-1], arrivals[i])
    IN  entry
Admitted(arrivals) == [i \in DOMAIN arrivals |-> Entries(arrivals)[i].count <= MaxRequests]

\* No stretch of the length of a window lets more than twice the limit pass (two
\* windows may meet in it), and a request is refused only when as many as the limit
\* passed in the stretch before it: refused requests do not prolong the refusal.
LimiterBound ==
    Asked("arrivals") =>
        LET a == question.input
            ok == Admitted(a)
            Passed(from, to) == Cardinality({i \in DOMAIN a : ok[i] /\ a[i] \in from..to})
        IN  \A i \in DOMAIN a :
                /\ Passed(a[i] - Window, a[i]) <= 2 * MaxRequests
                /\ ~ok[i] => Passed(a[i] - Window, a[i]) >= MaxRequests

-----------------------------------------------------------------------------
(* GET /api/metrics/:id (worker/src/api/metrics.ts): the percentiles.       *)

\* The rank of the p-th percentile, counted from one.
Rank(n, p) == (n * p) \div 100 + 1

\* sorted[Math.floor(sorted.length * p)] || 0
Percentile(rtts, p) ==
    LET n == Len(rtts) IN IF Rank(n, p) > n THEN 0 ELSE Sorted(rtts)[Rank(n, p)]

\* The percentiles are values that were measured, with at least the share of the
\* pings they promise at or below them, and no greater share strictly below.
PercentilesRight ==
    Asked("rtts") =>
        \A p \in {50, 95, 99} :
            LET rtts == question.input
                v == Percentile(rtts, p)
                Number(T(_)) == Cardinality({i \in DOMAIN rtts : T(rtts[i])})
            IN  /\ \E i \in DOMAIN rtts : rtts[i] = v
                /\ 100 * Number(LAMBDA x : x <= v) >= p * Len(rtts)
                /\ 100 * Number(LAMBDA x : x < v) <= p * Len(rtts)

-----------------------------------------------------------------------------
(* The packet loss, which three parts of the program work out from the same *)
(* rows of ping_results; as a fraction <<part, whole>>.                     *)

Directions == {"cf_to_client", "client_to_cf"}
Ping == [direction : Directions, status : {"ok", "timeout"}]

Count(pings, dirs, status) ==
    Cardinality({i \in DOMAIN pings : pings[i].direction \in dirs /\ pings[i].status = status})

\* metrics.ts: everything that is not "ok".
MetricsLoss(pings) == <<Len(pings) - Count(pings, Directions, "ok"), Len(pings)>>

\* FullAnalysisReport, from ping_stats, which groups by direction and status.
AnalysisLoss(pings) ==
    LET cfTo == Count(pings, {"cf_to_client"}, "ok")
        toCf == Count(pings, {"client_to_cf"}, "ok")
        timeouts == Count(pings, Directions, "timeout")
    IN  <<timeouts, cfTo + toCf + timeouts>>

\* The bot's /uptime answers the complement.
UptimeLoss(pings) == <<Len(pings) - Count(pings, Directions, "ok"), Len(pings)>>

\* The overview, the analysis page and the bot tell the user the same loss.
LossAgrees ==
    Asked("pings") =>
        /\ MetricsLoss(question.input) = AnalysisLoss(question.input)
        /\ MetricsLoss(question.input) = UptimeLoss(question.input)

-----------------------------------------------------------------------------
(* The analysis page (dashboard FullAnalysisReport.tsx).                    *)

CONSTANTS
    Gap,            \* the 120 s between the errors of a burst
    Burst           \* the 3 errors a burst has at least

ASSUME BurstOK == Gap \in Nat /\ Burst \in Nat \ {0}

\* An error whose distance is measured from the first of its burst.
SinceStart(burst, t) == t - burst.start <= Gap
Joins(burst, t) == t - burst.end <= Gap

\* detectErrorBursts, of the times of the errors: the burst each of them is the last of
\* so far; one that the next error does not join is done, and dropped if it is short.
BurstsSoFar(s) ==
    LET burst[k \in DOMAIN s] ==
            IF k > 1 /\ Joins(burst[k-1], s[k])
            THEN [start |-> burst[k-1].start, end |-> s[k], count |-> burst[k-1].count + 1]
            ELSE [start |-> s[k], end |-> s[k], count |-> 1]
    IN  burst
DetectErrorBursts(errors) ==
    LET s == Sorted(errors)
        Done(k) == k = Len(s) \/ ~Joins(BurstsSoFar(s)[k], s[k+1])
    IN  {BurstsSoFar(s)[k] : k \in {i \in DOMAIN s : Done(i) /\ BurstsSoFar(s)[i].count >= Burst}}

\* The bursts are the longest runs of errors with no pause above Gap in them, those
\* of at least three errors, whatever the order the errors come in.
BurstsMaximal ==
    Asked("errors") =>
        LET errors == question.input
            Within(a, b) == {i \in DOMAIN errors : errors[i] \in a..b}
            Quiet(a, b) == Within(a, b) = {}
            Run(a, b) ==
                /\ ~Quiet(a, a) /\ ~Quiet(b, b)
                /\ Quiet(a - Gap, a - 1) /\ Quiet(b + 1, b + Gap)
                /\ \A t \in a..(b - 1) : ~Quiet(t, t) => ~Quiet(t + 1, t + Gap)
            times == {errors[i] : i \in DOMAIN errors}
        IN  DetectErrorBursts(errors) =
                {b \in [start : times, end : times, count : Burst..Len(errors)] :
                    /\ b.start <= b.end
                    /\ Run(b.start, b.end)
                    /\ b.count = Cardinality(Within(b.start, b.end))}

\* What the page is given: `latency' of the alerts are about the latency, `up' and
\* `down' are the average round trips of the pings of either direction, 0 if there are
\* none, and `speeds' are the downloads of the full speed tests.
Analyses ==
    {data \in [ok : {0, 1, 1999, 2000}, timeouts : 0..1, outages : 0..1, bursts : 0..1,
               latency : {0, 11}, alerts : {0, 5, 11}, up : {30, 32}, down : {0, 20},
               speeds : SUBSET {0, 4, 9}] :
        data.alerts >= data.latency}

\* The loss as the page shows it: a percentage with one decimal, here in tenths.
ShownLoss(data) ==
    LET whole == data.ok + data.timeouts
    IN  IF whole = 0 THEN 0 ELSE (2000 * data.timeouts + whole) \div (2 * whole)

\* How much slower the one direction is than the other, in tenths as well.
ShownRatio(data) ==
    IF data.down = 0 THEN 0 ELSE (20 * data.up + data.down) \div (2 * data.down)

Healthy(data) == ShownLoss(data) = 0 /\ data.alerts <= 5 /\ data.outages = 0

\* The findings the page writes out.
Findings(data) ==
    (IF ShownRatio(data) > 15 THEN {"asymmetry"} ELSE {})
        \cup (IF data.outages > 0 THEN {"outages"} ELSE {})
        \cup (IF data.bursts > 0 THEN {"bursts"} ELSE {})
        \cup (IF data.latency > 10 THEN {"latency"} ELSE {})
        \cup (IF /\ Cardinality(data.speeds) >= 2
                 /\ Max(data.speeds) > 0 /\ 2 * Min(data.speeds) < Max(data.speeds)
              THEN {"speed"} ELSE {})
        \cup (IF Healthy(data) THEN {"healthy"} ELSE {})

\* "Connection is healthy" stands beside no finding about outages or latency alerts,
\* and beside a loss below one ping in two thousand only, which the page rounds to none.
\* (It may stand beside asymmetry, bursts and varying speeds.)
HealthyTruthful ==
    Asked("analysis") /\ "healthy" \in Findings(question.input) =>
        /\ {"outages", "latency"} \cap Findings(question.input) = {}
        /\ 2000 * question.input.timeouts <= question.input.ok + question.input.timeouts

-----------------------------------------------------------------------------
(* generateHealthReports (worker/src/index.ts): the cron runs every six     *)
(* hours; time is counted in its ticks, tick 0 a Monday at 00 UTC.          *)

Schedules == {"off", "6h", "daily", "weekly"}
Hour(tick) == (6 * tick) % 24
Monday(tick) == (tick \div 4) % 7 = 0

Due(schedule, tick) ==
    /\ schedule # "off"
    /\ schedule = "daily" => Hour(tick) = 0
    /\ schedule = "weekly" => Hour(tick) = 0 /\ Monday(tick)

\* windowMs, in ticks.
ReportWindow(schedule) ==
    CASE schedule = "weekly" -> 28 [] schedule = "6h" -> 1 [] OTHER -> 4

\* The reports of a schedule follow each other without a gap and without an overlap:
\* between the first and the last one every tick is in the window of exactly one.
DigestsTile ==
    Asked("schedule") /\ question.input # "off" =>
        LET schedule == question.input
            due == {t \in 0..84 : Due(schedule, t)}
        IN  \A t \in Min(due)..(Max(due) - 1) :
                Cardinality({r \in due : t \in (r - ReportWindow(schedule))..(r - 1)}) = 1

-----------------------------------------------------------------------------
\* What the server and the page work out is what it is taken for: the
\* percentiles, the loss, the bursts, the findings and the reports' windows.
CalculationsRight ==
    /\ PercentilesRight
    /\ LossAgrees
    /\ BurstsMaximal
    /\ HealthyTruthful
    /\ DigestsTile

-----------------------------------------------------------------------------
CONSTANT MaxInput       \* bound on the length of an input

ASSUME InputsOK == MaxInput \in Nat

Ask(kind, input) == question' = [kind |-> kind, input |-> input]

AskAnything ==
    /\ Asked("none")
    /\ \/ \E a \in SeqsUpTo(0..(2 * Window + 1), 2 * MaxRequests + 1) :
             InOrder(a) /\ Ask("arrivals", a)
       \/ \E rtts \in SeqsUpTo(1..3, MaxInput) \ {<<>>} : Ask("rtts", rtts)
       \/ \E pings \in SeqsUpTo(Ping, MaxInput) : Ask("pings", pings)
       \/ \E errors \in SeqsUpTo(0..(2 * Gap + 1), MaxInput) : Ask("errors", errors)
       \/ \E data \in Analyses : Ask("analysis", data)
       \/ \E schedule \in Schedules : Ask("schedule", schedule)

Answered == ~Asked("none") /\ question' = NoQuestion
=============================================================================
