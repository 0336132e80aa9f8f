------------------------------ MODULE Dashboard ------------------------------
(***************************************************************************)
(* The dashboard in the browser (worker/dashboard/src) and the session it  *)
(* has with the server: signing in and out, the page of a client with its  *)
(* polled metrics and its speed tests, and the analysis of that page,      *)
(* which is fetched only when it is asked for.  Requests overtake each     *)
(* other and are lost.                                                     *)
(*                                                                         *)
(* The metrics and the analysis of the page share no state but the time    *)
(* range: of one visit, the module follows the one or the other.  The      *)
(* calculations of Reports keep no state at all, and are asked for before  *)
(* the dashboard is opened.                                                *)
(***************************************************************************)
EXTENDS Reports, SequencesExt

CONSTANTS
    Attempts,       \* how often the page polls for the result of a speed test
    Older,          \* speed tests older than an hour, but not than a day
    MaxTests,       \* bound on the speed tests stored after that
    InFlight,       \* bound on the requests in flight
    MaxPosts,       \* bound on the POSTs of speed tests in flight
    Timers          \* bound on the intervals that run at a time

ASSUME DashboardOK ==
    /\ Attempts \in Nat \ {0}
    /\ Older \in Nat
    /\ MaxTests \in Nat
    /\ InFlight \in Nat \ {0}
    /\ MaxPosts \in Nat \ {0}
    /\ Timers \subseteq Nat \ {0}

VARIABLES
    path,           \* the page: "closed", "/login", "/" or "/client"
    session,        \* whether the cookie holds a token that authGuard lets pass
    authed,         \* useAuth
    me,             \* the request GET /api/auth/me: "none", "ok" or "refused"
    watch,          \* what is followed of the client's page (see above)
    range,          \* the time range that is selected
    requests,       \* the requests of useMetrics, with what the server answers
    page,           \* ClientDetail: its metrics and its speed test
    analysis,       \* ClientDetail: its analysis
    tests,          \* the speed tests stored since the dashboard was opened
    overtaken       \* the page took its result before the POST was answered (history)

browser == <<path, authed, me, watch, range, requests, page, analysis, overtaken>>
vars == <<browser, session, tests, question>>

Ranges == {"1h", "24h"}
None == "none"

\* The speed tests of a time range.
Stored(r) == tests + (IF r = "24h" THEN Older ELSE 0)

\* A request is answered by what it finds when it is sent; the answer may be late.
Request == [range : Ranges, count : 0..(MaxTests + Older), ok : BOOLEAN]

\* ClientDetail when it is mounted.
Fresh == [range |-> None, count |-> 0, running |-> FALSE, base |-> 0, post |-> 0,
          poll |-> 0, timers |-> {}]
NoAnalysis == [tab |-> "overview", asked |-> <<>>, shown |-> None, muddled |-> FALSE]

TypeOK ==
    /\ path \in {"closed", "/login", "/", "/client"}
    /\ session \in BOOLEAN
    /\ authed \in {"unknown", "yes", "no"}
    /\ me \in {"none", "ok", "refused"}
    /\ watch \in {"metrics", "analysis"}
    /\ range \in Ranges
    /\ requests \subseteq Request
    /\ page \in [range : Ranges \cup {None}, count : 0..(MaxTests + Older),
                 running : BOOLEAN, base : 0..(MaxTests + Older), post : 0..MaxPosts,
                 poll : Timers \cup {0}, timers : SUBSET [id : Timers, attempts : 0..Attempts]]
    /\ analysis \in [tab : {"overview", "analysis"}, asked : Seq(Ranges),
                     shown : Ranges \cup {None}, muddled : BOOLEAN]
    /\ tests \in 0..MaxTests
    /\ overtaken \in BOOLEAN

Init ==
    /\ path = "closed"
    /\ session \in BOOLEAN
    /\ authed = "unknown"
    /\ me = "none"
    /\ watch = "metrics"
    /\ range = "24h"
    /\ requests = {}
    /\ page = Fresh
    /\ analysis = NoAnalysis
    /\ tests = 0
    /\ overtaken = FALSE
    /\ question = NoQuestion

-----------------------------------------------------------------------------
(* The session.                                                             *)

\* A document is loaded at `to': useAuth asks who is signed in.
Load(to) ==
    /\ path' = to
    /\ authed' = "unknown"
    /\ me' = IF session THEN "ok" ELSE "refused"
    /\ range' = "24h"
    /\ requests' = {}
    /\ page' = Fresh
    /\ analysis' = NoAnalysis
    /\ overtaken' = FALSE
    /\ UNCHANGED watch

\* The page the router shows at `at' to who is signed in or not.
Routed(at, who) ==
    IF at = "/login" /\ who = "yes" THEN "/"
    ELSE IF at # "/login" /\ who = "no" THEN "/login"
    ELSE at

\* request() was answered 401: the document is loaded anew, unless it is the login page.
RoutedToLogin ==                                    \* without loading the document
    /\ path' = Routed("/login", authed)
    /\ UNCHANGED <<authed, me, watch, range, requests, page, analysis, overtaken>>
Unauthorized == Load("/login")

\* The user opens the dashboard.
Open ==
    /\ path = "closed"
    /\ Asked("none")
    /\ \E to \in {"/login", "/"} : Load(to)
    /\ UNCHANGED <<session, tests, question>>

\* useAuth: any error counts as not signed in; a 401 away from /login reloads as well.
MeAnswered ==
    /\ me # "none"
    /\ \/ /\ me = "refused"
          /\ path # "/login"
          /\ Unauthorized
       \/ /\ authed' = IF me = "ok" THEN "yes" ELSE "no"
          /\ me = "refused" => path = "/login"
          /\ path' = Routed(path, authed')
          /\ me' = "none"
          /\ UNCHANGED <<watch, range, requests, page, analysis, overtaken>>
    /\ UNCHANGED <<session, tests, question>>

\* The request fails, or the rate limiter refuses it.
MeFails ==
    /\ me # "none"
    /\ authed' = "no"
    /\ path' = Routed(path, "no")
    /\ me' = "none"
    /\ UNCHANGED <<session, tests, question, watch, range, requests, page, analysis,
                   overtaken>>

\* Login: the password is right.  A wrong one changes nothing, nor does a lost answer
\* that brings no cookie.
SignIn ==
    /\ path = "/login"
    /\ session' = TRUE
    /\ authed' = "yes"
    /\ path' = Routed(path, "yes")
    /\ UNCHANGED <<me, watch, range, requests, page, analysis, overtaken, tests, question>>

\* The token expires with its cookie, or the user signs out in another tab.
SessionEnds ==
    /\ session
    /\ session' = FALSE
    /\ UNCHANGED <<browser, tests, question>>

\* logout: the cookie is cleared, and the login page loaded.
SignOut ==
    /\ path \in {"/", "/client"} /\ authed = "yes"
    /\ session' = FALSE
    /\ path' = "/login" /\ authed' = "unknown" /\ me' = "refused"
    /\ range' = "24h" /\ requests' = {} /\ page' = Fresh /\ analysis' = NoAnalysis
    /\ overtaken' = FALSE
    /\ UNCHANGED <<watch, tests, question>>

-----------------------------------------------------------------------------
(* usePolling.                                                              *)

SignedIn == path \in {"/", "/client"} /\ authed = "yes"
OnPage == SignedIn /\ path = "/client"
Metrics == OnPage /\ watch = "metrics"

\* A request for the range r, and as if the page asked for its first range for ever.
\* Only the page of the metrics uses more of an answer than whether it is a refusal.
FirstAsked(r) == [range |-> "24h", count |-> IF Metrics THEN Stored("24h") ELSE 0, ok |-> session]
AskedFor(r) ==
    IF Metrics /\ session
    THEN [range |-> r, count |-> Stored(r), ok |-> TRUE]
    ELSE [range |-> "24h", count |-> 0, ok |-> session]

Refresh(r) == requests' = requests \cup {AskedFor(r)}
Room == Cardinality(requests) < InFlight

\* The interval of the page, or the window that becomes visible.
Poll ==
    /\ SignedIn
    /\ Room
    /\ Refresh(range)
    /\ UNCHANGED <<path, session, authed, me, watch, range, page, analysis, tests,
                   overtaken, question>>

-----------------------------------------------------------------------------
(* The speed test of ClientDetail.                                          *)

\* stopPolling, as if the interval were only forgotten.  (baseCountRef has no use before
\* the next test sets it.)
Forgotten(p) == [p EXCEPT !.poll = 0, !.running = FALSE, !.base = 0]
Stopped(p) ==
    [p EXCEPT !.timers = {t \in @ : t.id # p.poll}, !.poll = 0, !.running = FALSE, !.base = 0]

\* The effect on the number of results and on speedTestRunning.
HasResult(p) == p.running /\ p.count > p.base
Settled(p) == IF HasResult(p) THEN Stopped(p) ELSE p

\* An answer is shown, whichever range is selected by now.
Shown(p, q) == [p EXCEPT !.range = q.range, !.count = q.count]

Answer(q) ==
    /\ q \in requests
    /\ path \in {"/", "/client"}
    /\ \/ /\ ~q.ok
          /\ Unauthorized
       \/ /\ q.ok
          /\ requests' = requests \ {q}
          /\ page' = IF Metrics THEN Settled(Shown(page, q)) ELSE page
          /\ overtaken' = (overtaken \/ (Metrics /\ page.post > 0 /\ HasResult(Shown(page, q))))
          /\ UNCHANGED <<path, authed, me, watch, range, analysis>>
    /\ UNCHANGED <<session, tests, question>>

\* The request or its answer is lost, or is refused by the rate limiter: the data stay.
AnswerLost(q) ==
    /\ q \in requests
    /\ requests' = requests \ {q}
    /\ UNCHANGED <<path, session, authed, me, watch, range, page, analysis, tests,
                   overtaken, question>>

\* handleSpeedTest, up to the POST; the server sends the commands to the client at once.
\* After a result that came early, the answer to an earlier POST may still be on its way.
StartTest ==
    /\ Metrics
    /\ ~page.running
    /\ page.post < MaxPosts
    /\ page' = [page EXCEPT !.base = page.count, !.running = TRUE, !.post = @ + 1]
    /\ UNCHANGED <<path, session, authed, me, watch, range, requests, analysis, tests,
                   overtaken, question>>

\* The POST is answered: an interval is started, whatever became of the test or the page.
TestStarted ==
    /\ page.post > 0
    /\ LET free == {id \in Timers : \A t \in page.timers : t.id # id}
           id == CHOOSE i \in free : \A j \in free : i <= j
       IN  /\ free # {}
           /\ page' = [page EXCEPT !.post = @ - 1, !.poll = id,
                                   !.timers = @ \cup {[id |-> id, attempts |-> 0]}]
    /\ UNCHANGED <<path, session, authed, me, watch, range, requests, analysis, tests,
                   overtaken, question>>

TestRefused ==
    /\ page.post > 0
    /\ page' = [page EXCEPT !.post = @ - 1, !.running = FALSE, !.base = 0]
    /\ UNCHANGED <<path, session, authed, me, watch, range, requests, analysis, tests,
                   overtaken, question>>

\* attempts >= 20, of an interval that is not given up; and of one that is.
Endless(attempts) == FALSE
Exhausted(attempts) == attempts >= Attempts

\* attempts++.  The code asks only whether the last attempt was reached: attempts are
\* counted up to it, though an interval that was lost goes on for ever.
Counted(attempts) == IF attempts < Attempts THEN attempts + 1 ELSE attempts

\* An interval fires: it refreshes, and from the last attempt on stops what pollRef holds.
\* (A request above the bound counts as lost.)
Tick(id) ==
    \E t \in page.timers :
        /\ t.id = id
        /\ \/ Room /\ Refresh(range)
           \/ ~Room /\ UNCHANGED requests
        /\ LET n == Counted(t.attempts)
               counted == [page EXCEPT !.timers =
                              (@ \ {t}) \cup {[id |-> id, attempts |-> n]}]
           IN  /\ page' = IF Exhausted(n) THEN Stopped(counted) ELSE counted
               /\ overtaken' = (overtaken \/ (Exhausted(n) /\ page.post > 0))
        /\ UNCHANGED <<path, session, authed, me, watch, range, analysis, tests, question>>

\* The result of a test is stored: of the user's, of the cron's or of the client's own.
TestStored ==
    /\ tests < MaxTests
    /\ tests' = tests + 1
    /\ UNCHANGED <<browser, session, question>>

-----------------------------------------------------------------------------
(* The page of the client.                                                  *)

\* The component is mounted, with a state of its own: the intervals and POSTs that an
\* earlier visit left behind only send requests, whose answers nobody shows.  (GET /me
\* is answered before the user gets that far.)
Enter ==
    /\ SignedIn
    /\ path = "/"
    /\ me = "none"
    /\ path' = "/client"
    /\ watch' \in {"metrics", "analysis"}
    /\ page' = Fresh
    /\ requests' = {}
    /\ overtaken' = FALSE
    /\ UNCHANGED <<session, authed, me, range, analysis, tests, question>>

\* It is unmounted: the interval in pollRef is cleared, a POST in flight goes on.
Leave ==
    /\ OnPage
    /\ path' = "/"
    /\ range' = "24h"
    /\ page' = Stopped(page)
    /\ analysis' = NoAnalysis
    /\ requests' = {q \in requests : ~q.ok}        \* the others have no effect now
    /\ UNCHANGED <<session, authed, me, watch, tests, overtaken, question>>

-----------------------------------------------------------------------------
(* useAnalysis: fetched on mount, on a change of range or tab, on demand.   *)

Analysing == OnPage /\ watch = "analysis"

\* An answer is muddled with another when it overtakes it, or is the newest and lost.
Fetched(a, r) ==
    [a EXCEPT !.asked = Append(@, r), !.muddled = a.asked # <<>> /\ @]

\* The effect of a new range, if the range were not among its dependencies.
Unaffected(a, r) == a
Reselected(a, r) == IF a.tab = "analysis" THEN Fetched(a, r) ELSE a

FetchRoom == Len(analysis.asked) < InFlight

\* Another range is selected: the metrics and the analysis are fetched anew.
SelectRange(r) ==
    /\ OnPage
    /\ r # range
    /\ Room /\ FetchRoom
    /\ range' = r
    /\ Refresh(r)
    /\ analysis' = IF watch = "analysis" THEN Reselected(analysis, r) ELSE analysis
    /\ UNCHANGED <<path, session, authed, me, watch, page, tests, overtaken, question>>

\* Off the tab, useAnalysis resolves to null at once.
SelectTab(tab) ==
    /\ Analysing
    /\ tab # analysis.tab
    /\ FetchRoom
    /\ analysis' = IF tab = "analysis"
                   THEN Fetched([analysis EXCEPT !.tab = tab], range)
                   ELSE [analysis EXCEPT !.tab = tab, !.shown = None]
    /\ UNCHANGED <<path, session, authed, me, watch, range, requests, page, tests,
                   overtaken, question>>

\* The buttons Refresh and Retry.
RefreshAnalysis ==
    /\ Analysing
    /\ analysis.tab = "analysis"
    /\ FetchRoom
    /\ analysis' = Fetched(analysis, range)
    /\ UNCHANGED <<path, session, authed, me, watch, range, requests, page, tests,
                   overtaken, question>>

AnalysisAnswered(i) ==
    /\ Analysing
    /\ i \in DOMAIN analysis.asked
    /\ analysis' = [analysis EXCEPT !.asked = RemoveAt(@, i), !.shown = analysis.asked[i],
                                    !.muddled = @ \/ i # 1]
    /\ UNCHANGED <<path, session, authed, me, watch, range, requests, page, tests,
                   overtaken, question>>

\* The error is kept, and the page goes on showing what it has.
AnalysisFails(i) ==
    /\ Analysing
    /\ i \in DOMAIN analysis.asked
    /\ analysis' = [analysis EXCEPT !.asked = RemoveAt(@, i),
                                    !.muddled = @ \/ i = Len(analysis.asked)]
    /\ UNCHANGED <<path, session, authed, me, watch, range, requests, page, tests,
                   overtaken, question>>

-----------------------------------------------------------------------------
Calculate ==
    /\ path = "closed"
    /\ AskAnything \/ Answered
    /\ UNCHANGED <<browser, session, tests>>

Next ==
    \/ Calculate
    \/ Open \/ MeAnswered \/ MeFails \/ SignIn \/ SessionEnds \/ SignOut
    \/ Poll
    \/ \E q \in requests : Answer(q) \/ AnswerLost(q)
    \/ StartTest \/ TestStarted \/ TestRefused \/ TestStored
    \/ \E id \in Timers : Tick(id)
    \/ Enter \/ Leave
    \/ \E r \in Ranges : SelectRange(r)
    \/ \E tab \in {"overview", "analysis"} : SelectTab(tab)
    \/ RefreshAnalysis
    \/ \E i \in 1..InFlight : AnalysisAnswered(i) \/ AnalysisFails(i)

Spec == Init /\ [][Next]_vars

\* Intervals fire, requests are answered or fail, and of the polls that are sent again
\* and again some are answered.
Newest(q) == q = AskedFor(range)
FairSpec ==
    /\ Spec
    /\ WF_vars(MeAnswered \/ MeFails)
    /\ WF_vars(Poll)
    /\ WF_vars(TestStarted \/ TestRefused)
    /\ \A id \in Timers : WF_vars(Tick(id))
    /\ SF_vars(\E q \in requests : Newest(q) /\ Answer(q))
    /\ WF_vars(\E q \in requests : ~Newest(q) /\ (Answer(q) \/ AnswerLost(q)))

-----------------------------------------------------------------------------
(* Properties.                                                              *)

\* "Poll every 3s for up to 60s" (ClientDetail.tsx:80): no interval outlives its
\* attempts, and none but the one stopPolling can stop is left running, unless a result
\* was taken before the POST was answered: the interval is then started for no test, and
\* the next test loses it.
PollBounded ==
    /\ TypeOK
    /\ ~overtaken => \A t \in page.timers : t.id = page.poll /\ t.attempts < Attempts

\* The analysis on the page is that of the selected range once nothing is in flight,
\* unless answers came out of order or the newest was lost: nothing is fetched again.
ReportFits ==
    Analysing /\ analysis.tab = "analysis" /\ analysis.asked = <<>> /\ ~analysis.muddled
        => analysis.shown = range

\* The speed test button comes back: "Running..." ends, with a result or without.
RunningEnds == page.running ~> ~page.running

\* Whatever late answers brought, the metrics of a page that is left alone become those
\* of the selected range and of the newest tests, and stay so.
ViewFollows ==
    \A r \in Ranges :
        <>[](Metrics /\ session /\ range = r) => <>[](page.range = r /\ page.count = Stored(r))

\* A page whose session has ended gives way to the login form, and not to a circle of
\* redirections.
EndedAsksLogin ==
    (path \in {"/", "/client"} /\ ~session) ~> (path = "/login" /\ authed # "yes")
=============================================================================
