--------------------------- MODULE ScrapeSessions ---------------------------
(***************************************************************************)
(* The browser-proxied scrape of the connector.  A translator engine runs  *)
(* on a thread of its own and parks on every follow-up fetch; the request  *)
(* handlers drive it from fetch to fetch and keep it, between two requests *)
(* of the extension's popup, in a session of the SessionStore; the popup   *)
(* performs the fetches; a reaper drops the sessions nobody continues.     *)
(* Pages, items and answers are left out: an answer is the number of the   *)
(* fetch it was made for.                                                  *)
(***************************************************************************)
EXTENDS Naturals, FiniteSets

CONSTANTS
    Popups,         \* popups of the extension, each scraping one page
    Runs,           \* run ids of the SessionStore
    MaxHops,        \* MAX_HOPS of the connector, MAX_SCRAPE_HOPS of the popup
    MaxFetches,     \* bound: fetches the translators of a page ask for
    MaxResends,     \* bound: requests the browser sends a second time
    TTL             \* SESSION_TTL, in steps of the clock

ASSUME BoundsAssumption ==
    /\ MaxHops \in Nat \ {0} /\ MaxFetches \in Nat
    /\ MaxResends \in Nat /\ TTL \in Nat \ {0}

VARIABLES
    engine,     \* run -> the thread of the translators
    asked,      \* run -> number of the last fetch the engine asked for
    queued,     \* run -> the fetch in the channel to the session, 0: none
    got,        \* run -> fetch -> the answer it was given, 0: none or an error
    session,    \* run -> the session, wherever it is
    popup,      \* popup -> what it is doing
    posts,      \* continue requests on their way to the connector
    resends     \* requests sent twice so far
vars == <<engine, asked, queued, got, session, popup, posts, resends>>

Fetches == 1 .. MaxFetches
Posts == [popup: Popups, run: Runs, answer: Fetches]
NoSession == [at |-> "gone", pending |-> 0, hops |-> 0, idle |-> 0]

\* The handler of p's request works on the session of r.
Drives(p, r) == popup[p].pc = "awaiting" /\ popup[p].run = r
                /\ session[r].at \in {"driven", "joining"}

Init ==
    /\ engine = [r \in Runs |-> "unborn"]
    /\ asked = [r \in Runs |-> 0]
    /\ queued = [r \in Runs |-> 0]
    /\ got = [r \in Runs |-> [f \in Fetches |-> 0]]
    /\ session = [r \in Runs |-> NoSession]
    /\ popup = [p \in Popups |-> [pc |-> "closed", run |-> 0, fetch |-> 0, hops |-> 0]]
    /\ posts = {}
    /\ resends = 0

----------------------------------------------------------------------------
(* The engine.                                                             *)

\* A fetch goes into the channel and parks the engine; when the session that
\* held the receiving end is gone the fetch fails at once.
EngineFetch(r) ==
    /\ engine[r] = "running" /\ asked[r] < MaxFetches
    /\ asked' = [asked EXCEPT ![r] = @ + 1]
    /\ IF session[r].at # "gone"
       THEN /\ engine' = [engine EXCEPT ![r] = "parked"]
            /\ queued' = [queued EXCEPT ![r] = asked[r] + 1]
       ELSE UNCHANGED <<engine, queued>>
    /\ UNCHANGED <<got, session, popup, posts, resends>>

EngineEnds(r) ==
    /\ engine[r] = "running"
    /\ engine' = [engine EXCEPT ![r] = "over"]
    /\ UNCHANGED <<asked, queued, got, session, popup, posts, resends>>

\* Dropping the sender of a reply, or the queue it sits in, wakes the engine
\* with an error: the translator fails and it or the next one goes on.
Woken(R) == [r \in Runs |-> IF r \in R /\ engine[r] = "parked" THEN "running" ELSE engine[r]]

DropSessions(R) ==
    /\ session' = [r \in Runs |-> IF r \in R THEN NoSession ELSE session[r]]
    /\ engine' = Woken(R)
    /\ queued' = [r \in Runs |-> IF r \in R THEN 0 ELSE queued[r]]

----------------------------------------------------------------------------
(* The handlers.                                                           *)

\* POST /api/scrape: the translation is spawned and driven.
StartScrape(p, r) ==
    /\ popup[p].pc = "closed"
    /\ engine[r] = "unborn" /\ \A q \in Runs : engine[q] = "unborn" => r <= q
    /\ popup' = [popup EXCEPT ![p] = [@ EXCEPT !.pc = "awaiting", !.run = r]]
    /\ engine' = [engine EXCEPT ![r] = "running"]
    /\ session' = [session EXCEPT ![r] = [NoSession EXCEPT !.at = "driven"]]
    /\ UNCHANGED <<asked, queued, got, posts, resends>>

\* Mutant: The fetch is handed out at the cap, too.
HandOutAtCap(r) ==
    /\ queued[r] # 0 /\ session[r].hops <= MaxHops
    /\ session' = [session EXCEPT ![r] = [@ EXCEPT !.at = "stored",
                                                   !.hops = session[r].hops + 1,
                                                   !.pending = queued[r]]]
    /\ queued' = [queued EXCEPT ![r] = 0]
    /\ UNCHANGED <<engine, asked, got>>

\* drive receives a fetch below the cap: the session keeps its reply channel
\* and goes into the store.
HandOut(r) ==
    /\ queued[r] # 0 /\ session[r].hops < MaxHops
    /\ session' = [session EXCEPT ![r] = [@ EXCEPT !.at = "stored",
                                                   !.hops = session[r].hops + 1,
                                                   !.pending = queued[r]]]
    /\ queued' = [queued EXCEPT ![r] = 0]
    /\ UNCHANGED <<engine, asked, got>>

\* Mutant: The popup goes on with the instruction of its first response.
DriveFetchStale(p, r) ==
    /\ Drives(p, r) /\ session[r].at = "driven"
    /\ HandOut(r)
    /\ popup' = [popup EXCEPT ![p] = [@ EXCEPT !.pc = "fetching",
                                               !.fetch = IF @ = 0 THEN queued[r] ELSE @]]
    /\ UNCHANGED <<posts, resends>>

DriveFetch(p, r) ==
    /\ Drives(p, r) /\ session[r].at = "driven"
    /\ HandOut(r)
    /\ popup' = [popup EXCEPT ![p] = [@ EXCEPT !.pc = "fetching", !.fetch = queued[r]]]
    /\ UNCHANGED <<posts, resends>>

\* The response is lost and the browser sends the continue request again.
DriveFetchLost(p, r) ==
    /\ Drives(p, r) /\ session[r].at = "driven"
    /\ popup[p].fetch # 0 /\ resends < MaxResends
    /\ HandOut(r)
    /\ posts' = posts \cup {[popup |-> p, run |-> r, answer |-> popup[p].fetch]}
    /\ resends' = resends + 1
    /\ UNCHANGED popup

\* Mutant: The capped session goes back into the store.
CappedPutBack(p, r) ==
    /\ Drives(p, r) /\ session[r].at = "driven"
    /\ queued[r] # 0 /\ session[r].hops >= MaxHops
    /\ session' = [session EXCEPT ![r] = [@ EXCEPT !.at = "stored"]]
    /\ queued' = [queued EXCEPT ![r] = 0]
    /\ engine' = Woken({r})
    /\ popup' = [popup EXCEPT ![p] = [@ EXCEPT !.pc = "done"]]
    /\ UNCHANGED <<asked, got, posts, resends>>

\* Mutant: The cap does not drop the reply.
CappedHolding(p, r) ==
    /\ Drives(p, r) /\ session[r].at = "driven"
    /\ queued[r] # 0 /\ session[r].hops >= MaxHops
    /\ session' = [session EXCEPT ![r] = [@ EXCEPT !.at = "joining"]]
    /\ queued' = [queued EXCEPT ![r] = 0]
    /\ UNCHANGED <<engine, asked, got, popup, posts, resends>>

\* Past the cap the reply is dropped and the task is awaited, with the queue
\* still open and nobody reading it.
Capped(p, r) ==
    /\ Drives(p, r) /\ session[r].at = "driven"
    /\ queued[r] # 0 /\ session[r].hops >= MaxHops
    /\ session' = [session EXCEPT ![r] = [@ EXCEPT !.at = "joining"]]
    /\ queued' = [queued EXCEPT ![r] = 0]
    /\ engine' = Woken({r})
    /\ UNCHANGED <<asked, got, popup, posts, resends>>

\* The task is over and its queue drained: the popup has its answer.
Done(p, r) ==
    /\ Drives(p, r) /\ engine[r] = "over" /\ queued[r] = 0
    /\ DropSessions({r})
    /\ popup' = [popup EXCEPT ![p] = [@ EXCEPT !.pc = "done"]]
    /\ UNCHANGED <<asked, got, posts, resends>>

\* POST /api/scrape/continue: the session is taken out of the store, resume
\* sends the outcome down the one reply channel it holds, and it is driven on.
Continue(m) ==
    /\ session[m.run].at = "stored" /\ session[m.run].pending # 0
    /\ posts' = posts \ {m}
    /\ got' = [got EXCEPT ![m.run] = [@ EXCEPT ![session[m.run].pending] = m.answer]]
    /\ engine' = Woken({m.run})
    /\ session' = [session EXCEPT ![m.run] =
                     [@ EXCEPT !.at = "driven", !.pending = 0, !.idle = 0]]
    /\ UNCHANGED <<asked, queued, popup, resends>>

\* A run the store does not hold, or one that waits for no fetch (which is put
\* back), is refused.
RefuseContinue(m) ==
    /\ ~(session[m.run].at = "stored" /\ session[m.run].pending # 0)
    /\ posts' = posts \ {m}
    /\ popup' = [popup EXCEPT ![m.popup] = [@ EXCEPT !.pc = "done"]]
    /\ UNCHANGED <<engine, asked, queued, got, session, resends>>

\* The handlers' steps.  A capped session waits for the engine alone.
HandlerStep(p, r) == DriveFetch(p, r) \/ DriveFetchLost(p, r) \/ Capped(p, r) \/ Done(p, r)
ContinueStep(m) == m \in posts /\ (Continue(m) \/ RefuseContinue(m))

----------------------------------------------------------------------------
(* The popup and the reaper.                                               *)

\* The page context has performed the fetch; past its own cap the popup stops.
PerformPageFetch(p) ==
    /\ popup[p].pc = "fetching"
    /\ popup' = [popup EXCEPT ![p] =
                   IF @.hops < MaxHops
                   THEN [@ EXCEPT !.pc = "awaiting", !.hops = popup[p].hops + 1]
                   ELSE [@ EXCEPT !.pc = "done"]]
    /\ posts' = IF popup[p].hops < MaxHops
                THEN posts \cup {[popup |-> p, run |-> popup[p].run, answer |-> popup[p].fetch]}
                ELSE posts
    /\ UNCHANGED <<engine, asked, queued, got, session, resends>>

\* The popup is closed, at any moment.  A handler at work for it is dropped
\* with the session it drives; a stored session stays.
ClosePopup(p) ==
    /\ popup[p].pc \in {"awaiting", "fetching"}
    /\ popup' = [popup EXCEPT ![p] = [@ EXCEPT !.pc = "done"]]
    /\ posts' = {m \in posts : m.popup # p}
    /\ DropSessions({r \in Runs : Drives(p, r)})
    /\ UNCHANGED <<asked, got, resends>>

Tick ==
    /\ \E r \in Runs : session[r].at # "gone" /\ session[r].idle < TTL
    /\ session' = [r \in Runs |-> IF session[r].at # "gone" /\ session[r].idle < TTL
                                  THEN [session[r] EXCEPT !.idle = @ + 1] ELSE session[r]]
    /\ UNCHANGED <<engine, asked, queued, got, popup, posts, resends>>

\* Mutant: The reaper spares the sessions that wait for an answer.
ReapUnparked ==
    LET idle == {r \in Runs : session[r].at = "stored" /\ session[r].idle >= TTL
                              /\ session[r].pending = 0}
    IN  /\ idle # {}
        /\ DropSessions(idle)
        /\ UNCHANGED <<asked, got, popup, posts, resends>>

ReapIdle ==
    LET idle == {r \in Runs : session[r].at = "stored" /\ session[r].idle >= TTL}
    IN  /\ idle # {}
        /\ DropSessions(idle)
        /\ UNCHANGED <<asked, got, popup, posts, resends>>

Next ==
    \/ \E r \in Runs : EngineFetch(r) \/ EngineEnds(r)
    \/ \E p \in Popups, r \in Runs : StartScrape(p, r) \/ HandlerStep(p, r)
    \/ \E m \in Posts : ContinueStep(m)
    \/ \E p \in Popups : PerformPageFetch(p) \/ ClosePopup(p)
    \/ Tick \/ ReapIdle

Spec == Init /\ [][Next]_vars

\* Threads and handlers run, time passes, the reaper ticks; nobody promises
\* that a popup performs its fetch or is closed.
Fairness ==
    /\ \A r \in Runs : WF_vars(EngineFetch(r) \/ EngineEnds(r))
    /\ \A p \in Popups, r \in Runs : WF_vars(HandlerStep(p, r))
    /\ \A m \in Posts : WF_vars(ContinueStep(m))
    /\ WF_vars(Tick) /\ WF_vars(ReapIdle)
FairSpec == Spec /\ Fairness

----------------------------------------------------------------------------
(* Properties.                                                             *)

Parked(r) == engine[r] = "parked"

\* The values of the variables.
TypeOK ==
    /\ engine \in [Runs -> {"unborn", "running", "parked", "over"}]
    /\ asked \in [Runs -> 0 .. MaxFetches]
    /\ queued \in [Runs -> 0 .. MaxFetches]
    /\ got \in [Runs -> [Fetches -> 0 .. MaxFetches]]
    /\ session \in [Runs -> [at : {"gone", "driven", "stored", "joining"},
                             pending : 0 .. MaxFetches, hops : 0 .. MaxHops, idle : 0 .. TTL]]
    /\ popup \in [Popups -> [pc : {"closed", "awaiting", "fetching", "done"}, run : Runs \cup {0},
                             fetch : 0 .. MaxFetches, hops : 0 .. MaxHops]]
    /\ posts \subseteq Posts
    /\ resends \in 0 .. MaxResends

\* A session rests in the store only while its engine is parked on exactly the
\* fetch the session can answer: what a continue request takes out of the store
\* always waits for an answer (so the branch that puts a session back untouched
\* is never taken).  A session a handler drives has the fetch of its parked engine
\* in its channel, and no engine is parked for a session that is gone.  Of a session
\* past its cap, which awaits its task, nothing is said: its engine can be forgotten.
ParkedWhereFound ==
    \A r \in Runs :
        /\ session[r].at = "stored" => Parked(r) /\ session[r].pending = asked[r]
        /\ session[r].at = "driven" => session[r].pending = 0 /\ (Parked(r) <=> queued[r] # 0)
        /\ session[r].at = "gone" => ~Parked(r)

\* As long as the browser sends every request once, the body the page fetched
\* for one request never reaches the translator as the answer to another one.
AnswersReachTheirFetch ==
    resends = 0 => \A r \in Runs, f \in Fetches : got[r][f] \in {0, f}

\* The same of a browser that repeats a request whose response it lost.
DuplicatesAreHarmless == \A r \in Runs, f \in Fetches : got[r][f] \in {0, f}

\* However often its translators ask, a page makes the browser fetch at most
\* MaxHops times, and never answers a fetch that was not handed out.
BrowserFetchesBounded ==
    \A r \in Runs : /\ Cardinality({f \in Fetches : got[r][f] # 0}) <= MaxHops
                    /\ session[r].hops <= MaxHops

\* The engine of a session past its cap has asked once more and is parked in a
\* channel that is open and that nobody reads; the popup goes on waiting for it.
Hung(r) ==
    /\ asked[r] > MaxHops + 1 /\ Parked(r)
    /\ session[r].at = "joining" /\ \E p \in Popups : Drives(p, r)

\* Every translation ends, whatever the user does with the popup: a session nobody
\* continues is reaped, which wakes its engine.  The one exception are translators
\* that ask twice past the cap: their engine is parked as long as the popup is open.
EveryEngineFreed ==
    \A r \in Runs : engine[r] = "running" ~> engine[r] = "over" \/ Hung(r)

\* Every request of a popup is answered: scrape with metadata, a fetch or a miss,
\* continue with the next of these or a refusal.  The one exception are requests
\* whose translators ask twice past the cap.
RequestsAnswered ==
    \A p \in Popups : popup[p].pc = "awaiting" ~>
        popup[p].pc # "awaiting" \/ (popup[p].run \in Runs /\ Hung(popup[p].run))

----------------------------------------------------------------------------
(* What a comment says and the code does not do.                           *)

\* scrape_session.rs: past the cap a scrape completes with whatever items reached
\* the sink, rather than parking again; so every request is answered.
CappedRequestsAnswered ==
    \A p \in Popups : popup[p].pc = "awaiting" ~> popup[p].pc # "awaiting"
=============================================================================
