----------------------- MODULE ScrapeSessions_proofs -----------------------
(***************************************************************************)
(* Theorems about ScrapeSessions, for any popups, runs, caps and bounds:   *)
(* types, that a waiting engine is found where a request or the reaper     *)
(* looks for it, that answers reach the fetch they were made for, and how  *)
(* often a page can make the browser fetch.                                *)
(***************************************************************************)
EXTENDS ScrapeSessions, FiniteSetTheorems, TLAPS

Engines == {"unborn", "running", "parked", "over"}

Sessions == [at : {"gone", "driven", "stored", "joining"},
             pending : 0 .. MaxFetches, hops : 0 .. MaxHops, idle : 0 .. TTL]

PopupStates == [pc : {"closed", "awaiting", "fetching", "done"}, run : Runs \cup {0},
                fetch : 0 .. MaxFetches, hops : 0 .. MaxHops]

----------------------------------------------------------------------------
(* One run.  What is true of a run's engine, channel and session, and the ways
   a step can change them. *)

Answered(r) == {f \in Fetches : got[r][f] # 0}

\* A fetch in the channel is the last one the engine asked for.
ChannelHoldsLast(r) ==
    /\ engine[r] = "unborn" => session[r].at = "gone"
    /\ session[r].at \in {"gone", "stored"} => queued[r] = 0
    /\ queued[r] # 0 => queued[r] = asked[r]

\* ParkedWhereFound of one run.
EngineFound(r) ==
    /\ session[r].at = "stored" => Parked(r) /\ session[r].pending = asked[r]
    /\ session[r].at = "driven" => session[r].pending = 0 /\ (Parked(r) <=> queued[r] # 0)
    /\ session[r].at = "gone" => ~Parked(r)

\* A session counts a hop when it hands a fetch out, before it can be answered.
HopsCountAnswers(r) ==
    /\ engine[r] = "unborn" => Answered(r) = {}
    /\ Cardinality(Answered(r)) <= MaxHops
    /\ session[r].at = "stored" => Cardinality(Answered(r)) < session[r].hops
    /\ session[r].at \in {"driven", "joining"} => Cardinality(Answered(r)) <= session[r].hops

RunTyped(r) ==
    /\ engine[r] \in Engines /\ session[r] \in Sessions
    /\ asked[r] \in 0 .. MaxFetches /\ queued[r] \in 0 .. MaxFetches
    /\ got[r] \in [Fetches -> 0 .. MaxFetches]

RunOK(r) == RunTyped(r) /\ ChannelHoldsLast(r) /\ EngineFound(r) /\ HopsCountAnswers(r)

SessionGoes(r, at, pending, hops) ==
    /\ session'[r] \in Sessions
    /\ session'[r].at = at /\ session'[r].pending = pending /\ session'[r].hops = hops

\* Nothing changes but how long the session has been idle.
Stays(r) ==
    /\ engine'[r] = engine[r] /\ queued'[r] = queued[r]
    /\ asked'[r] = asked[r] /\ got'[r] = got[r]
    /\ SessionGoes(r, session[r].at, session[r].pending, session[r].hops)

\* The engine, not waiting and not to be waited for, works.
Works(r) ==
    /\ engine[r] = "running" /\ got'[r] = got[r] /\ session'[r] = session[r]
    /\ \/ engine'[r] = "over" /\ asked'[r] = asked[r] /\ queued'[r] = queued[r]
       \/ /\ asked'[r] = asked[r] + 1 /\ asked[r] < MaxFetches
          /\ IF session[r].at = "gone"
             THEN engine'[r] = engine[r] /\ queued'[r] = queued[r]
             ELSE engine'[r] = "parked" /\ queued'[r] = asked[r] + 1

Starts(r) ==
    /\ engine[r] = "unborn" /\ engine'[r] = "running"
    /\ queued'[r] = queued[r] /\ asked'[r] = asked[r] /\ got'[r] = got[r]
    /\ SessionGoes(r, "driven", 0, 0)

HandsOut(r) ==
    /\ session[r].at = "driven" /\ queued[r] # 0 /\ session[r].hops < MaxHops
    /\ engine'[r] = engine[r] /\ queued'[r] = 0
    /\ asked'[r] = asked[r] /\ got'[r] = got[r]
    /\ SessionGoes(r, "stored", queued[r], session[r].hops + 1)

\* The engine is not parked any more: its reply was sent, or dropped.
Woke(r) == engine'[r] = IF Parked(r) THEN "running" ELSE engine[r]

IsCapped(r) ==
    /\ session[r].at = "driven" /\ Woke(r) /\ queued'[r] = 0
    /\ asked'[r] = asked[r] /\ got'[r] = got[r]
    /\ SessionGoes(r, "joining", session[r].pending, session[r].hops)

IsDropped(r) ==
    /\ session[r].at # "gone" /\ Woke(r) /\ queued'[r] = 0
    /\ asked'[r] = asked[r] /\ got'[r] = got[r]
    /\ SessionGoes(r, "gone", 0, 0)

IsContinued(r, answer) ==
    /\ session[r].at = "stored" /\ session[r].pending # 0 /\ Woke(r)
    /\ queued'[r] = queued[r] /\ asked'[r] = asked[r]
    /\ got'[r] = [got[r] EXCEPT ![session[r].pending] = answer]
    /\ SessionGoes(r, "driven", 0, session[r].hops)

RunStep(r) ==
    \/ Stays(r) \/ Works(r) \/ Starts(r) \/ HandsOut(r) \/ IsCapped(r) \/ IsDropped(r)
    \/ \E answer \in Fetches : IsContinued(r, answer)

\* The answered fetches are finitely many.
LEMMA AnsweredFinite ==
    ASSUME NEW r PROVE IsFiniteSet(Answered(r)) /\ Cardinality(Answered(r)) \in Nat
<1>1. IsFiniteSet(Fetches)
  BY BoundsAssumption, FS_Interval DEF Fetches
<1>2. Answered(r) \subseteq Fetches
  BY DEF Answered
<1> QED BY <1>1, <1>2, FS_Subset, FS_CardinalityType

\* Whatever happens to a run, it stays as it should be.
LEMMA RunStepOK ==
    ASSUME NEW r \in Runs, RunOK(r), RunStep(r)
    PROVE  RunOK(r)'
<1> USE BoundsAssumption
<1>0. /\ engine[r] \in Engines /\ session[r] \in Sessions
      /\ asked[r] \in 0 .. MaxFetches /\ queued[r] \in 0 .. MaxFetches
      /\ got[r] \in [Fetches -> 0 .. MaxFetches]
  BY DEF RunOK, RunTyped
<1>s. /\ session[r].at \in {"gone", "driven", "stored", "joining"}
      /\ session[r].pending \in 0 .. MaxFetches /\ session[r].hops \in 0 .. MaxHops
  BY <1>0 DEF Sessions
<1>c. Cardinality(Answered(r)) \in Nat
  BY AnsweredFinite
<1>g. got'[r] = got[r] => Answered(r)' = Answered(r)
  BY DEF Answered
<1>1. CASE Stays(r)
  BY <1>0, <1>1, <1>g
  DEF Stays, SessionGoes, RunOK, RunTyped, ChannelHoldsLast, EngineFound, Parked, HopsCountAnswers
<1>2. CASE Works(r)
  BY <1>0, <1>s, <1>2, <1>g
  DEF Works, RunOK, RunTyped, Engines, ChannelHoldsLast, EngineFound, Parked, HopsCountAnswers
<1>3. CASE Starts(r)
  <2>1. Cardinality(Answered(r)) = 0
    BY <1>3, FS_EmptySet DEF Starts, RunOK, HopsCountAnswers
  <2> QED
    BY <1>0, <1>3, <1>g, <2>1
    DEF Starts, SessionGoes, RunOK, RunTyped, Engines, ChannelHoldsLast, EngineFound, Parked,
        HopsCountAnswers
<1>4. CASE HandsOut(r)
  BY <1>0, <1>s, <1>c, <1>4, <1>g
  DEF HandsOut, SessionGoes, RunOK, RunTyped, ChannelHoldsLast, EngineFound, Parked,
      HopsCountAnswers
<1>5. CASE IsCapped(r)
  BY <1>0, <1>5, <1>g
  DEF IsCapped, Woke, SessionGoes, RunOK, RunTyped, Engines, ChannelHoldsLast, EngineFound,
      Parked, HopsCountAnswers
<1>6. CASE IsDropped(r)
  BY <1>0, <1>6, <1>g
  DEF IsDropped, Woke, SessionGoes, RunOK, RunTyped, Engines, ChannelHoldsLast, EngineFound,
      Parked, HopsCountAnswers
<1>7. ASSUME NEW answer \in Fetches, IsContinued(r, answer) PROVE RunOK(r)'
  <2> DEFINE f == session[r].pending
  <2>1. f \in Fetches /\ Fetches \subseteq 0 .. MaxFetches
    BY <1>s, <1>7 DEF IsContinued, Fetches
  <2>2. got'[r] \in [Fetches -> 0 .. MaxFetches]
    BY <1>0, <1>7, <2>1 DEF IsContinued
  <2>3. Answered(r)' \subseteq Answered(r) \cup {f}
    BY <1>0, <1>7, <2>1 DEF IsContinued, Answered
  <2>4. /\ IsFiniteSet(Answered(r) \cup {f})
        /\ Cardinality(Answered(r) \cup {f}) <= Cardinality(Answered(r)) + 1
    BY AnsweredFinite, FS_AddElement
  <2>5. IsFiniteSet(Answered(r)') /\ Cardinality(Answered(r)') <= Cardinality(Answered(r) \cup {f})
    BY <2>3, <2>4, FS_Subset
  <2>6. Cardinality(Answered(r)') \in Nat /\ Cardinality(Answered(r) \cup {f}) \in Nat
    BY <2>4, <2>5, FS_CardinalityType
  <2>7. Cardinality(Answered(r)') <= session[r].hops
    BY <1>s, <1>c, <1>7, <2>4, <2>5, <2>6 DEF IsContinued, RunOK, HopsCountAnswers
  <2>8. HopsCountAnswers(r)'
    BY <1>s, <1>7, <2>6, <2>7
    DEF IsContinued, Woke, SessionGoes, HopsCountAnswers, RunOK, ChannelHoldsLast
  <2>9. RunTyped(r)' /\ ChannelHoldsLast(r)' /\ EngineFound(r)'
    BY <1>0, <1>7, <2>2
    DEF IsContinued, Woke, SessionGoes, RunOK, RunTyped, Engines, ChannelHoldsLast, EngineFound,
        Parked
  <2> QED BY <2>8, <2>9 DEF RunOK
<1> QED BY <1>1, <1>2, <1>3, <1>4, <1>5, <1>6, <1>7 DEF RunStep

----------------------------------------------------------------------------
(* All runs and popups. *)

\* The variables are maps, whatever they map to.
Maps ==
    /\ engine = [r \in Runs |-> engine[r]] /\ asked = [r \in Runs |-> asked[r]]
    /\ queued = [r \in Runs |-> queued[r]] /\ got = [r \in Runs |-> got[r]]
    /\ session = [r \in Runs |-> session[r]]

\* A popup that has begun has a run of its own, which has begun.
PopupHasRun ==
    /\ \A p \in Popups : popup[p].pc # "closed" =>
          popup[p].run \in Runs /\ engine[popup[p].run] # "unborn"
    /\ \A p, q \in Popups : popup[p].pc # "closed" /\ popup[q].pc # "closed" /\ p # q =>
          popup[p].run # popup[q].run

\* A popup fetches what it was handed, and a request on its way has a popup.
PopupsTyped ==
    /\ popup \in [Popups -> PopupStates]
    /\ \A p \in Popups : popup[p].pc = "fetching" => popup[p].fetch # 0
    /\ posts \subseteq Posts
    /\ \A m \in posts : popup[m.popup].pc # "closed"
    /\ resends \in 0 .. MaxResends

\* The inductive invariant of types and of where an engine waits.
Found == Maps /\ (\A r \in Runs : RunOK(r)) /\ PopupHasRun /\ PopupsTyped

\* At most idle changes between two sessions of the same type.
LEMMA SessionStays ==
    ASSUME NEW r \in Runs, RunTyped(r), session'[r] = session[r]
    PROVE  SessionGoes(r, session[r].at, session[r].pending, session[r].hops)
BY DEF RunTyped, SessionGoes

\* What a session is after each of the updates the code makes.
LEMMA SessionCapped ==
    ASSUME NEW s \in Sessions, NEW t, t = [s EXCEPT !.at = "joining"]
    PROVE  t \in Sessions /\ t.at = "joining" /\ t.hops = s.hops /\ t.pending = s.pending
BY DEF Sessions

LEMMA SessionResumed ==
    ASSUME NEW s \in Sessions, NEW t, t = [s EXCEPT !.at = "driven", !.pending = 0, !.idle = 0]
    PROVE  t \in Sessions /\ t.at = "driven" /\ t.hops = s.hops /\ t.pending = 0
<1>1. 0 \in 0 .. TTL /\ 0 \in 0 .. MaxFetches
  BY BoundsAssumption
<1> QED BY <1>1 DEF Sessions

LEMMA SessionAged ==
    ASSUME NEW s \in Sessions, NEW i \in 0 .. TTL, NEW t, t = [s EXCEPT !.idle = i]
    PROVE  t \in Sessions /\ t.at = s.at /\ t.hops = s.hops /\ t.pending = s.pending
BY DEF Sessions

\* Dropping sessions drops those that are there and wakes their engines.
LEMMA DroppedRuns ==
    ASSUME Found, NEW R \in SUBSET Runs, DropSessions(R), UNCHANGED <<asked, got>>,
           \A r \in R : session[r].at # "gone"
    PROVE  Maps' /\ \A r \in Runs : IF r \in R THEN IsDropped(r) ELSE Stays(r)
<1>1. Maps'
  BY DEF DropSessions, Woken, Found, Maps
<1>2. NoSession \in Sessions
  BY BoundsAssumption DEF NoSession, Sessions
<1>3. ASSUME NEW r \in R PROVE IsDropped(r)
  BY <1>2, <1>3 DEF DropSessions, Woken, Found, IsDropped, Woke, Parked, SessionGoes, NoSession
<1>4. ASSUME NEW r \in Runs, r \notin R PROVE Stays(r)
  BY <1>4, SessionStays DEF DropSessions, Woken, Found, RunOK, Stays
<1> QED BY <1>1, <1>3, <1>4

\* A handler's session becomes a given one, and no other does.
LEMMA OneRun ==
    ASSUME Found, NEW r \in Runs,
           engine' \in {engine, Woken({r}), [engine EXCEPT ![r] = engine'[r]]},
           asked' = [asked EXCEPT ![r] = asked'[r]], queued' = [queued EXCEPT ![r] = queued'[r]],
           got' = [got EXCEPT ![r] = got'[r]], session' = [session EXCEPT ![r] = session'[r]]
    PROVE  Maps' /\ \A q \in Runs \ {r} : Stays(q)
<1>1. Maps'
  BY DEF Woken, Found, Maps
<1>2. ASSUME NEW q \in Runs, q # r PROVE Stays(q)
  BY <1>2, SessionStays DEF Woken, Found, Maps, RunOK, Stays
<1> QED BY <1>1, <1>2

\* Every step is one of a run, or drops some, or leaves them all alone.
LEMMA StepRuns ==
    ASSUME Found, [Next]_vars
    PROVE  Maps' /\ \A r \in Runs : RunStep(r)
<1> USE BoundsAssumption
<1>m. /\ engine = [r \in Runs |-> engine[r]] /\ asked = [r \in Runs |-> asked[r]]
      /\ queued = [r \in Runs |-> queued[r]] /\ got = [r \in Runs |-> got[r]]
      /\ session = [r \in Runs |-> session[r]]
  BY DEF Found, Maps
<1>t. \A r \in Runs : RunTyped(r) /\ ChannelHoldsLast(r) /\ EngineFound(r)
  BY DEF Found, RunOK
<1>s. \A r \in Runs : /\ session[r].at \in {"gone", "driven", "stored", "joining"}
                      /\ session[r].pending \in 0 .. MaxFetches
                      /\ session[r].hops \in 0 .. MaxHops /\ session[r].idle \in 0 .. TTL
  BY <1>t DEF RunTyped, Sessions
\* Nothing happens to any run.
<1>n. ASSUME UNCHANGED <<engine, asked, queued, got, session>>
      PROVE  Maps' /\ \A r \in Runs : RunStep(r)
  BY <1>m, <1>n, <1>t, SessionStays DEF Maps, RunStep, Stays
\* One run takes a step.
<1>o. ASSUME NEW r \in Runs, RunStep(r), Maps', \A q \in Runs \ {r} : Stays(q)
      PROVE  Maps' /\ \A q \in Runs : RunStep(q)
  BY <1>o DEF RunStep
<1>1. ASSUME NEW r \in Runs, EngineFetch(r) \/ EngineEnds(r)
      PROVE  Maps' /\ \A q \in Runs : RunStep(q)
  <2>1. Maps' /\ \A q \in Runs \ {r} : Stays(q)
    BY <1>1, <1>m, OneRun DEF EngineFetch, EngineEnds
  <2>2. Works(r)
    BY <1>1, <1>m, <1>s DEF EngineFetch, EngineEnds, Works
  <2> QED BY <1>o, <2>1, <2>2 DEF RunStep
<1>2. ASSUME NEW p \in Popups, NEW r \in Runs, StartScrape(p, r)
      PROVE  Maps' /\ \A q \in Runs : RunStep(q)
  <2>1. Maps' /\ \A q \in Runs \ {r} : Stays(q)
    BY <1>2, <1>m, OneRun DEF StartScrape
  <2>2. [NoSession EXCEPT !.at = "driven"] = [at |-> "driven", pending |-> 0, hops |-> 0, idle |-> 0]
    BY DEF NoSession
  <2>3. SessionGoes(r, "driven", 0, 0)
    BY <1>2, <1>m, <2>2 DEF StartScrape, SessionGoes, Sessions
  <2>4. Starts(r)
    BY <1>2, <1>m, <2>3 DEF StartScrape, Starts
  <2> QED BY <1>o, <2>1, <2>4 DEF RunStep
<1>3. ASSUME NEW r \in Runs, HandOut(r), session[r].at = "driven"
      PROVE  Maps' /\ \A q \in Runs : RunStep(q)
  <2>1. Maps' /\ \A q \in Runs \ {r} : Stays(q)
    BY <1>3, <1>m, OneRun DEF HandOut
  <2>2. session'[r] = [session[r] EXCEPT !.at = "stored", !.hops = session[r].hops + 1,
                                         !.pending = queued[r]]
    BY <1>3, <1>m DEF HandOut
  <2>3. session[r].hops + 1 \in 0 .. MaxHops /\ queued[r] \in 0 .. MaxFetches
    BY <1>3, <1>s, <1>t DEF HandOut, RunTyped
  <2>4. SessionGoes(r, "stored", queued[r], session[r].hops + 1)
    <3>1. session[r] \in Sessions
      BY <1>t DEF RunTyped
    <3>2. PICK h \in 0 .. MaxHops : h = session[r].hops + 1
      BY <2>3
    <3>3. session'[r] = [session[r] EXCEPT !.at = "stored", !.hops = h, !.pending = queued[r]]
      BY <2>2, <3>2
    <3>4. /\ session'[r] \in Sessions /\ session'[r].at = "stored"
          /\ session'[r].hops = h /\ session'[r].pending = queued[r]
      BY <2>3, <3>1, <3>3 DEF Sessions
    <3> QED BY <3>2, <3>4 DEF SessionGoes
  <2>5. HandsOut(r)
    BY <1>3, <1>m, <2>4 DEF HandOut, HandsOut
  <2> QED BY <1>o, <2>1, <2>5 DEF RunStep
<1>4. ASSUME NEW p \in Popups, NEW r \in Runs, Capped(p, r)
      PROVE  Maps' /\ \A q \in Runs : RunStep(q)
  <2>1. Maps' /\ \A q \in Runs \ {r} : Stays(q)
    BY <1>4, <1>m, OneRun DEF Capped
  <2>2. session'[r] = [session[r] EXCEPT !.at = "joining"]
    BY <1>4, <1>m DEF Capped
  <2>3. SessionGoes(r, "joining", session[r].pending, session[r].hops)
    BY <1>t, <2>2, SessionCapped DEF RunTyped, SessionGoes
  <2>4. IsCapped(r)
    BY <1>4, <1>m, <2>3 DEF Capped, Woken, IsCapped, Woke, Parked
  <2> QED BY <1>o, <2>1, <2>4 DEF RunStep
<1>5. ASSUME NEW R \in SUBSET Runs, DropSessions(R), UNCHANGED <<asked, got>>,
             \A r \in R : session[r].at # "gone"
      PROVE  Maps' /\ \A r \in Runs : RunStep(r)
  BY <1>5, DroppedRuns DEF RunStep
<1>6. ASSUME NEW m \in Posts, Continue(m)
      PROVE  Maps' /\ \A r \in Runs : RunStep(r)
  <2> DEFINE r == m.run
  <2>0. r \in Runs /\ m.answer \in Fetches /\ r = m.run
    BY DEF Posts
  <2> HIDE DEF r
  <2>1. Maps' /\ \A q \in Runs \ {r} : Stays(q)
    BY <1>6, <1>m, <2>0, OneRun DEF Continue
  <2>2. session'[r] = [session[r] EXCEPT !.at = "driven", !.pending = 0, !.idle = 0]
    BY <1>6, <1>m, <2>0 DEF Continue
  <2>3. SessionGoes(r, "driven", 0, session[r].hops)
    <3>1. session[r] \in Sessions
      BY <1>t, <2>0 DEF RunTyped
    <3>2. /\ session'[r] \in Sessions /\ session'[r].at = "driven"
          /\ session'[r].hops = session[r].hops /\ session'[r].pending = 0
      BY <2>2, <3>1, SessionResumed
    <3> QED BY <3>2 DEF SessionGoes
  <2>4. IsContinued(r, m.answer)
    BY <1>6, <1>m, <2>0, <2>3 DEF Continue, Woken, IsContinued, Woke, Parked
  <2> QED BY <1>o, <2>0, <2>1, <2>4 DEF RunStep
<1>7. CASE Tick
  <2>1. ASSUME NEW r \in Runs PROVE Stays(r)
    <3>1. CASE session[r].at # "gone" /\ session[r].idle < TTL
      <4>1. session'[r] = [session[r] EXCEPT !.idle = session[r].idle + 1]
        BY <1>7, <3>1 DEF Tick
      <4>2. session[r].idle + 1 \in 0 .. TTL
        BY <1>s, <3>1
      <4>3. SessionGoes(r, session[r].at, session[r].pending, session[r].hops)
        BY <1>t, <4>1, <4>2, SessionAged DEF RunTyped, SessionGoes
      <4> QED BY <1>7, <4>3 DEF Tick, Stays
    <3>2. CASE ~(session[r].at # "gone" /\ session[r].idle < TTL)
      <4>1. session'[r] = session[r]
        BY <1>7, <3>2 DEF Tick
      <4> QED BY <1>7, <1>t, <4>1, SessionStays DEF Tick, Stays
    <3> QED BY <3>1, <3>2
  <2> QED BY <1>7, <1>m, <2>1 DEF Tick, Maps, RunStep
<1>8. ASSUME NEW p \in Popups, NEW r \in Runs, HandlerStep(p, r)
      PROVE  Maps' /\ \A q \in Runs : RunStep(q)
  <2>1. CASE DriveFetch(p, r) \/ DriveFetchLost(p, r)
    BY <2>1, <1>3 DEF DriveFetch, DriveFetchLost
  <2>2. CASE Done(p, r)
    BY <2>2, <1>5 DEF Done, Drives
  <2> QED BY <1>4, <1>8, <2>1, <2>2 DEF HandlerStep
<1>9. ASSUME NEW m \in Posts, ContinueStep(m)
      PROVE  Maps' /\ \A r \in Runs : RunStep(r)
  BY <1>6, <1>9, <1>n DEF ContinueStep, RefuseContinue
<1>10. ASSUME NEW p \in Popups, PerformPageFetch(p) \/ ClosePopup(p)
       PROVE  Maps' /\ \A r \in Runs : RunStep(r)
  BY <1>5, <1>10, <1>n DEF PerformPageFetch, ClosePopup, Drives
<1>11. CASE ReapIdle
  BY <1>5, <1>11 DEF ReapIdle
<1> QED BY <1>1, <1>2, <1>7, <1>8, <1>9, <1>10, <1>11, <1>n DEF Next, vars

\* A run that has begun has begun for good.
LEMMA RunsBegin ==
    ASSUME Found, [Next]_vars, NEW r \in Runs, engine[r] # "unborn"
    PROVE  engine'[r] # "unborn"
<1>1. RunStep(r)
  BY StepRuns
<1> QED BY <1>1 DEF RunStep, Stays, Works, Starts, HandsOut, IsCapped, IsDropped, IsContinued,
                Woke, Parked

\* One popup goes on with its run, and with its own requests at most.
LEMMA PopupGoesOn ==
    ASSUME Found, [Next]_vars, NEW p \in Popups, NEW x \in PopupStates,
           popup' = [popup EXCEPT ![p] = x],
           popup[p].pc # "closed", x.pc # "closed", x.run = popup[p].run,
           x.pc = "fetching" => x.fetch # 0,
           posts' \subseteq Posts, \A m \in posts' : m \in posts \/ m.popup = p,
           resends' \in 0 .. MaxResends
    PROVE  PopupHasRun' /\ PopupsTyped'
<1>1. popup' \in [Popups -> PopupStates] /\ popup'[p] = x
      /\ \A q \in Popups \ {p} : popup'[q] = popup[q]
  BY DEF Found, PopupsTyped
<1>2. PopupsTyped'
  BY <1>1 DEF Found, PopupsTyped, Posts
<1>3. \A q \in Popups : /\ popup'[q].run = popup[q].run
                        /\ popup'[q].pc # "closed" <=> popup[q].pc # "closed"
  BY <1>1
<1>4. PopupHasRun'
  BY <1>3, RunsBegin DEF Found, PopupHasRun
<1> QED BY <1>2, <1>4

\* The popups and their requests stay as they should be.
LEMMA StepPopups ==
    ASSUME Found, [Next]_vars
    PROVE  PopupHasRun' /\ PopupsTyped'
<1> USE BoundsAssumption
<1>0. popup \in [Popups -> PopupStates] /\ posts \subseteq Posts /\ resends \in 0 .. MaxResends
  BY DEF Found, PopupsTyped
<1>p. \A p \in Popups :
        /\ popup[p] \in PopupStates
        /\ popup[p].run \in Runs \cup {0} /\ popup[p].fetch \in 0 .. MaxFetches
        /\ popup[p].hops \in 0 .. MaxHops
  BY <1>0 DEF PopupStates
<1>d. ASSUME NEW p \in Popups
      PROVE  /\ [popup[p] EXCEPT !.pc = "done"] \in PopupStates
             /\ [popup[p] EXCEPT !.pc = "done"].pc = "done"
             /\ [popup[p] EXCEPT !.pc = "done"].run = popup[p].run
  BY <1>p DEF PopupStates
\* Neither popups nor requests move.
<1>n. ASSUME UNCHANGED <<popup, posts, resends>>
      PROVE  PopupHasRun' /\ PopupsTyped'
  BY <1>n, RunsBegin DEF Found, PopupHasRun, PopupsTyped
<1>1. ASSUME NEW p \in Popups, NEW r \in Runs, StartScrape(p, r)
      PROVE  PopupHasRun' /\ PopupsTyped'
  <2> DEFINE x == [popup[p] EXCEPT !.pc = "awaiting", !.run = r]
  <2>1. x \in PopupStates /\ x.pc = "awaiting" /\ x.run = r
    BY <1>p DEF PopupStates
  <2>2. popup' = [popup EXCEPT ![p] = x] /\ posts' = posts /\ resends' = resends
    BY <1>1 DEF StartScrape
  <2> HIDE DEF x
  <2>3. popup' \in [Popups -> PopupStates] /\ popup'[p] = x
        /\ \A q \in Popups \ {p} : popup'[q] = popup[q]
    BY <1>0, <2>1, <2>2
  <2>4. PopupsTyped'
    BY <2>1, <2>2, <2>3 DEF Found, PopupsTyped, Posts
  <2>5. engine[r] = "unborn" /\ engine'[r] = "running"
    BY <1>1 DEF StartScrape, Found, Maps
  <2>6. \A q \in Popups \ {p} : popup[q].pc # "closed" => popup[q].run # r
    BY <2>5 DEF Found, PopupHasRun
  <2>7. PopupHasRun'
    BY <2>1, <2>3, <2>5, <2>6, RunsBegin DEF Found, PopupHasRun
  <2> QED BY <2>4, <2>7
<1>2. ASSUME NEW p \in Popups, NEW r \in Runs, DriveFetch(p, r)
      PROVE  PopupHasRun' /\ PopupsTyped'
  <2> DEFINE x == [popup[p] EXCEPT !.pc = "fetching", !.fetch = queued[r]]
  <2>1. queued[r] \in 0 .. MaxFetches /\ queued[r] # 0 /\ popup[p].pc = "awaiting"
    BY <1>2 DEF DriveFetch, HandOut, Drives, Found, RunOK, RunTyped
  <2>2. x \in PopupStates /\ x.pc = "fetching" /\ x.run = popup[p].run /\ x.fetch # 0
    BY <1>p, <2>1 DEF PopupStates
  <2>3. popup' = [popup EXCEPT ![p] = x] /\ posts' = posts /\ resends' = resends
    BY <1>2 DEF DriveFetch
  <2> HIDE DEF x
  <2> QED BY <1>0, <2>1, <2>2, <2>3, PopupGoesOn
\* The popup waits for an answer of the connector, and goes on with the run it has.
<1>3. ASSUME NEW p \in Popups, NEW r \in Runs, DriveFetchLost(p, r)
      PROVE  PopupHasRun' /\ PopupsTyped'
  <2> DEFINE m == [popup |-> p, run |-> r, answer |-> popup[p].fetch]
  <2>1. m \in Posts /\ m.popup = p
    BY <1>3, <1>p DEF DriveFetchLost, Posts, Fetches
  <2>2. popup' = popup /\ posts' = posts \cup {m} /\ resends' = resends + 1
    BY <1>3 DEF DriveFetchLost
  <2> HIDE DEF m
  <2>3. resends' \in 0 .. MaxResends /\ popup[p].pc # "closed"
    BY <1>0, <1>3 DEF DriveFetchLost, Drives
  <2>4. PopupsTyped'
    BY <2>1, <2>2, <2>3 DEF Found, PopupsTyped
  <2>5. PopupHasRun'
    BY <2>2, RunsBegin DEF Found, PopupHasRun
  <2> QED BY <2>4, <2>5
<1>4. ASSUME NEW p \in Popups, NEW r \in Runs, Done(p, r)
      PROVE  PopupHasRun' /\ PopupsTyped'
  <2>1. popup' = [popup EXCEPT ![p] = [popup[p] EXCEPT !.pc = "done"]]
    BY <1>4 DEF Done
  <2>2. popup[p].pc # "closed" /\ posts' = posts /\ resends' = resends
    BY <1>4 DEF Done, Drives
  <2> QED BY <1>0, <1>d, <2>1, <2>2, PopupGoesOn
<1>5. ASSUME NEW m \in posts, RefuseContinue(m)
      PROVE  PopupHasRun' /\ PopupsTyped'
  <2>1. m.popup \in Popups /\ popup[m.popup].pc # "closed"
    BY DEF Found, PopupsTyped, Posts
  <2>2. popup' = [popup EXCEPT ![m.popup] = [popup[m.popup] EXCEPT !.pc = "done"]]
    BY <1>5 DEF RefuseContinue
  <2>3. posts' = posts \ {m} /\ resends' = resends
    BY <1>5 DEF RefuseContinue
  <2> QED BY <1>0, <1>d, <2>1, <2>2, <2>3, PopupGoesOn
<1>6. ASSUME NEW m \in posts, Continue(m)
      PROVE  PopupHasRun' /\ PopupsTyped'
  <2>1. posts' = posts \ {m} /\ popup' = popup /\ resends' = resends
    BY <1>6 DEF Continue
  <2> QED BY <2>1, RunsBegin DEF Found, PopupHasRun, PopupsTyped
<1>7. ASSUME NEW p \in Popups, PerformPageFetch(p)
      PROVE  PopupHasRun' /\ PopupsTyped'
  <2>1. popup[p].pc = "fetching" /\ popup[p].fetch # 0 /\ popup[p].run \in Runs
    BY <1>7 DEF PerformPageFetch, Found, PopupsTyped, PopupHasRun
  <2>2. CASE popup[p].hops < MaxHops
    <3> DEFINE x == [popup[p] EXCEPT !.pc = "awaiting", !.hops = popup[p].hops + 1]
               m == [popup |-> p, run |-> popup[p].run, answer |-> popup[p].fetch]
    <3>1. popup[p].hops + 1 \in 0 .. MaxHops
      BY <1>p, <2>2
    <3>2. x \in PopupStates /\ x.pc = "awaiting" /\ x.run = popup[p].run
      BY <1>p, <3>1 DEF PopupStates
    <3>3. m \in Posts /\ m.popup = p
      BY <1>p, <2>1 DEF Posts, Fetches
    <3>4. popup' = [popup EXCEPT ![p] = x] /\ posts' = posts \cup {m} /\ resends' = resends
      BY <1>7, <2>2 DEF PerformPageFetch
    <3> HIDE DEF x, m
    <3> QED BY <1>0, <2>1, <3>2, <3>3, <3>4, PopupGoesOn
  <2>3. CASE ~(popup[p].hops < MaxHops)
    <3>1. popup' = [popup EXCEPT ![p] = [popup[p] EXCEPT !.pc = "done"]]
      BY <1>7, <2>3 DEF PerformPageFetch
    <3>2. posts' = posts /\ resends' = resends
      BY <1>7, <2>3 DEF PerformPageFetch
    <3> QED BY <1>0, <1>d, <2>1, <3>1, <3>2, PopupGoesOn
  <2> QED BY <2>2, <2>3
<1>8. ASSUME NEW p \in Popups, ClosePopup(p)
      PROVE  PopupHasRun' /\ PopupsTyped'
  <2>1. popup' = [popup EXCEPT ![p] = [popup[p] EXCEPT !.pc = "done"]]
    BY <1>8 DEF ClosePopup
  <2>2. popup[p].pc # "closed" /\ posts' \subseteq posts /\ resends' = resends
    BY <1>8 DEF ClosePopup
  <2> QED BY <1>0, <1>d, <2>1, <2>2, PopupGoesOn
<1>9. ASSUME \/ \E r \in Runs : EngineFetch(r) \/ EngineEnds(r)
             \/ \E p \in Popups, r \in Runs : Capped(p, r)
             \/ Tick \/ ReapIdle \/ UNCHANGED vars
      PROVE  UNCHANGED <<popup, posts, resends>>
  BY <1>9 DEF EngineFetch, EngineEnds, Capped, Tick, ReapIdle, vars
<1> QED BY <1>1, <1>2, <1>3, <1>4, <1>5, <1>6, <1>7, <1>8, <1>9, <1>n
        DEF Next, HandlerStep, ContinueStep

\* Before the first request there is no run, no session and no popup at work.
LEMMA InitFound == Init => Found
<1> SUFFICES ASSUME Init PROVE Found
  OBVIOUS
<1> USE BoundsAssumption
<1>1. Maps
  BY DEF Init, Maps
<1>2. ASSUME NEW r \in Runs PROVE RunOK(r)
  <2>1. /\ engine[r] = "unborn" /\ asked[r] = 0 /\ queued[r] = 0 /\ session[r] = NoSession
        /\ got[r] = [f \in Fetches |-> 0]
    BY DEF Init
  <2>2. Answered(r) = {} /\ Cardinality(Answered(r)) = 0
    BY <2>1, FS_EmptySet DEF Answered
  <2>3. NoSession \in Sessions /\ NoSession.at = "gone"
    BY DEF NoSession, Sessions
  <2> QED BY <2>1, <2>2, <2>3
          DEF RunOK, RunTyped, Engines, ChannelHoldsLast, EngineFound, Parked, HopsCountAnswers
<1>3. \A p \in Popups : popup[p].pc = "closed"
  BY DEF Init
<1>4. PopupHasRun
  BY <1>3 DEF PopupHasRun
<1>5. [pc |-> "closed", run |-> 0, fetch |-> 0, hops |-> 0] \in PopupStates
  BY DEF PopupStates
<1>6. PopupsTyped
  BY <1>3, <1>5 DEF Init, PopupsTyped
<1> QED BY <1>1, <1>2, <1>4, <1>6 DEF Found

\* Every step keeps the invariant.
LEMMA NextFound == Found /\ [Next]_vars => Found'
<1> SUFFICES ASSUME Found, [Next]_vars PROVE Found'
  OBVIOUS
<1>1. Maps' /\ \A r \in Runs : RunOK(r)'
  BY StepRuns, RunStepOK DEF Found
<1> QED BY <1>1, StepPopups DEF Found

THEOREM FoundHolds == Spec => []Found
<1> QED BY InitFound, NextFound, PTL DEF Spec

\* The type invariant of the run.
THEOREM TypeCorrect == Spec => []TypeOK
<1>1. Found => TypeOK
  <2> SUFFICES ASSUME Found PROVE TypeOK
    OBVIOUS
  <2>1. \A r \in Runs : RunTyped(r)
    BY DEF Found, RunOK
  <2>2. engine \in [Runs -> Engines] /\ session \in [Runs -> Sessions]
    BY <2>1 DEF Found, Maps, RunTyped
  <2>3. /\ asked \in [Runs -> 0 .. MaxFetches] /\ queued \in [Runs -> 0 .. MaxFetches]
        /\ got \in [Runs -> [Fetches -> 0 .. MaxFetches]]
    BY <2>1 DEF Found, Maps, RunTyped
  <2> QED BY <2>2, <2>3 DEF Found, PopupsTyped, PopupStates, TypeOK, Engines, Sessions
<1> QED BY <1>1, FoundHolds, PTL

\* A session in the store can be continued, and an engine that waits is found there,
\* in its channel or with the handler that drives it.
THEOREM ParkedFound == Spec => []ParkedWhereFound
<1>1. Found => ParkedWhereFound
  BY DEF Found, RunOK, EngineFound, ParkedWhereFound
<1> QED BY <1>1, FoundHolds, PTL

\* However many fetches a page's translators ask for, the browser performs and
\* answers no more than the cap.
THEOREM HopsBound == Spec => []BrowserFetchesBounded
<1>1. Found => BrowserFetchesBounded
  <2> SUFFICES ASSUME Found, NEW r \in Runs
               PROVE  /\ Cardinality({f \in Fetches : got[r][f] # 0}) <= MaxHops
                      /\ session[r].hops <= MaxHops
    BY DEF BrowserFetchesBounded
  <2>1. session[r] \in Sessions /\ Cardinality(Answered(r)) <= MaxHops
    BY DEF Found, RunOK, RunTyped, HopsCountAnswers
  <2>2. session[r].hops <= MaxHops
    BY <2>1, BoundsAssumption DEF Sessions
  <2> QED BY <2>1, <2>2 DEF Answered
<1> QED BY <1>1, FoundHolds, PTL

----------------------------------------------------------------------------
(* Answers. *)

\* The session of run r, unless it was dropped, waits for the answer to fetch f.
AwaitsAnswer(r, f) ==
    session[r].at = "gone" \/ (session[r].at = "stored" /\ session[r].pending = f)

\* Each request on its way answers what its popup last fetched and its session
\* waits for, and so does the request a popup is about to send.
RequestsInOrder ==
    /\ \A m \in posts : /\ popup[m.popup].pc = "awaiting" /\ popup[m.popup].run = m.run
                        /\ popup[m.popup].fetch = m.answer
                        /\ AwaitsAnswer(m.run, m.answer)
    /\ \A p \in Popups : popup[p].pc = "fetching" => AwaitsAnswer(popup[p].run, popup[p].fetch)

\* The inductive invariant: it takes a browser that sends its requests once.
InOrder == resends = 0 => RequestsInOrder /\ AnswersReachTheirFetch

\* Only an answer ends a session's waiting for it.
LEMMA WaitingStays ==
    ASSUME Found, [Next]_vars, NEW r \in Runs, NEW f, AwaitsAnswer(r, f), engine[r] # "unborn",
           \A answer \in Fetches : ~IsContinued(r, answer)
    PROVE  AwaitsAnswer(r, f)' /\ got'[r] = got[r]
<1>1. RunStep(r)
  BY StepRuns
<1> QED BY <1>1 DEF RunStep, Stays, Works, Starts, HandsOut, IsCapped, IsDropped, SessionGoes,
                AwaitsAnswer

\* Only an answer changes what a run was given.
LEMMA AnswersStay ==
    ASSUME Found, [Next]_vars, NEW r \in Runs, \A answer \in Fetches : ~IsContinued(r, answer)
    PROVE  got'[r] = got[r]
<1>1. RunStep(r)
  BY StepRuns
<1> QED BY <1>1 DEF RunStep, Stays, Works, Starts, HandsOut, IsCapped, IsDropped

\* A run is answered by a request for it.
LEMMA AnsweredByPost ==
    ASSUME Found, [Next]_vars, NEW r \in Runs, NEW answer \in Fetches, IsContinued(r, answer)
    PROVE  \E m \in posts : m.run = r /\ Continue(m)
<1>1. session[r].at = "stored" /\ session'[r].at = "driven"
  BY DEF IsContinued, SessionGoes
<1>2. ASSUME NEW m \in posts, Continue(m), m.run # r PROVE FALSE
  BY <1>1, <1>2 DEF Continue, Found, Maps
<1>3. ASSUME NEW q \in Runs, EngineFetch(q) \/ EngineEnds(q) PROVE FALSE
  BY <1>1, <1>3 DEF EngineFetch, EngineEnds
<1>4. ASSUME NEW q \in Runs, session' = [session EXCEPT ![q] = session'[q]],
             session[q].at # "stored"
      PROVE  FALSE
  BY <1>1, <1>4 DEF Found, Maps
<1>5. ASSUME NEW q \in Runs, HandOut(q), session[q].at = "driven" PROVE FALSE
  BY <1>4, <1>5 DEF HandOut, Found, Maps
<1>6. ASSUME NEW p \in Popups, NEW q \in Runs, StartScrape(p, q) PROVE FALSE
  <2>1. session[q].at = "gone"
    BY <1>6 DEF StartScrape, Found, RunOK, ChannelHoldsLast
  <2> QED BY <1>4, <1>6, <2>1 DEF StartScrape, Found, Maps
<1>7. ASSUME NEW p \in Popups, NEW q \in Runs, Capped(p, q) PROVE FALSE
  BY <1>4, <1>7 DEF Capped, Found, Maps
<1>8. ASSUME NEW R \in SUBSET Runs, DropSessions(R) PROVE FALSE
  BY <1>1, <1>8 DEF DropSessions, NoSession
<1>9. ASSUME Tick PROVE FALSE
  BY <1>1, <1>9, SessionAged DEF Tick, Found, RunOK, RunTyped, Sessions
<1>10. ~UNCHANGED session
  BY <1>1
<1> QED
  BY <1>2, <1>3, <1>5, <1>6, <1>7, <1>8, <1>9, <1>10
  DEF Next, vars, HandlerStep, ContinueStep, DriveFetch, DriveFetchLost, Done, RefuseContinue,
      PerformPageFetch, ClosePopup, ReapIdle

\* AwaitsAnswer after the step, for a run and a fetch as they were before it.
StillAwaits(r, f) ==
    session'[r].at = "gone" \/ (session'[r].at = "stored" /\ session'[r].pending = f)

\* Two requests of one popup are the same request.
LEMMA OneRequestEach ==
    ASSUME Found, RequestsInOrder, NEW m \in posts, NEW n \in posts, m.popup = n.popup
    PROVE  m = n
<1>1. m \in Posts /\ n \in Posts
  BY DEF Found, PopupsTyped
<1>2. m.run = n.run /\ m.answer = n.answer
  BY DEF RequestsInOrder
<1> QED BY <1>1, <1>2 DEF Posts

\* A popup whose session is at work for it has no request on its way.
LEMMA NoRequestWhileDriven ==
    ASSUME Found, RequestsInOrder, NEW p \in Popups, NEW r \in Runs, Drives(p, r),
           NEW m \in posts
    PROVE  m.popup # p
BY DEF Drives, RequestsInOrder, AwaitsAnswer

\* No answer: a popup may be told what to fetch, or send what it has fetched.
LEMMA NextRequests ==
    ASSUME Found, [Next]_vars, RequestsInOrder, resends = 0, resends' = 0,
           \A m \in posts : ~Continue(m)
    PROVE  RequestsInOrder'
<1>w. ASSUME NEW r \in Runs, NEW f, AwaitsAnswer(r, f), engine[r] # "unborn"
      PROVE  StillAwaits(r, f)
  BY <1>w, AnsweredByPost, WaitingStays DEF AwaitsAnswer, StillAwaits
<1>p. \A m \in posts : /\ m.popup \in Popups /\ m.run \in Runs /\ engine[m.run] # "unborn"
                       /\ popup[m.popup].pc = "awaiting" /\ popup[m.popup].run = m.run
                       /\ popup[m.popup].fetch = m.answer
                       /\ StillAwaits(m.run, m.answer)
  <2>1. ASSUME NEW m \in posts
        PROVE  /\ m.popup \in Popups /\ m.run \in Runs /\ engine[m.run] # "unborn"
               /\ AwaitsAnswer(m.run, m.answer)
    BY DEF Found, PopupsTyped, Posts, PopupHasRun, RequestsInOrder
  <2> QED BY <1>w, <2>1 DEF RequestsInOrder
<1>f. ASSUME NEW p \in Popups, popup[p].pc = "fetching"
      PROVE  StillAwaits(popup[p].run, popup[p].fetch)
  BY <1>f, <1>w DEF Found, PopupHasRun, RequestsInOrder
<1>t. popup \in [Popups -> PopupStates]
  BY DEF Found, PopupsTyped
\* A popup without requests goes on to something that is no fetch.
<1>1. ASSUME NEW p \in Popups, \A m \in posts' : m \in posts /\ m.popup # p,
             popup'[p].pc # "fetching",
             \A q \in Popups \ {p} : popup'[q] = popup[q]
      PROVE  RequestsInOrder'
  <2>1. \A m \in posts' : /\ popup'[m.popup].pc = "awaiting" /\ popup'[m.popup].run = m.run
                          /\ popup'[m.popup].fetch = m.answer /\ StillAwaits(m.run, m.answer)
    BY <1>1, <1>p
  <2>2. ASSUME NEW q \in Popups, popup'[q].pc = "fetching"
        PROVE  StillAwaits(popup'[q].run, popup'[q].fetch)
    <3>1. q # p /\ popup'[q] = popup[q] /\ popup[q].pc = "fetching"
      BY <1>1, <2>2
    <3> QED BY <1>f, <3>1
  <2> QED BY <2>1, <2>2 DEF RequestsInOrder, AwaitsAnswer, StillAwaits
<1>2. ASSUME UNCHANGED <<popup, posts>>
      PROVE  RequestsInOrder'
  BY <1>2, <1>p, <1>f DEF RequestsInOrder, AwaitsAnswer, StillAwaits
<1>3. ASSUME NEW p \in Popups, NEW r \in Runs, StartScrape(p, r)
      PROVE  RequestsInOrder'
  <2>1. popup' = [popup EXCEPT ![p] = [popup[p] EXCEPT !.pc = "awaiting", !.run = r]]
        /\ popup[p].pc = "closed" /\ posts' = posts
    BY <1>3 DEF StartScrape
  <2>2. popup[p] \in PopupStates
    BY <1>t
  <2>3. popup'[p].pc = "awaiting"
    BY <1>t, <2>1, <2>2 DEF PopupStates
  <2> QED BY <1>1, <1>p, <1>t, <2>1, <2>3
<1>4. ASSUME NEW p \in Popups, NEW r \in Runs, DriveFetch(p, r)
      PROVE  RequestsInOrder'
  <2>1. /\ popup' = [popup EXCEPT ![p] = [popup[p] EXCEPT !.pc = "fetching", !.fetch = queued[r]]]
        /\ posts' = posts /\ popup[p].run = r
    BY <1>4 DEF DriveFetch, Drives
  <2>2. popup[p] \in PopupStates /\ \A q \in Popups \ {p} : popup'[q] = popup[q]
    BY <1>t, <2>1
  <2>3. popup'[p].run = r /\ popup'[p].fetch = queued[r]
    BY <1>t, <2>1, <2>2 DEF PopupStates
  <2>4. StillAwaits(r, queued[r])
    <3>1. session[r] \in Sessions
      BY DEF Found, RunOK, RunTyped
    <3>2. session'[r] = [session[r] EXCEPT !.at = "stored", !.hops = session[r].hops + 1,
                                           !.pending = queued[r]]
      BY <1>4 DEF DriveFetch, HandOut, Found, Maps
    <3>3. session'[r].at = "stored" /\ session'[r].pending = queued[r]
      BY <3>1, <3>2 DEF Sessions
    <3> QED BY <3>3 DEF StillAwaits
  <2>5. \A m \in posts : m.popup # p
    BY <1>4, NoRequestWhileDriven DEF DriveFetch
  <2>6. \A m \in posts' : /\ popup'[m.popup].pc = "awaiting" /\ popup'[m.popup].run = m.run
                          /\ popup'[m.popup].fetch = m.answer /\ StillAwaits(m.run, m.answer)
    BY <1>p, <2>1, <2>2, <2>5
  <2>7. ASSUME NEW q \in Popups, popup'[q].pc = "fetching"
        PROVE  StillAwaits(popup'[q].run, popup'[q].fetch)
    BY <1>f, <2>2, <2>3, <2>4, <2>7
  <2> QED BY <2>6, <2>7 DEF RequestsInOrder, AwaitsAnswer, StillAwaits
<1>5. ASSUME NEW p \in Popups, NEW r \in Runs, Done(p, r)
      PROVE  RequestsInOrder'
  <2>1. popup' = [popup EXCEPT ![p] = [popup[p] EXCEPT !.pc = "done"]] /\ posts' = posts
    BY <1>5 DEF Done
  <2>2. popup[p] \in PopupStates
    BY <1>t
  <2>3. popup'[p].pc = "done"
    BY <1>t, <2>1, <2>2 DEF PopupStates
  <2>4. \A m \in posts : m.popup # p
    BY <1>5, NoRequestWhileDriven DEF Done
  <2> QED BY <1>1, <1>t, <2>1, <2>3, <2>4
<1>6. ASSUME NEW n \in posts, RefuseContinue(n)
      PROVE  RequestsInOrder'
  <2>1. popup' = [popup EXCEPT ![n.popup] = [popup[n.popup] EXCEPT !.pc = "done"]]
        /\ posts' = posts \ {n} /\ n.popup \in Popups
    BY <1>6, <1>p DEF RefuseContinue
  <2>2. popup[n.popup] \in PopupStates
    BY <1>t, <2>1
  <2>3. popup'[n.popup].pc = "done"
    BY <1>t, <2>1, <2>2 DEF PopupStates
  <2>4. \A m \in posts \ {n} : m.popup # n.popup
    BY OneRequestEach
  <2> QED BY <1>1, <1>t, <2>1, <2>3, <2>4
<1>7. ASSUME NEW p \in Popups, PerformPageFetch(p)
      PROVE  RequestsInOrder'
  <2>1. popup[p].pc = "fetching" /\ popup[p] \in PopupStates
    BY <1>7, <1>t DEF PerformPageFetch
  <2>2. \A m \in posts : m.popup # p
    BY <1>p, <2>1
  <2>3. CASE popup[p].hops < MaxHops
    <3> DEFINE n == [popup |-> p, run |-> popup[p].run, answer |-> popup[p].fetch]
    <3>1. popup' = [popup EXCEPT ![p] =
                      [popup[p] EXCEPT !.pc = "awaiting", !.hops = popup[p].hops + 1]]
          /\ posts' = posts \cup {n}
      BY <1>7, <2>3 DEF PerformPageFetch
    <3>2. n.popup = p /\ n.run = popup[p].run /\ n.answer = popup[p].fetch
      OBVIOUS
    <3> HIDE DEF n
    <3>3. /\ popup'[p].pc = "awaiting" /\ popup'[p].run = popup[p].run
          /\ popup'[p].fetch = popup[p].fetch
      BY <1>t, <2>1, <3>1 DEF PopupStates
    <3>4. \A q \in Popups \ {p} : popup'[q] = popup[q]
      BY <1>t, <3>1
    <3>5. StillAwaits(n.run, n.answer)
      BY <1>f, <2>1, <3>2
    <3>6. \A m \in posts' : /\ popup'[m.popup].pc = "awaiting" /\ popup'[m.popup].run = m.run
                            /\ popup'[m.popup].fetch = m.answer /\ StillAwaits(m.run, m.answer)
      BY <1>p, <2>2, <3>1, <3>2, <3>3, <3>4, <3>5
    <3>7. ASSUME NEW q \in Popups, popup'[q].pc = "fetching"
          PROVE  StillAwaits(popup'[q].run, popup'[q].fetch)
      <4>1. q # p /\ popup'[q] = popup[q]
        BY <3>3, <3>4, <3>7
      <4> QED BY <1>f, <3>7, <4>1
    <3> QED BY <3>6, <3>7 DEF RequestsInOrder, AwaitsAnswer, StillAwaits
  <2>4. CASE ~(popup[p].hops < MaxHops)
    <3>1. popup' = [popup EXCEPT ![p] = [popup[p] EXCEPT !.pc = "done"]] /\ posts' = posts
      BY <1>7, <2>4 DEF PerformPageFetch
    <3>2. popup'[p].pc = "done"
      BY <1>t, <2>1, <3>1 DEF PopupStates
    <3> QED BY <1>1, <1>t, <2>2, <3>1, <3>2
  <2> QED BY <2>3, <2>4
<1>8. ASSUME NEW p \in Popups, ClosePopup(p)
      PROVE  RequestsInOrder'
  <2>1. popup' = [popup EXCEPT ![p] = [popup[p] EXCEPT !.pc = "done"]]
        /\ posts' = {m \in posts : m.popup # p}
    BY <1>8 DEF ClosePopup
  <2>2. popup[p] \in PopupStates
    BY <1>t
  <2>3. popup'[p].pc = "done"
    BY <1>t, <2>1, <2>2 DEF PopupStates
  <2> QED BY <1>1, <1>t, <2>1, <2>3
<1>9. ASSUME NEW p \in Popups, NEW r \in Runs, DriveFetchLost(p, r)
      PROVE  FALSE
  BY <1>9 DEF DriveFetchLost
<1>10. ASSUME \/ \E r \in Runs : EngineFetch(r) \/ EngineEnds(r)
              \/ \E p \in Popups, r \in Runs : Capped(p, r)
              \/ Tick \/ ReapIdle \/ UNCHANGED vars
       PROVE  UNCHANGED <<popup, posts>>
  BY <1>10 DEF EngineFetch, EngineEnds, Capped, Tick, ReapIdle, vars
<1> QED BY <1>2, <1>3, <1>4, <1>5, <1>6, <1>7, <1>8, <1>9, <1>10
        DEF Next, HandlerStep, ContinueStep

\* An answer: the request leaves, and its run alone goes on.
LEMMA NextAnswer ==
    ASSUME Found, [Next]_vars, RequestsInOrder, NEW m \in posts, Continue(m)
    PROVE  /\ RequestsInOrder'
           /\ \A r \in Runs \ {m.run} : got'[r] = got[r]
           /\ got'[m.run] = [got[m.run] EXCEPT ![m.answer] = m.answer]
<1>1. m \in Posts /\ m.run \in Runs /\ m.popup \in Popups
  BY DEF Found, PopupsTyped, Posts
<1>2. /\ popup' = popup /\ posts' = posts \ {m}
      /\ session[m.run].at = "stored"
      /\ \A r \in Runs \ {m.run} : session'[r] = session[r] /\ got'[r] = got[r]
  BY <1>1 DEF Continue, Found, Maps
<1>3. session[m.run].pending = m.answer
  BY <1>2 DEF RequestsInOrder, AwaitsAnswer
<1>4. got'[m.run] = [got[m.run] EXCEPT ![m.answer] = m.answer]
  BY <1>1, <1>3 DEF Continue, Found, Maps
\* The run is that of the request's popup, which waits, and of no other.
<1>5. ASSUME NEW p \in Popups, popup[p].pc # "closed", p # m.popup
      PROVE  popup[p].run \in Runs \ {m.run}
  <2>1. popup[m.popup].pc = "awaiting" /\ popup[m.popup].run = m.run
    BY DEF RequestsInOrder
  <2> QED BY <1>1, <1>5, <2>1 DEF Found, PopupHasRun
<1>6. ASSUME NEW n \in posts' PROVE n \in posts /\ n.run \in Runs \ {m.run}
  <2>1. n \in posts /\ n # m
    BY <1>2
  <2>2. n.popup # m.popup
    BY <2>1, OneRequestEach
  <2>3. n.popup \in Popups /\ popup[n.popup].pc = "awaiting" /\ popup[n.popup].run = n.run
    BY <2>1 DEF Found, PopupsTyped, Posts, RequestsInOrder
  <2> QED BY <1>5, <2>1, <2>2, <2>3
<1>7. ASSUME NEW p \in Popups, popup[p].pc = "fetching"
      PROVE  popup[p].run \in Runs \ {m.run}
  <2>1. p # m.popup
    BY <1>7 DEF RequestsInOrder
  <2> QED BY <1>5, <1>7, <2>1
<1>8. RequestsInOrder'
  BY <1>2, <1>6, <1>7 DEF RequestsInOrder, AwaitsAnswer
<1> QED BY <1>2, <1>4, <1>8

\* Every step keeps requests and answers in order.
LEMMA NextInOrder == Found /\ InOrder /\ [Next]_vars => InOrder'
<1> SUFFICES ASSUME Found, InOrder, [Next]_vars, resends' = 0
             PROVE  RequestsInOrder' /\ AnswersReachTheirFetch'
  BY DEF InOrder
<1>1. resends \in Nat
  BY BoundsAssumption DEF Found, PopupsTyped
<1>2. resends' = resends \/ resends' = resends + 1
  BY DEF Next, vars, EngineFetch, EngineEnds, StartScrape, HandlerStep, DriveFetch, DriveFetchLost,
         Capped, Done, ContinueStep, Continue, RefuseContinue, PerformPageFetch, ClosePopup, Tick,
         ReapIdle
<1>3. resends = 0 /\ RequestsInOrder /\ AnswersReachTheirFetch
  BY <1>1, <1>2 DEF InOrder
<1>4. \A r \in Runs, f \in Fetches : got[r][f] \in {0, f}
  BY <1>3 DEF AnswersReachTheirFetch
<1>5. ASSUME NEW m \in posts, Continue(m)
      PROVE  RequestsInOrder' /\ AnswersReachTheirFetch'
  <2>1. RequestsInOrder' /\ (\A r \in Runs \ {m.run} : got'[r] = got[r])
        /\ got'[m.run] = [got[m.run] EXCEPT ![m.answer] = m.answer]
    BY <1>3, <1>5, NextAnswer
  <2>2. m.run \in Runs /\ got[m.run] \in [Fetches -> 0 .. MaxFetches]
    BY DEF Found, PopupsTyped, Posts, RunOK, RunTyped
  <2>3. \A f \in Fetches : got'[m.run][f] \in {0, f}
    BY <1>4, <2>1, <2>2
  <2> QED BY <1>4, <2>1, <2>3 DEF AnswersReachTheirFetch
<1>6. CASE \A m \in posts : ~Continue(m)
  <2>1. \A r \in Runs : got'[r] = got[r]
    BY <1>6, AnsweredByPost, AnswersStay
  <2> QED BY <1>3, <1>4, <1>6, <2>1, NextRequests DEF AnswersReachTheirFetch
<1> QED BY <1>5, <1>6

\* As long as the browser sends each request once, the body the page fetched for one
\* fetch never reaches the translator as the answer to another one.
THEOREM AnswersInOrder == Spec => []AnswersReachTheirFetch
<1>1. Init => InOrder
  BY DEF Init, InOrder, RequestsInOrder, AnswersReachTheirFetch
<1>2. InOrder => AnswersReachTheirFetch
  BY DEF InOrder, AnswersReachTheirFetch
<1> QED BY <1>1, <1>2, NextInOrder, FoundHolds, PTL DEF Spec

=============================================================================
