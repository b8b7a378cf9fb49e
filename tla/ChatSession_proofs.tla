------------------------ MODULE ChatSession_proofs ------------------------
(***************************************************************************)
(* Theorems about ChatSession, for any papers, agents and bounds: types,   *)
(* that a session is summarized only after something was said in it, and   *)
(* that, for a user who takes care, what is filed under it was said in it. *)
(***************************************************************************)
EXTENDS ChatSession, SequenceTheorems, FiniteSetTheorems, WellFoundedInduction, TLAPS

----------------------------------------------------------------------------
(* What travels and what is kept, while n sessions have been created.      *)

Items == [who : {"user", "agent", "hidden"}, of : SUBSET Nat]

SessionState == [provider : Providers, turns : Seq(Items)]

RequestSet(n) ==
    [op : {"load", "summarize"}, arg : 1 .. n] \union [op : {"switch"}, arg : Providers]
        \union [op : {"send", "cancel", "answer"}, arg : Nat]

EventSet(n) ==
    [ev : {"created", "loadfailed"}, arg : 1 .. n, of : SUBSET Nat]
        \union [ev : {"switching", "connected"}, arg : Providers, of : SUBSET Nat]
        \union [ev : {"user", "delta", "turn", "error", "permission"}, arg : Nat, of : SUBSET Nat]

Phases == {"dormant", "connecting", "loop", "prompt", "summary", "loading", "stranded"}

ThreadState(n) ==
    [phase : Phases, sid : 0 .. n, msg : Nat, deferred : Nat, load : 0 .. n,
     provider : Providers, asks : Nat, cancelled : BOOLEAN, replied : BOOLEAN]

\* A thread in a session has one, and one that loads a session knows which; no
\* permission outlives its connection.
ThreadOK ==
    /\ thread \in ThreadState(Len(said))
    /\ thread.phase \in {"loop", "prompt", "summary", "loading"} => thread.sid # None
    /\ thread.phase = "loading" => thread.load # None
    /\ pending \subseteq 1 .. thread.asks
    /\ thread.phase \in {"dormant", "connecting", "stranded"} => pending = {}

PanelOK ==
    /\ DOMAIN panel = {"shown", "status", "backing", "subject", "provider", "open"}
    /\ panel.status \in {"idle", "connecting", "streaming", "error"}
    /\ panel.backing \in 0 .. Len(said) /\ panel.subject \in Subjects
    /\ panel.open \subseteq Nat

StoreOK ==
    /\ DOMAIN stored = Sessions
    /\ \A s \in Sessions : DOMAIN stored[s] # {} => s <= Len(said)
    /\ recent \in Seq(1 .. Len(said))

Types ==
    /\ said \in Seq(SessionState) /\ Len(said) <= MaxSessions
    /\ requests \in Seq(RequestSet(Len(said))) /\ events \in Seq(EventSet(Len(said)))
    /\ ThreadOK /\ PanelOK /\ StoreOK
    /\ asked \in Seq(Subjects) /\ Len(asked) <= MaxMessages

LEMMA TypesInit == Init => Types
<1> SUFFICES ASSUME Init PROVE Types
  OBVIOUS
<1>1. said \in Seq(SessionState) /\ Len(said) = 1
  BY ProviderAssumption DEF Init, Earlier, Item, Items, SessionState
<1>2. ThreadOK
  BY <1>1, ProviderAssumption DEF Init, ThreadOK, ThreadState, Phases, None
<1>3. PanelOK
  BY <1>1, SubjectAssumption DEF Init, PanelOK, None
<1>4. StoreOK
  <2>1. \A s \in Sessions \ {1} : stored[s] = Blank
    BY DEF Init
  <2>2. DOMAIN stored = Sessions
    BY DEF Init
  <2>3. DOMAIN Blank = {}
    BY DEF Blank
  <2>4. recent \in Seq(1 .. 1)
    BY DEF Init
  <2> QED BY <1>1, <2>1, <2>2, <2>3, <2>4 DEF StoreOK, Sessions
<1>5. asked \in Seq(Subjects) /\ Len(asked) = 1
  BY SubjectAssumption DEF Init
<1>6. requests = <<>> /\ events = <<>>
  BY DEF Init
<1> QED BY <1>1, <1>2, <1>3, <1>4, <1>5, <1>6, BoundsAssumption DEF Types
----------------------------------------------------------------------------
(* Types: the user.                                                        *)

\* A step of the panel leaves the thread and the sessions alone.
PanelStep ==
    /\ UNCHANGED agent
    /\ requests' \in Seq(RequestSet(Len(said))) /\ events' \in Seq(EventSet(Len(said)))
    /\ PanelOK' /\ StoreOK'
    /\ asked' \in Seq(Subjects) /\ Len(asked') <= MaxMessages

LEMMA PanelStepTypes == ASSUME Types, PanelStep PROVE Types'
BY DEF Types, PanelStep, agent, ThreadOK

LEMMA PostType ==
    ASSUME Types, NEW op, NEW arg, Request(op, arg) \in RequestSet(Len(said)), Post(op, arg)
    PROVE  requests' \in Seq(RequestSet(Len(said)))
<1>1. PICK r \in RequestSet(Len(said)) : r = Request(op, arg)
  OBVIOUS
<1>2. requests' = Append(requests, r)
  BY <1>1 DEF Post
<1> QED BY <1>2, AppendProperties DEF Types

LEMMA LeastOf ==
    ASSUME NEW S \in SUBSET Nat, S # {}
    PROVE  Min(S) \in S /\ \A x \in S : Min(S) <= x
<1> DEFINE Less == OpToRel(<, Nat)
<1>1. IsWellFoundedOn(Less, Nat)
  BY NatLessThanWellFounded
<1> HIDE DEF Less
<1>2. PICK m \in S : \A y \in S : ~(<<y, m>> \in Less)
  BY <1>1, WFMin
<1>3. \A y \in S : ~(y < m)
  BY <1>2 DEF OpToRel, Less
<1>4. \A y \in S : m <= y
  BY <1>3
<1> QED BY <1>4 DEF Min

LEMMA GreatestOf ==
    ASSUME NEW n \in Nat, NEW S \in SUBSET (1 .. n), S # {}
    PROVE  Max(S) \in S /\ \A x \in S : x <= Max(S)
<1> DEFINE T == {n - x : x \in S}
<1>0. \A x \in S : x \in Nat /\ n - x \in Nat
  OBVIOUS
<1>1. T \in SUBSET Nat /\ T # {}
  BY <1>0
<1>2. Min(T) \in T /\ \A y \in T : Min(T) <= y
  BY <1>1, LeastOf
<1>3. PICK m \in S : Min(T) = n - m
  BY <1>2
<1>4. ASSUME NEW x \in S PROVE x <= m
  <2>1. n - m <= n - x
    BY <1>2, <1>3
  <2> QED BY <1>0, <2>1
<1> QED BY <1>4 DEF Max

LEMMA Removed ==
    ASSUME NEW S, NEW q \in Seq(S), NEW i \in 1 .. Len(q)
    PROVE  /\ RemoveAt(q, i) \in Seq(S)
           /\ \A x \in ToSet(RemoveAt(q, i)) : x \in ToSet(q)
<1>0. Len(q) \in Nat /\ \A j \in 1 .. Len(q) : q[j] \in S /\ q[j] \in ToSet(q)
  BY LenProperties DEF ToSet
<1>1. q \in Seq(ToSet(q))
  BY <1>0
<1>2. SubSeq(q, 1, i - 1) \in Seq(ToSet(q))
  BY <1>0, <1>1, SubSeqProperties
<1>3. SubSeq(q, i + 1, Len(q)) \in Seq(ToSet(q))
  BY <1>0, <1>1, SubSeqProperties
<1>4. RemoveAt(q, i) \in Seq(ToSet(q))
  BY <1>2, <1>3, ConcatProperties DEF RemoveAt
<1>5. \A x \in ToSet(RemoveAt(q, i)) : x \in ToSet(q)
  BY <1>4 DEF ToSet
<1>6. ToSet(q) \subseteq S
  BY <1>0 DEF ToSet
<1> QED BY <1>4, <1>5, <1>6, SeqMonotonic

\* Filing something under a session that is there keeps the store.
LEMMA Moved ==
    ASSUME NEW n \in Nat, NEW q \in Seq(1 .. n), NEW s \in 1 .. n
    PROVE  /\ MoveToEnd(s, q) \in Seq(1 .. n)
           /\ \A x \in ToSet(MoveToEnd(s, q)) : x = s \/ x \in ToSet(q)
<1>1. /\ RemoveFirst(q, s) \in Seq(1 .. n)
      /\ \A x \in ToSet(RemoveFirst(q, s)) : x \in ToSet(q)
  <2>1. CASE \E i \in 1 .. Len(q) : q[i] = s
    <3> DEFINE I == {i \in 1 .. Len(q) : q[i] = s}
    <3>1. I # {} /\ I \subseteq 1 .. Len(q)
      BY <2>1
    <3>2. RemoveFirst(q, s) = RemoveAt(q, Min(I))
      BY <2>1, <3>1 DEF RemoveFirst, SelectInSeq
    <3>3. Len(q) \in Nat /\ I \subseteq Nat
      BY <3>1
    <3>4. Min(I) \in 1 .. Len(q)
      BY <3>1, <3>3, LeastOf
    <3> QED BY <3>2, <3>4, Removed
  <2>2. CASE ~ \E i \in 1 .. Len(q) : q[i] = s
    BY <2>2 DEF RemoveFirst
  <2> QED BY <2>1, <2>2
<1>2. PICK r : r = RemoveFirst(q, s)
  OBVIOUS
<1>3. /\ Append(r, s) \in Seq(1 .. n) /\ Len(Append(r, s)) = Len(r) + 1
      /\ \A i \in 1 .. Len(r) : Append(r, s)[i] = r[i]
      /\ Append(r, s)[Len(r) + 1] = s
  BY <1>1, <1>2, AppendProperties
<1>4. \A i \in 1 .. Len(Append(r, s)) : Append(r, s)[i] = s \/ Append(r, s)[i] \in ToSet(r)
  BY <1>1, <1>2, <1>3 DEF ToSet
<1>5. \A x \in ToSet(Append(r, s)) : x = s \/ x \in ToSet(r)
  BY <1>3, <1>4 DEF ToSet
<1> QED BY <1>1, <1>2, <1>3, <1>5 DEF MoveToEnd

LEMMA Recorded ==
    ASSUME Types, NEW s \in 1 .. Len(said), Record(s)
    PROVE  recent' \in Seq(1 .. Len(said))
BY Moved DEF Record, Types, StoreOK

LEMMA Saved ==
    ASSUME Types, NEW s \in 1 .. Len(said), NEW x, stored' = [stored EXCEPT ![s] = x],
           UNCHANGED said, recent' \in Seq(1 .. Len(said))
    PROVE  StoreOK'
<1>1. DOMAIN stored' = Sessions /\ \A t \in Sessions : t # s => stored'[t] = stored[t]
  BY DEF Types, StoreOK
<1>2. Len(said) \in Nat
  BY DEF Types
<1> QED BY <1>1, <1>2 DEF Types, StoreOK, Sessions

LEMMA StoreStays ==
    ASSUME Types, UNCHANGED said, UNCHANGED stored, UNCHANGED recent
    PROVE  StoreOK'
BY DEF Types, StoreOK

LEMMA AskTypes ==
    ASSUME Types, NEW who, Ask(who)
    PROVE  /\ UNCHANGED agent /\ events' \in Seq(EventSet(Len(said))) /\ PanelOK'
           /\ asked' \in Seq(Subjects) /\ Len(asked') <= MaxMessages /\ NextMessage \in Nat
<1>1. Len(asked) \in Nat /\ NextMessage = Len(asked) + 1
  BY DEF Types, NextMessage
<1>2. asked' \in Seq(Subjects) /\ Len(asked') = NextMessage
  BY <1>1, AppendProperties DEF Types, PanelOK, Ask
<1>3. PanelOK'
  BY DEF Types, PanelOK, Ask, agent
<1> QED BY <1>1, <1>2, <1>3 DEF Types, Ask

LEMMA SendMessageTypes ==
    ASSUME Types, SendMessage
    PROVE  Types'
<1>0. PICK m : m = NextMessage
  OBVIOUS
<1>1. /\ UNCHANGED agent /\ events' \in Seq(EventSet(Len(said))) /\ PanelOK'
      /\ asked' \in Seq(Subjects) /\ Len(asked') <= MaxMessages /\ m \in Nat
  BY <1>0, AskTypes DEF SendMessage
<1>2. panel.backing # None => panel.backing \in 1 .. Len(said)
  BY DEF Types, PanelOK, None
<1>3. StoreOK'
  <2>1. CASE panel.backing = None
    BY <1>1, <2>1, StoreStays DEF SendMessage, store, agent
  <2>2. CASE panel.backing # None
    BY <1>1, <1>2, <2>2, Recorded, Saved DEF SendMessage, SaveLast, agent
  <2> QED BY <2>1, <2>2
<1>4. requests' \in Seq(RequestSet(Len(said)))
  <2>1. PICK r \in RequestSet(Len(said)) : r = Request("send", m)
    BY <1>1 DEF Request, RequestSet
  <2>2. PICK q \in Seq(RequestSet(Len(said))) : q = Append(requests, r)
    BY AppendProperties DEF Types
  <2>3. panel.backing # None => <<Request("summarize", panel.backing)>> \in Seq(RequestSet(Len(said)))
    BY <1>2 DEF Request, RequestSet
  <2>4. requests' = q \/ (panel.backing # None /\ requests' = q \o <<Request("summarize", panel.backing)>>)
    BY <1>0, <2>1, <2>2 DEF SendMessage
  <2> QED BY <2>3, <2>4, ConcatProperties
<1> QED BY <1>1, <1>3, <1>4, PanelStepTypes DEF PanelStep

LEMMA UserTypes ==
    ASSUME Types, User
    PROVE  Types'
<1>0. Len(said) \in Nat
  BY DEF Types
<1>1. CASE SendMessage
  BY <1>1, SendMessageTypes
<1>2. CASE AddToWiki
  <2>1. /\ UNCHANGED agent /\ events' \in Seq(EventSet(Len(said))) /\ PanelOK'
        /\ asked' \in Seq(Subjects) /\ Len(asked') <= MaxMessages /\ NextMessage \in Nat
    BY <1>2, AskTypes DEF AddToWiki
  <2>2. Request("send", NextMessage) \in RequestSet(Len(said))
    BY <2>1 DEF Request, RequestSet
  <2>3. requests' \in Seq(RequestSet(Len(said)))
    BY <1>2, <2>2, PostType DEF AddToWiki
  <2> QED BY <1>2, <2>1, <2>3, StoreStays, PanelStepTypes DEF PanelStep, AddToWiki, store, agent
<1>3. CASE Stop
  <2>1. Request("cancel", None) \in RequestSet(Len(said))
    BY DEF Request, RequestSet, None
  <2>2. requests' \in Seq(RequestSet(Len(said)))
    BY <1>3, <2>1, PostType DEF Stop
  <2>3. PanelOK'
    BY <1>3 DEF Types, PanelOK, Stop, agent
  <2> QED BY <1>3, <2>2, <2>3, StoreStays, PanelStepTypes DEF PanelStep, Stop, store, agent, Types
<1>4. CASE NewChat
  <2>3. PanelOK'
    BY <1>4 DEF Types, PanelOK, NewChat, agent
  <2> QED BY <1>4, <2>3, StoreStays, PanelStepTypes DEF PanelStep, NewChat, store, agent, Types
<1>5. CASE AnswerPermission
  <2>0. PICK p \in panel.open : Post("answer", p) /\ panel' = [panel EXCEPT !.open = {}]
    BY <1>5 DEF AnswerPermission
  <2>1. Request("answer", p) \in RequestSet(Len(said))
    BY DEF Request, RequestSet, Types, PanelOK
  <2>2. requests' \in Seq(RequestSet(Len(said)))
    BY <2>0, <2>1, PostType
  <2>3. PanelOK'
    BY <1>5, <2>0 DEF Types, PanelOK, AnswerPermission, agent
  <2> QED BY <1>5, <2>2, <2>3, StoreStays, PanelStepTypes
          DEF PanelStep, AnswerPermission, store, agent, Types
<1>6. ASSUME NEW v \in Providers, SwitchAgent(v)
      PROVE  Types'
  <2>1. Request("switch", v) \in RequestSet(Len(said))
    BY DEF Request, RequestSet
  <2>2. requests' \in Seq(RequestSet(Len(said)))
    BY <1>6, <2>1, PostType DEF SwitchAgent
  <2>3. PanelOK'
    BY <1>6 DEF Types, PanelOK, SwitchAgent, agent
  <2> QED BY <1>6, <2>2, <2>3, StoreStays, PanelStepTypes DEF PanelStep, SwitchAgent, store, agent, Types
<1>7. ASSUME NEW s \in Sessions, BrowseTo(s)
      PROVE  Types'
  <2>1. Request("load", s) \in RequestSet(Len(said))
    BY <1>7 DEF BrowseTo, Request, RequestSet, Types
  <2>2. requests' \in Seq(RequestSet(Len(said)))
    BY <1>7, <2>1, PostType DEF BrowseTo
  <2>3. PanelOK'
    BY <1>7 DEF Types, PanelOK, BrowseTo, agent
  <2> QED BY <1>7, <2>2, <2>3, StoreStays, PanelStepTypes DEF PanelStep, BrowseTo, store, agent, Types
<1>8. ASSUME NEW x \in Subjects, OpenSubject(x)
      PROVE  Types'
  <2>3. PanelOK'
    BY <1>0, <1>8 DEF Types, PanelOK, OpenSubject, agent, None
  <2> QED BY <1>8, <2>3, StoreStays, PanelStepTypes DEF PanelStep, OpenSubject, store, agent, Types
<1> QED BY <1>1, <1>2, <1>3, <1>4, <1>5, <1>6, <1>7, <1>8 DEF User

LEMMA LastUsedIn ==
    ASSUME Types, NEW x, LastUsed(x) # 0
    PROVE  LastUsed(x) \in 1 .. Len(recent)
<1> DEFINE I == {i \in 1 .. Len(recent) : row[recent[i]].about = x /\ ~row[recent[i]].dead}
<1>1. LastUsed(x) = Max(I) /\ I # {}
  BY DEF LastUsed, SelectLastInSeq
<1>2. Len(recent) \in Nat /\ I \in SUBSET (1 .. Len(recent))
  BY DEF Types, StoreOK
<1> QED BY <1>1, <1>2, GreatestOf

LEMMA LookedUpTypes ==
    ASSUME Types, NEW x \in Subjects, LookedUp(x)
    PROVE  Types'
<1>1. CASE LastUsed(x) = 0
  <2>1. PanelOK'
    BY <1>1 DEF Types, PanelOK, LookedUp, agent
  <2> QED BY <1>1, <2>1, StoreStays, PanelStepTypes DEF PanelStep, LookedUp, store, agent, Types
<1>2. CASE LastUsed(x) # 0
  <2>2. LastUsed(x) \in 1 .. Len(recent)
    BY <1>2, LastUsedIn
  <2>3. PICK s \in 1 .. Len(said) : s = recent[LastUsed(x)]
    BY <2>2 DEF Types, StoreOK
  <2>4. PanelOK'
    <3>1. PICK tr, st : /\ panel' = [panel EXCEPT !.shown = tr, !.backing = s, !.status = st]
                        /\ st \in {"connecting", panel.status}
      BY <1>2, <2>3 DEF LookedUp
    <3>2. said' = said
      BY DEF LookedUp, agent
    <3> QED BY <3>1, <3>2 DEF Types, PanelOK
  <2>5. Request("load", s) \in RequestSet(Len(said))
    BY DEF Request, RequestSet
  <2>6. requests' \in Seq(RequestSet(Len(said)))
    BY <1>2, <2>3, <2>5, PostType DEF LookedUp, Types
  <2> QED BY <2>4, <2>6, StoreStays, PanelStepTypes DEF PanelStep, LookedUp, store, agent, Types
<1> QED BY <1>1, <1>2

----------------------------------------------------------------------------
(* Types: the event pump.                                                  *)

LEMMA Received ==
    ASSUME Types, NEW ev, Receive(ev)
    PROVE  /\ Head(events) \in EventSet(Len(said)) /\ Head(events).ev = ev
           /\ events' \in Seq(EventSet(Len(said)))
BY HeadTailProperties DEF Types, Receive

LEMMA HandleEventTypes ==
    ASSUME Types, HandleEvent
    PROVE  Types'
<1>0. /\ Len(said) \in Nat /\ asked \in Seq(Subjects) /\ Len(asked) <= MaxMessages
      /\ requests \in Seq(RequestSet(Len(said)))
  BY DEF Types
<1>b. panel.backing # None => panel.backing \in 1 .. Len(said)
  BY DEF Types, PanelOK, None
<1>1. CASE OnSwitching
  <2>1. /\ Head(events) \in EventSet(Len(said)) /\ Head(events).ev = "switching"
        /\ events' \in Seq(EventSet(Len(said)))
    BY <1>1, Received DEF OnSwitching
  <2>2. PanelOK'
    BY <1>1 DEF Types, PanelOK, OnSwitching, Unfiled, agent
  <2> QED BY <1>0, <1>1, <2>1, <2>2, StoreStays, PanelStepTypes DEF OnSwitching, PanelStep, Unfiled, store, agent
<1>2. CASE OnConnected
  <2>1. /\ Head(events) \in EventSet(Len(said)) /\ Head(events).ev = "connected"
        /\ events' \in Seq(EventSet(Len(said)))
    BY <1>2, Received DEF OnConnected
  <2>2. PanelOK'
    BY <1>2 DEF Types, PanelOK, OnConnected, Unfiled, agent
  <2> QED BY <1>0, <1>2, <2>1, <2>2, StoreStays, PanelStepTypes DEF OnConnected, PanelStep, Unfiled, store, agent
<1>3. CASE OnSessionCreated
  <2>1. /\ Head(events) \in EventSet(Len(said)) /\ Head(events).ev = "created"
        /\ events' \in Seq(EventSet(Len(said)))
    BY <1>3, Received DEF OnSessionCreated
  <2>2. Head(events).arg \in 0 .. Len(said)
    BY <1>0, <2>1 DEF EventSet
  <2>3. PanelOK'
    BY <1>3, <2>2 DEF Types, PanelOK, OnSessionCreated, Unfiled, agent
  <2> QED BY <1>0, <1>3, <2>1, <2>3, StoreStays, PanelStepTypes
          DEF OnSessionCreated, PanelStep, Unfiled, store, agent
<1>4. CASE OnUserMessage
  <2>1. events' \in Seq(EventSet(Len(said)))
    BY <1>4, Received DEF OnUserMessage
  <2>2. PanelOK'
    BY <1>4 DEF Types, PanelOK, OnUserMessage, agent
  <2>3. StoreOK'
    <3>1. CASE panel.backing = None
      BY <1>4, <3>1, StoreStays DEF OnUserMessage, agent
    <3>2. CASE panel.backing # None
      BY <1>4, <1>b, <3>2, Saved DEF OnUserMessage, SaveLast, agent, Types, StoreOK
    <3> QED BY <3>1, <3>2
  <2> QED BY <1>0, <1>4, <2>1, <2>2, <2>3, PanelStepTypes DEF OnUserMessage, PanelStep
<1>5. CASE OnTextDelta
  <2>1. events' \in Seq(EventSet(Len(said)))
    BY <1>5, Received DEF OnTextDelta
  <2>2. PanelOK'
    BY <1>5 DEF Types, PanelOK, OnTextDelta, Unfiled, agent
  <2> QED BY <1>0, <1>5, <2>1, <2>2, StoreStays, PanelStepTypes DEF OnTextDelta, PanelStep, Unfiled, store, agent
<1>6. CASE OnTurnCompleted
  <2>1. events' \in Seq(EventSet(Len(said)))
    BY <1>6, Received DEF OnTurnCompleted
  <2>2. PanelOK'
    BY <1>6 DEF Types, PanelOK, OnTurnCompleted, agent
  <2>3. StoreOK'
    <3>1. CASE panel.backing = None
      BY <1>6, <3>1, StoreStays DEF OnTurnCompleted, store, agent
    <3>2. CASE panel.backing # None
      <4>1. recent' \in Seq(1 .. Len(said))
        BY <1>6, <1>b, <3>2, Moved DEF OnTurnCompleted, Types, StoreOK
      <4> QED BY <1>6, <1>b, <3>2, <4>1, Saved DEF OnTurnCompleted, SaveAll, agent
    <3> QED BY <3>1, <3>2
  <2> QED BY <1>0, <1>6, <2>1, <2>2, <2>3, PanelStepTypes DEF OnTurnCompleted, PanelStep
<1>7. CASE OnSessionLoadFailed
  <2>1. events' \in Seq(EventSet(Len(said)))
    BY <1>7, Received DEF OnSessionLoadFailed
  <2>2. PanelOK'
    BY <1>7 DEF Types, PanelOK, OnSessionLoadFailed, agent
  <2> QED BY <1>0, <1>7, <2>1, <2>2, StoreStays, PanelStepTypes DEF OnSessionLoadFailed, PanelStep, agent
<1>8. CASE OnPermissionRequest
  <2>1. /\ Head(events) \in EventSet(Len(said)) /\ Head(events).ev = "permission"
        /\ events' \in Seq(EventSet(Len(said)))
    BY <1>8, Received DEF OnPermissionRequest
  <2>2. Head(events).arg \in Nat
    BY <1>0, <2>1 DEF EventSet
  <2>3. PanelOK'
    BY <1>8, <2>2 DEF Types, PanelOK, OnPermissionRequest, Unfiled, agent
  <2> QED BY <1>0, <1>8, <2>1, <2>3, StoreStays, PanelStepTypes
          DEF OnPermissionRequest, PanelStep, Unfiled, store, agent
<1>9. CASE OnError
  <2>1. events' \in Seq(EventSet(Len(said)))
    BY <1>9, Received DEF OnError
  <2>2. PanelOK'
    BY <1>9 DEF Types, PanelOK, OnError, Unfiled, agent
  <2> QED BY <1>0, <1>9, <2>1, <2>2, StoreStays, PanelStepTypes DEF OnError, PanelStep, Unfiled, store, agent
<1> QED BY <1>1, <1>2, <1>3, <1>4, <1>5, <1>6, <1>7, <1>8, <1>9 DEF HandleEvent

----------------------------------------------------------------------------
(* Types: the thread and the agent.                                        *)

\* A step of the thread or the agent leaves the panel and the store alone.
AgentStep ==
    /\ ThreadOnly
    /\ said' \in Seq(SessionState) /\ Len(said) <= Len(said') /\ Len(said') <= MaxSessions
    /\ requests' = requests \/ (requests # <<>> /\ requests' = Tail(requests))
    /\ events' \in Seq(EventSet(Len(said')))
    /\ ThreadOK'

LEMMA SetsGrow ==
    ASSUME NEW n \in Nat, NEW k \in Nat, n <= k
    PROVE  /\ RequestSet(n) \subseteq RequestSet(k) /\ EventSet(n) \subseteq EventSet(k)
           /\ ThreadState(n) \subseteq ThreadState(k) /\ 1 .. n \subseteq 1 .. k
<1>1. 1 .. n \subseteq 1 .. k /\ 0 .. n \subseteq 0 .. k
  OBVIOUS
<1>2. RequestSet(n) \subseteq RequestSet(k)
  BY <1>1 DEF RequestSet
<1>3. EventSet(n) \subseteq EventSet(k)
  BY <1>1 DEF EventSet
<1>4. ThreadState(n) \subseteq ThreadState(k)
  BY <1>1 DEF ThreadState
<1> QED BY <1>1, <1>2, <1>3, <1>4

LEMMA AgentStepTypes ==
    ASSUME Types, AgentStep
    PROVE  Types'
<1>0. Len(said) \in Nat /\ Len(said') \in Nat /\ Len(said) <= Len(said')
  BY LenProperties DEF Types, AgentStep
<1>g. /\ RequestSet(Len(said)) \subseteq RequestSet(Len(said'))
      /\ 1 .. Len(said) \subseteq 1 .. Len(said')
  BY <1>0, SetsGrow
<1>1. requests' \in Seq(RequestSet(Len(said')))
  <2>1. requests' \in Seq(RequestSet(Len(said)))
    BY HeadTailProperties DEF Types, AgentStep
  <2> QED BY <2>1, <1>g, SeqMonotonic
<1>2. PanelOK'
  BY <1>0 DEF AgentStep, ThreadOnly, Types, PanelOK
<1>3. StoreOK'
  <2>1. recent' \in Seq(1 .. Len(said'))
    BY <1>g, SeqMonotonic DEF AgentStep, ThreadOnly, store, Types, StoreOK
  <2>2. DOMAIN stored' = Sessions /\ \A s \in Sessions : DOMAIN stored'[s] # {} => s <= Len(said')
    <3>1. UNCHANGED stored
      BY DEF AgentStep, ThreadOnly, store
    <3>2. \A s \in Sessions : s \in Nat
      BY DEF Sessions
    <3>3. \A s \in Sessions : s <= Len(said) => s <= Len(said')
      BY <1>0, <3>2
    <3> QED BY <3>1, <3>3 DEF Types, StoreOK
  <2> QED BY <2>1, <2>2 DEF StoreOK
<1> QED BY <1>1, <1>2, <1>3 DEF AgentStep, ThreadOnly, Types

LEMMA Taken ==
    ASSUME Types, NEW op, Take(op)
    PROVE  /\ Head(requests) \in RequestSet(Len(said)) /\ Head(requests).op = op
           /\ requests # <<>> /\ requests' = Tail(requests)
BY HeadTailProperties DEF Types, Take

LEMMA TakenArg ==
    ASSUME Types
    PROVE  /\ Take("load") => Arg \in 1 .. Len(said)
           /\ Take("switch") => Arg \in Providers
           /\ Take("summarize") => Arg \in 1 .. Len(said)
           /\ Take("send") => Arg \in Nat
<1>1. \A op : Take(op) => Head(requests) \in RequestSet(Len(said)) /\ Head(requests).op = op
  BY Taken
<1> QED BY <1>1 DEF RequestSet, Arg

LEMMA Emitted ==
    ASSUME Types, NEW ev, NEW arg, Event(ev, arg, {}) \in EventSet(Len(said)), Emit(ev, arg)
    PROVE  events' \in Seq(EventSet(Len(said)))
<1>1. PICK e \in EventSet(Len(said)) : e = Event(ev, arg, {})
  OBVIOUS
<1>2. events' = Append(events, e)
  BY <1>1 DEF Emit
<1> QED BY <1>2, AppendProperties DEF Types

\* A session remembers one more item, and no other changes.
LEMMA Remembered ==
    ASSUME Types, thread.sid # None, NEW item \in Items, Remember(item)
    PROVE  /\ said' \in Seq(SessionState) /\ Len(said') = Len(said)
           /\ thread.sid \in 1 .. Len(said)
           /\ \A s \in 1 .. Len(said) :
                  /\ said'[s].provider = said[s].provider
                  /\ said'[s].turns = IF s = thread.sid THEN Append(said[s].turns, item)
                                                        ELSE said[s].turns
<1>1. thread.sid \in 1 .. Len(said) /\ Len(said) \in Nat
  BY DEF Types, ThreadOK, ThreadState, None
<1>2. \A s \in 1 .. Len(said) : said[s] \in SessionState
  BY <1>1 DEF Types
<1>3. PICK x : x = Append(said[thread.sid].turns, item)
  OBVIOUS
<1>4. said' = [said EXCEPT ![thread.sid].turns = x]
  BY <1>3 DEF Remember
<1>5. x \in Seq(Items)
  BY <1>1, <1>2, <1>3, AppendProperties DEF SessionState
<1>6. PICK y : y = [said[thread.sid] EXCEPT !.turns = x]
  OBVIOUS
<1>7. y \in SessionState /\ y.turns = x /\ y.provider = said[thread.sid].provider
  BY <1>1, <1>2, <1>5, <1>6 DEF SessionState
<1>8. said' = [said EXCEPT ![thread.sid] = y]
  BY <1>4, <1>6
<1>9. said' \in Seq(SessionState) /\ Len(said') = Len(said)
      /\ \A s \in 1 .. Len(said) : said'[s] = IF s = thread.sid THEN y ELSE said[s]
  BY <1>1, <1>7, <1>8, ExceptSeq DEF Types
<1> QED BY <1>1, <1>3, <1>7, <1>9

LEMMA SaidStays ==
    ASSUME Types, UNCHANGED said
    PROVE  said' \in Seq(SessionState) /\ Len(said) <= Len(said') /\ Len(said') <= MaxSessions
<1>1. Len(said) \in Nat
  BY DEF Types
<1> QED BY <1>1 DEF Types

LEMMA ReconnectTypes ==
    ASSUME Types, Reconnect
    PROVE  /\ ThreadOK' /\ requests # <<>> /\ requests' = Tail(requests) /\ Arg \in Providers
           /\ UNCHANGED said
<1>1. requests # <<>> /\ requests' = Tail(requests) /\ Arg \in Providers
  BY Taken, TakenArg DEF Reconnect
<1>2. PICK v \in Providers : thread' = [thread EXCEPT !.phase = "connecting", !.provider = v]
  BY <1>1 DEF Reconnect
<1>3. ThreadOK'
  BY <1>2 DEF Reconnect, ThreadOK, ThreadState, Types, Phases
<1> QED BY <1>1, <1>3 DEF Reconnect

LEMMA ThreadStepsTypes ==
    ASSUME Types, ThreadSteps
    PROVE  Types'
<1>0. /\ Len(said) \in Nat /\ events \in Seq(EventSet(Len(said)))
      /\ thread \in ThreadState(Len(said))
  BY DEF Types, ThreadOK
<1>1. CASE Wake
  <2>1. ThreadOK'
    BY <1>1 DEF Wake, Phase, Types, ThreadOK, ThreadState, Phases
  <2> QED BY <1>0, <1>1, <2>1, SaidStays, AgentStepTypes DEF Wake, AgentStep
<1>2. CASE Stranded
  <2>1. CASE Reconnect
    BY <1>0, <1>2, <2>1, ReconnectTypes, SaidStays, AgentStepTypes DEF Stranded, AgentStep
  <2>2. CASE ~Reconnect
    <3>1. requests # <<>> /\ requests' = Tail(requests) /\ UNCHANGED agent
      BY <1>2, <2>2 DEF Stranded, Drop
    <3>2. ThreadOK'
      BY <3>1 DEF agent, Types, ThreadOK
    <3> QED BY <1>0, <1>2, <3>1, <3>2, SaidStays, AgentStepTypes DEF Stranded, AgentStep, agent
  <2> QED BY <2>1, <2>2
<1>3. CASE Resolve
  <2>1. requests # <<>> /\ requests' = Tail(requests) /\ UNCHANGED <<events, thread, said>> /\ ThreadOnly
    BY <1>3, Taken DEF Resolve
  <2>2. pending' \subseteq pending
    BY <1>3 DEF Resolve
  <2>3. ThreadOK'
    BY <2>1, <2>2 DEF Types, ThreadOK
  <2> QED BY <1>0, <2>1, <2>3, SaidStays, AgentStepTypes DEF AgentStep
<1>4. CASE Loop /\ LoopSend
  <2>1. requests # <<>> /\ requests' = Tail(requests) /\ Arg \in Nat
    BY <1>4, Taken, TakenArg DEF LoopSend
  <2>2. PICK m \in Nat : m = Arg
    BY <2>1
  <2>3. Item("user", {m}) \in Items /\ thread.sid # None
    BY <1>4 DEF Item, Items, Loop, Types, ThreadOK
  <2>4. said' \in Seq(SessionState) /\ Len(said') = Len(said)
    BY <1>4, <2>2, <2>3, Remembered DEF LoopSend
  <2>5. thread' = [thread EXCEPT !.phase = "prompt", !.msg = m, !.cancelled = FALSE, !.replied = FALSE]
    BY <1>4, <2>2 DEF LoopSend
  <2>6. ThreadOK'
    BY <1>0, <1>4, <2>3, <2>4, <2>5 DEF LoopSend, Types, ThreadOK, ThreadState, Phases
  <2> QED BY <1>0, <1>4, <2>1, <2>4, <2>6, AgentStepTypes DEF LoopSend, AgentStep, Types
<1>5. CASE Loop /\ (LoopCancel \/ PromptDrop)
  BY <1>0, <1>5, SaidStays, AgentStepTypes
     DEF LoopCancel, PromptDrop, Drop, AgentStep, agent, Types, ThreadOK
<1>6. CASE Loop /\ LoopSummarize
  <2>1. requests # <<>> /\ requests' = Tail(requests)
    BY <1>6, Taken DEF LoopSummarize
  <2>2. ThreadOK'
    <3>1. pending' = pending /\ said' = said /\ ThreadOK /\ thread.phase = "loop"
      BY <1>6 DEF Loop, LoopSummarize, Types
    <3>2. CASE UNCHANGED thread
      BY <3>1, <3>2 DEF ThreadOK
    <3>3. CASE Phase("summary")
      <4>1. thread' \in ThreadState(Len(said)) /\ thread'.phase = "summary"
        BY <3>1, <3>3 DEF Phase, ThreadOK, ThreadState, Phases
      <4>2. thread'.sid = thread.sid /\ thread'.asks = thread.asks
        BY <3>1, <3>3 DEF Phase, ThreadOK, ThreadState
      <4> QED BY <3>1, <4>1, <4>2 DEF ThreadOK
    <3> QED BY <1>6, <3>2, <3>3 DEF LoopSummarize
  <2> QED BY <1>0, <1>6, <2>1, <2>2, SaidStays, AgentStepTypes DEF LoopSummarize, AgentStep
<1>7. CASE Loop /\ LoopLoad
  <2>1. requests # <<>> /\ requests' = Tail(requests) /\ Arg \in 1 .. Len(said)
    BY <1>7, Taken, TakenArg DEF LoopLoad
  <2>2. PICK s \in 1 .. Len(said) : s = Arg
    BY <2>1
  <2>3. thread' = [thread EXCEPT !.phase = "loading", !.load = s]
    BY <1>7, <2>2 DEF LoopLoad
  <2>4. ThreadOK'
    <3>0. s \in 0 .. Len(said) /\ None \in 0 .. Len(said)
      BY <1>0 DEF None
    <3>1. /\ thread' \in ThreadState(Len(said)) /\ thread'.phase = "loading" /\ thread'.load = s
          /\ thread'.sid = thread.sid /\ thread'.asks = thread.asks
      BY <1>0, <2>3, <3>0 DEF ThreadState, Phases
    <3>2. s # None /\ UNCHANGED <<said, pending>>
      BY <1>0, <1>7 DEF LoopLoad, None
    <3> QED BY <1>7, <3>1, <3>2 DEF Loop, Types, ThreadOK
  <2>5. Event("switching", thread.provider, {}) \in EventSet(Len(said))
    BY <1>0 DEF Event, EventSet, ThreadState
  <2>6. events' \in Seq(EventSet(Len(said)))
    BY <1>7, <2>5, Emitted DEF LoopLoad
  <2> QED BY <1>0, <1>7, <2>1, <2>4, <2>6, SaidStays, AgentStepTypes DEF LoopLoad, AgentStep
<1>8. CASE Loop /\ LoopSwitch
  <2>1. /\ ThreadOK' /\ requests # <<>> /\ requests' = Tail(requests) /\ UNCHANGED said
        /\ Arg \in Providers
    BY <1>8, ReconnectTypes DEF LoopSwitch
  <2>5. Event("switching", Arg, {}) \in EventSet(Len(said))
    BY <2>1 DEF Event, EventSet
  <2>6. events' \in Seq(EventSet(Len(said)))
    BY <1>8, <2>5, Emitted DEF LoopSwitch
  <2> QED BY <1>0, <1>8, <2>1, <2>6, SaidStays, AgentStepTypes DEF LoopSwitch, AgentStep
<1>9. CASE PollPrompt /\ PromptCancel
  <2>1. requests # <<>> /\ requests' = Tail(requests)
    BY <1>9, Taken DEF PromptCancel
  <2>2. ThreadOK'
    BY <1>9 DEF PromptCancel, Types, ThreadOK, ThreadState
  <2> QED BY <1>0, <1>9, <2>1, <2>2, SaidStays, AgentStepTypes DEF PromptCancel, AgentStep
<1>10. CASE PollPrompt /\ PromptSummarize
  <2>1. requests # <<>> /\ requests' = Tail(requests) /\ Arg \in Nat
    BY <1>10, Taken, TakenArg DEF PromptSummarize
  <2>2. PICK s \in Nat : s = Arg
    BY <2>1
  <2>3. thread' = [thread EXCEPT !.deferred = s]
    BY <1>10, <2>2 DEF PromptSummarize
  <2>4. ThreadOK'
    BY <1>10, <2>3 DEF PromptSummarize, Types, ThreadOK, ThreadState
  <2> QED BY <1>0, <1>10, <2>1, <2>4, SaidStays, AgentStepTypes DEF PromptSummarize, AgentStep
<1>11. CASE PollPrompt /\ PromptSwitch
  BY <1>0, <1>11, ReconnectTypes, SaidStays, AgentStepTypes DEF PromptSwitch, AgentStep
<1>12. CASE PollPrompt /\ PromptDrop
  BY <1>0, <1>12, SaidStays, AgentStepTypes DEF PromptDrop, Drop, AgentStep, agent, Types, ThreadOK
<1>13. CASE Loop /\ LoopLoadRefused
  <2>1. requests # <<>> /\ requests' = Tail(requests) /\ Arg \in 1 .. Len(said)
    BY <1>13, Taken, TakenArg DEF LoopLoadRefused
  <2>2. Event("loadfailed", Arg, {}) \in EventSet(Len(said))
    BY <2>1 DEF Event, EventSet
  <2>3. events' \in Seq(EventSet(Len(said)))
    BY <1>13, <2>2, Emitted DEF LoopLoadRefused
  <2>4. ThreadOK' /\ UNCHANGED said
    BY <1>13 DEF LoopLoadRefused, agent, Types, ThreadOK
  <2> QED BY <1>0, <1>13, <2>1, <2>3, <2>4, SaidStays, AgentStepTypes DEF LoopLoadRefused, AgentStep
<1> QED BY <1>1, <1>2, <1>3, <1>4, <1>5, <1>6, <1>7, <1>8, <1>9, <1>10, <1>11, <1>12, <1>13
        DEF ThreadSteps, Loop, PollPrompt

\* What the agent replays of a session are events.
LEMMA Replayed ==
    ASSUME NEW n \in Nat, NEW turns \in Seq(Items)
    PROVE  Replay(turns) \in Seq(EventSet(n))
<1> DEFINE r == Replay(turns)
<1>1. r = [i \in 1 .. Len(turns) |->
             Event(IF turns[i].who = "user" THEN "user" ELSE "delta", None, turns[i].of)]
  BY DEF Replay
<1>2. \A i \in 1 .. Len(turns) : turns[i] \in Items
  OBVIOUS
<1>3. \A i \in 1 .. Len(turns) :
          Event(IF turns[i].who = "user" THEN "user" ELSE "delta", None, turns[i].of) \in EventSet(n)
  BY <1>2 DEF Event, EventSet, Items, None
<1>4. Len(turns) \in Nat
  OBVIOUS
<1> QED BY <1>1, <1>3, <1>4, IsASeq

LEMMA AgentTypes ==
    ASSUME Types, AgentAnswers \/ AgentTurns
    PROVE  Types'
<1>0. /\ Len(said) \in Nat /\ events \in Seq(EventSet(Len(said)))
      /\ thread \in ThreadState(Len(said))
  BY DEF Types, ThreadOK
<1>1. CASE Connect
  <2>1. PICK s \in Nat : s = Len(said) + 1
    BY <1>0
  <2>2. PICK new \in SessionState : new = [provider |-> thread.provider, turns |-> <<>>]
    <3>1. <<>> \in Seq(Items) /\ thread.provider \in Providers
      BY <1>0 DEF ThreadState
    <3> QED BY <3>1 DEF SessionState
  <2>3. said' \in Seq(SessionState) /\ Len(said') = s /\ s <= MaxSessions
    BY <1>1, <2>1, <2>2, AppendProperties DEF Connect, Types
  <2>4. thread' = [thread EXCEPT !.phase = "loop", !.sid = s, !.asks = 0, !.deferred = None]
    BY <1>1, <2>1 DEF Connect
  <2>5. ThreadOK'
    <3>1. 0 .. Len(said) \subseteq 0 .. s /\ s \in 0 .. s /\ s # None
      BY <1>0, <2>1 DEF None
    <3>2. /\ thread' \in ThreadState(s) /\ thread'.phase = "loop" /\ thread'.sid = s
          /\ thread'.asks = 0
      BY <1>0, <2>4, <3>1 DEF ThreadState, Phases, None
    <3>3. pending' = {}
      BY <1>1 DEF Connect, Types, ThreadOK
    <3> QED BY <2>3, <3>1, <3>2, <3>3 DEF ThreadOK
  <2>6. events \in Seq(EventSet(s))
    BY <1>0, <2>1, SetsGrow, SeqMonotonic
  <2>7. /\ Event("connected", thread.provider, {}) \in EventSet(s)
        /\ Event("created", s, {}) \in EventSet(s)
    BY <1>0, <2>1 DEF Event, EventSet, ThreadState
  <2>8. PICK a \in EventSet(s), b \in EventSet(s) :
            a = Event("connected", thread.provider, {}) /\ b = Event("created", s, {})
    BY <2>7
  <2>9. events' = events \o <<a, b>> /\ <<a, b>> \in Seq(EventSet(s))
    BY <1>1, <2>1, <2>8 DEF Connect
  <2>10. events' \in Seq(EventSet(s))
    BY <2>6, <2>9, ConcatProperties
  <2> QED BY <1>0, <1>1, <2>1, <2>3, <2>5, <2>10, AgentStepTypes DEF Connect, AgentStep
<1>2. CASE ConnectFails
  <2>1. ThreadOK'
    BY <1>2 DEF ConnectFails, Phase, Types, ThreadOK, ThreadState, Phases
  <2>2. /\ Event("error", None, {}) \in EventSet(Len(said))
        /\ Event("connected", thread.provider, {}) \in EventSet(Len(said))
    BY <1>0 DEF Event, EventSet, None, ThreadState
  <2>3. events' \in Seq(EventSet(Len(said)))
    <3>1. PICK a \in EventSet(Len(said)), b \in EventSet(Len(said)) :
              a = Event("connected", thread.provider, {}) /\ b = Event("error", None, {})
      BY <2>2
    <3>2. PICK greeted \in {<<>>, <<a, b>>} : events' = events \o greeted \o <<b>>
      BY <1>2, <3>1 DEF ConnectFails
    <3>3. /\ <<>> \in Seq(EventSet(Len(said))) /\ <<b>> \in Seq(EventSet(Len(said)))
          /\ <<a, b>> \in Seq(EventSet(Len(said)))
      BY <3>1
    <3>4. greeted = <<>> \/ greeted = <<a, b>>
      BY <3>2
    <3>5. greeted \in Seq(EventSet(Len(said)))
      BY <3>3, <3>4
    <3> QED BY <1>0, <3>2, <3>3, <3>5, ConcatProperties
  <2> QED BY <1>0, <1>2, <2>1, <2>3, SaidStays, AgentStepTypes DEF ConnectFails, AgentStep
<1>3. CASE SummaryEnds
  <2>1. ThreadOK'
    BY <1>3 DEF SummaryEnds, Phase, Types, ThreadOK, ThreadState, Phases
  <2> QED BY <1>0, <1>3, <2>1, SaidStays, AgentStepTypes DEF SummaryEnds, AgentStep
<1>4. CASE LoadOk
  <2>1. PICK s \in 1 .. Len(said) : s = thread.load
    BY <1>0, <1>4 DEF LoadOk, Types, ThreadOK, ThreadState, None
  <2>2. thread' = [thread EXCEPT !.phase = "loop", !.sid = s, !.load = None]
    BY <1>4, <2>1 DEF LoadOk
  <2>3. ThreadOK'
    <3>0. s \in 0 .. Len(said) /\ None \in 0 .. Len(said)
      BY <1>0 DEF None
    <3>1. /\ thread' \in ThreadState(Len(said)) /\ thread'.phase = "loop" /\ thread'.sid = s
          /\ thread'.asks = thread.asks
      BY <1>0, <2>2, <3>0 DEF ThreadState, Phases
    <3>2. s # None /\ UNCHANGED <<said, pending>>
      BY <1>0, <1>4 DEF LoadOk, None
    <3> QED BY <1>4, <3>1, <3>2 DEF Types, ThreadOK
  <2>4. said[s].turns \in Seq(Items)
    <3>1. said[s] \in SessionState
      BY <1>0 DEF Types
    <3> QED BY <3>1 DEF SessionState
  <2>5. PICK r \in Seq(EventSet(Len(said))) : r = Replay(said[s].turns)
    BY <1>0, <2>4, Replayed
  <2>6. PICK c \in EventSet(Len(said)) : c = Event("created", s, {})
    BY DEF Event, EventSet
  <2>7. events' = events \o r \o <<c>>
    BY <1>4, <2>1, <2>5, <2>6 DEF LoadOk
  <2>8. events' \in Seq(EventSet(Len(said)))
    BY <1>0, <2>5, <2>6, <2>7, ConcatProperties
  <2> QED BY <1>0, <1>4, <2>3, <2>8, SaidStays, AgentStepTypes DEF LoadOk, AgentStep
<1>5. CASE LoadFails
  <2>1. PICK s \in 1 .. Len(said) : s = thread.load
    BY <1>0, <1>5 DEF LoadFails, Types, ThreadOK, ThreadState, None
  <2>2. ThreadOK'
    <3>0. s \in 0 .. Len(said) /\ None \in 0 .. Len(said)
      BY <1>0 DEF None
    <3>1. /\ thread' \in ThreadState(Len(said)) /\ thread'.phase = "loop"
          /\ thread'.sid = thread.sid /\ thread'.asks = thread.asks
      BY <1>0, <1>5, <3>0 DEF LoadFails, ThreadState, Phases
    <3> QED BY <1>5, <3>1 DEF LoadFails, Types, ThreadOK
  <2>3. Event("loadfailed", s, {}) \in EventSet(Len(said))
    BY DEF Event, EventSet
  <2>4. events' \in Seq(EventSet(Len(said)))
    BY <1>5, <2>1, <2>3, Emitted DEF LoadFails
  <2> QED BY <1>0, <1>5, <2>2, <2>4, SaidStays, AgentStepTypes DEF LoadFails, AgentStep
<1>6. CASE AgentReplies
  <2>1. PICK m \in Nat : m = thread.msg
    BY <1>0 DEF ThreadState
  <2>2. Item("agent", {m}) \in Items /\ thread.sid # None
    BY <1>6 DEF Item, Items, AgentReplies, Types, ThreadOK
  <2>3. said' \in Seq(SessionState) /\ Len(said') = Len(said)
    BY <1>6, <2>1, <2>2, Remembered DEF AgentReplies
  <2>4. ThreadOK'
    BY <1>0, <1>6, <2>2, <2>3 DEF AgentReplies, Types, ThreadOK, ThreadState, Phases
  <2>5. PICK e \in EventSet(Len(said)) : e = Event("delta", None, {m})
    BY DEF Event, EventSet, None
  <2>6. events' \in Seq(EventSet(Len(said)))
    BY <1>0, <1>6, <2>1, <2>5, AppendProperties DEF AgentReplies
  <2> QED BY <1>0, <1>6, <2>3, <2>4, <2>6, AgentStepTypes DEF AgentReplies, AgentStep, Types
<1>7. CASE AgentAsksPermission
  <2>1. PICK k \in Nat : k = thread.asks + 1
    BY <1>0 DEF ThreadState
  <2>2. /\ thread' = [thread EXCEPT !.asks = k] /\ pending' = pending \union {k}
        /\ thread.asks + 1 = k /\ thread.asks \in Nat
    BY <1>0, <1>7, <2>1 DEF AgentAsksPermission, ThreadState
  <2>3. ThreadOK'
    <3>1. thread' \in ThreadState(Len(said)) /\ thread'.asks = k /\ thread'.phase = "prompt"
          /\ thread'.sid = thread.sid
      BY <1>0, <1>7, <2>2 DEF AgentAsksPermission, ThreadState
    <3>2. pending' \subseteq 1 .. k
      <4>1. 1 .. thread.asks \subseteq 1 .. k /\ k \in 1 .. k
        BY <2>2
      <4> QED BY <2>2, <4>1 DEF Types, ThreadOK
    <3> QED BY <1>7, <3>1, <3>2 DEF AgentAsksPermission, Types, ThreadOK
  <2>4. Event("permission", k, {}) \in EventSet(Len(said))
    BY DEF Event, EventSet
  <2>5. events' \in Seq(EventSet(Len(said)))
    BY <1>7, <2>1, <2>4, Emitted DEF AgentAsksPermission
  <2> QED BY <1>0, <1>7, <2>3, <2>5, SaidStays, AgentStepTypes DEF AgentAsksPermission, AgentStep
<1>8. ASSUME NEW ev \in {"turn", "error"}, TurnEnds(ev)
      PROVE  Types'
  <2>1. ThreadOK'
    BY <1>0, <1>8 DEF TurnEnds, Types, ThreadOK, ThreadState, Phases, None
  <2>2. Event(ev, None, {}) \in EventSet(Len(said))
    BY DEF Event, EventSet, None
  <2>3. events' \in Seq(EventSet(Len(said)))
    BY <1>8, <2>2, Emitted DEF TurnEnds
  <2> QED BY <1>0, <1>8, <2>1, <2>3, SaidStays, AgentStepTypes DEF TurnEnds, AgentStep
<1> QED BY <1>1, <1>2, <1>3, <1>4, <1>5, <1>6, <1>7, <1>8 DEF AgentAnswers, AgentTurns

----------------------------------------------------------------------------
(* Types, of every state.                                                  *)

LEMMA TypesStep == Types /\ [Next]_vars => Types'
<1> SUFFICES ASSUME Types, [Next]_vars PROVE Types'
  OBVIOUS
<1>1. CASE Next
  BY <1>1, UserTypes, HandleEventTypes, ThreadStepsTypes, AgentTypes, LookedUpTypes DEF Next
<1>2. CASE UNCHANGED vars
  BY <1>2 DEF vars, agent, store, Types, ThreadOK, PanelOK, StoreOK
<1> QED BY <1>1, <1>2

\* What every state of a run has, whatever the bounds.
THEOREM TypesHold == Spec => []Types
BY TypesInit, TypesStep, PTL DEF Spec

\* The panel, the thread and the store have only sessions that were created, and
\* permissions the agent has asked for.
THEOREM TypeCorrect == Spec => []TypeOK
<1>1. Types => TypeOK
  <2> SUFFICES ASSUME Types PROVE TypeOK
    OBVIOUS
  <2>1. \A s \in ToSet(recent) : s <= Len(said)
    BY DEF Types, StoreOK, ToSet
  <2> QED BY <2>1 DEF Types, ThreadOK, ThreadState, Phases, PanelOK, StoreOK, TypeOK
<1> QED BY <1>1, TypesHold, PTL

----------------------------------------------------------------------------
(* Summaries.                                                              *)

Spoken(s) == said[s].turns # <<>>

\* A request for a summary stands behind the message it was made with, until that
\* was taken; then the thread, in phase ph, has a session somebody spoke in.
SummariesFine(q, ph, spoken) ==
    \A i \in 1 .. Len(q) : q[i].op = "summarize" =>
        IF i = 1 THEN ph = "stranded" \/ (ph \in {"loop", "prompt", "summary"} /\ spoken)
                 ELSE q[i - 1].op = "send"

SummaryInv ==
    /\ Types
    /\ thread.phase \in {"prompt", "summary"} => Spoken(thread.sid)
    /\ SummariesFine(requests, thread.phase, Spoken(thread.sid))

\* Any other request goes behind those there are.
LEMMA SummariesPosted ==
    ASSUME NEW S, NEW q \in Seq(S), NEW ph, NEW spoken, SummariesFine(q, ph, spoken),
           NEW r \in S, r.op # "summarize" \/ (q # <<>> /\ q[Len(q)].op = "send")
    PROVE  SummariesFine(Append(q, r), ph, spoken)
<1>1. PICK p : p = Append(q, r)
  OBVIOUS
<1>2. /\ Len(q) \in Nat /\ Len(p) = Len(q) + 1 /\ p[Len(q) + 1] = r
      /\ \A i \in 1 .. Len(q) : p[i] = q[i]
  BY <1>1, AppendProperties
<1>3. SUFFICES ASSUME NEW i \in 1 .. Len(p), p[i].op = "summarize"
               PROVE  IF i = 1 THEN ph = "stranded" \/ (ph \in {"loop", "prompt", "summary"} /\ spoken)
                               ELSE p[i - 1].op = "send"
  BY <1>1 DEF SummariesFine
<1>4. CASE i <= Len(q)
  <2>1. i \in 1 .. Len(q) /\ (i # 1 => i - 1 \in 1 .. Len(q))
    BY <1>2, <1>4
  <2> QED BY <1>2, <1>3, <2>1 DEF SummariesFine
<1>5. CASE i = Len(q) + 1
  <2>1. q # <<>> /\ q[Len(q)].op = "send"
    BY <1>2, <1>3, <1>5
  <2>2. Len(q) \in 1 .. Len(q) /\ i # 1 /\ i - 1 = Len(q)
    BY <1>2, <1>5, <2>1, EmptySeq
  <2> QED BY <1>2, <2>1, <2>2
<1> QED BY <1>2, <1>4, <1>5

\* When the first request is taken, only what it makes of the thread matters.
LEMMA SummariesTaken ==
    ASSUME NEW S, NEW q \in Seq(S), q # <<>>, NEW ph, NEW spoken, NEW ph2, NEW spoken2,
           SummariesFine(q, ph, spoken),
           Head(q).op = "send" =>
               ph2 = "stranded" \/ (ph2 \in {"loop", "prompt", "summary"} /\ spoken2)
    PROVE  SummariesFine(Tail(q), ph2, spoken2)
<1>1. PICK p : p = Tail(q)
  OBVIOUS
<1>2. /\ Len(q) \in Nat /\ Len(p) = Len(q) - 1 /\ \A i \in 1 .. Len(p) : p[i] = q[i + 1]
      /\ Head(q) = q[1]
  BY <1>1, HeadTailProperties, LenProperties
<1>3. SUFFICES ASSUME NEW i \in 1 .. Len(p), p[i].op = "summarize"
               PROVE  IF i = 1 THEN ph2 = "stranded" \/ (ph2 \in {"loop", "prompt", "summary"} /\ spoken2)
                               ELSE p[i - 1].op = "send"
  BY <1>1 DEF SummariesFine
<1>4. i + 1 \in 1 .. Len(q) /\ i + 1 # 1 /\ i + 1 - 1 = i /\ q[i + 1].op = "summarize"
  BY <1>2, <1>3
<1>5. q[i].op = "send"
  BY <1>4 DEF SummariesFine
<1>6. CASE i = 1
  BY <1>2, <1>5, <1>6
<1>7. CASE i # 1
  <2>1. i - 1 \in 1 .. Len(p) /\ i - 1 + 1 = i
    BY <1>2, <1>7
  <2> QED BY <1>2, <1>5, <1>7, <2>1
<1> QED BY <1>6, <1>7

\* The panel's steps send what they send in that order.
LEMMA PanelSummaries ==
    ASSUME SummaryInv, User \/ HandleEvent \/ \E x \in Subjects : LookedUp(x)
    PROVE  /\ UNCHANGED agent
           /\ SummariesFine(requests', thread.phase, Spoken(thread.sid))
<1> DEFINE Fine(q) == SummariesFine(q, thread.phase, Spoken(thread.sid))
<1>0. Types /\ Fine(requests)
  BY DEF SummaryInv
<1>1. CASE SendMessage
  <2>1. UNCHANGED agent
    BY <1>1 DEF SendMessage, Ask
  <2>2. PICK m : m = NextMessage
    OBVIOUS
  <2>3. m \in Nat
    BY <1>1, <1>0, <2>2, AskTypes DEF SendMessage
  <2>4. PICK r : r = Request("send", m)
    OBVIOUS
  <2>5. PICK q : q = Append(requests, r)
    OBVIOUS
  <2>6. r \in RequestSet(Len(said)) /\ r.op = "send"
    BY <2>3, <2>4 DEF Request, RequestSet
  <2>7. /\ Fine(q) /\ q \in Seq(RequestSet(Len(said))) /\ q # <<>> /\ q[Len(q)] = r
    <3>1. requests \in Seq(RequestSet(Len(said)))
      BY <1>0 DEF Types
    <3>2. Fine(q)
      BY <1>0, <2>5, <2>6, <3>1, SummariesPosted
    <3> QED BY <2>5, <2>6, <3>1, <3>2, AppendProperties
  <2>8. CASE panel.backing # None /\ \A i \in DOMAIN panel.shown : panel.shown[i].who = "agent"
    <3>1. PICK t : t = Request("summarize", panel.backing)
      OBVIOUS
    <3>2. t \in RequestSet(Len(said))
      BY <1>0, <2>8, <3>1 DEF Types, PanelOK, None, Request, RequestSet
    <3>3. requests' = Append(q, t)
      BY <1>1, <2>2, <2>4, <2>5, <2>7, <2>8, <3>1, <3>2, AppendIsConcat DEF SendMessage
    <3> HIDE DEF Fine
    <3>4. Fine(Append(q, t))
      BY <2>6, <2>7, <3>2, SummariesPosted DEF Fine
    <3> QED BY <2>1, <3>3, <3>4 DEF Fine
  <2>9. CASE ~(panel.backing # None /\ \A i \in DOMAIN panel.shown : panel.shown[i].who = "agent")
    <3>1. requests' = q
      BY <1>1, <2>2, <2>4, <2>5, <2>7, <2>9 DEF SendMessage
    <3> QED BY <2>1, <2>7, <3>1
  <2> QED BY <2>8, <2>9
<1>2. CASE ~SendMessage
  <2>1. /\ UNCHANGED agent
        /\ \/ requests' = requests
           \/ \E op \in {"send", "cancel", "answer", "switch", "load"} : \E arg : Post(op, arg)
    BY <1>2 DEF User, HandleEvent, LookedUp, AddToWiki, Ask, Stop, NewChat, AnswerPermission,
       SwitchAgent, BrowseTo, OpenSubject, OnSwitching, OnConnected, OnSessionCreated,
       OnUserMessage, OnTextDelta, OnTurnCompleted, OnSessionLoadFailed, OnPermissionRequest,
       OnError, Unfiled
  <2>2. ASSUME NEW op \in {"send", "cancel", "answer", "switch", "load"}, NEW arg, Post(op, arg)
        PROVE  Fine(requests')
    <3>1. PICK r : r = Request(op, arg)
      OBVIOUS
    <3>2. r.op # "summarize"
      BY <3>1 DEF Request
    <3>3. PICK S : S = RequestSet(Len(said)) \union {r}
      OBVIOUS
    <3>4. requests \in Seq(S) /\ r \in S
      BY <1>0, <3>3, SeqMonotonic DEF Types
    <3>5. requests' = Append(requests, r)
      BY <2>2, <3>1 DEF Post
    <3> HIDE DEF Fine
    <3>6. Fine(Append(requests, r))
      BY <1>0, <3>2, <3>4, SummariesPosted DEF Fine
    <3> QED BY <3>5, <3>6
  <2> QED BY <1>0, <2>1, <2>2
<1> QED BY <1>1, <1>2

\* What the thread's phase asks for, and what becomes of the first request.
LEMMA AgentSummaries ==
    ASSUME SummaryInv, ThreadSteps \/ AgentAnswers \/ AgentTurns, Types'
    PROVE  SummaryInv'
<1> DEFINE ph2 == thread.phase'
           spoken2 == Spoken(thread.sid)'
<1>0. /\ Types
      /\ thread.phase \in {"prompt", "summary"} => Spoken(thread.sid)
      /\ SummariesFine(requests, thread.phase, Spoken(thread.sid))
      /\ Len(said) \in Nat /\ requests \in Seq(RequestSet(Len(said)))
  BY DEF SummaryInv, Types
<1>1. SUFFICES /\ ph2 \in {"prompt", "summary"} => spoken2
               /\ SummariesFine(requests', ph2, spoken2)
  BY DEF SummaryInv
<1>2. thread.phase \in {"loop", "prompt", "summary", "loading"} => thread.sid \in 1 .. Len(said)
  <2>1. thread.sid \in 0 .. Len(said)
    BY <1>0 DEF Types, ThreadOK, ThreadState
  <2>2. thread.phase \in {"loop", "prompt", "summary", "loading"} => thread.sid # 0
    BY <1>0 DEF Types, ThreadOK, None
  <2> QED BY <1>0, <2>1, <2>2
\* A step that takes a request.
<1>3. ASSUME requests # <<>>, requests' = Tail(requests),
             Head(requests).op = "send" =>
                 ph2 = "stranded" \/ (ph2 \in {"loop", "prompt", "summary"} /\ spoken2)
      PROVE  SummariesFine(requests', ph2, spoken2)
  <2>1. PICK p, s : p = ph2 /\ s = spoken2
    OBVIOUS
  <2> HIDE DEF ph2, spoken2
  <2>2. SummariesFine(Tail(requests), p, s)
    BY <1>0, <1>3, <2>1, SummariesTaken
  <2> QED BY <1>3, <2>1, <2>2
\* A step that takes none and changes a phase that reads requests to one that does.
<1>4. ASSUME requests' = requests,
             \/ thread.phase \in {"dormant", "connecting", "loading"}
             \/ /\ thread.phase \in {"loop", "prompt", "summary"}
                /\ ph2 \in {"loop", "prompt", "summary"}
                /\ Spoken(thread.sid) => spoken2
      PROVE  SummariesFine(requests', ph2, spoken2)
  BY <1>0, <1>4 DEF SummariesFine
\* Steps that leave the sessions as they are.
<1>5. ASSUME UNCHANGED said, thread.sid' = thread.sid
      PROVE  spoken2 = Spoken(thread.sid)
  BY <1>5 DEF Spoken
<1>6. \A op : Take(op) => requests # <<>> /\ requests' = Tail(requests) /\ Head(requests).op = op
  BY DEF Take
<1>7. \A ops : Drop(ops) => requests # <<>> /\ requests' = Tail(requests) /\ Head(requests).op \in ops
  BY DEF Drop
\* Steps in which something is said.
<1>8. ASSUME NEW item \in Items, thread.sid # None, Remember(item), thread.sid' = thread.sid
      PROVE  spoken2
  <2>1. /\ thread.sid \in 1 .. Len(said)
        /\ said'[thread.sid].turns = Append(said[thread.sid].turns, item)
    BY <1>0, <1>8, Remembered
  <2>2. said[thread.sid].turns \in Seq(Items)
    <3>1. said[thread.sid] \in SessionState
      BY <1>0, <2>1 DEF Types
    <3> QED BY <3>1 DEF SessionState
  <2>0. PICK a \in Seq(Items) : a = said[thread.sid].turns
    BY <2>2
  <2>3. PICK b : a = said[thread.sid].turns /\ b = Append(a, item)
    BY <2>0
  <2>4. b # <<>>
    BY <2>3, AppendProperties
  <2> QED BY <1>8, <2>1, <2>3, <2>4 DEF Spoken
<1>t. thread \in ThreadState(Len(said))
  BY <1>0 DEF Types, ThreadOK
<1>9. CASE Wake \/ ConnectFails
  <2>1. /\ requests' = requests /\ thread.phase \in {"dormant", "connecting"}
        /\ ph2 \in {"connecting", "stranded"}
    BY <1>9, <1>t DEF Wake, ConnectFails, Phase, ThreadState
  <2> QED BY <1>4, <2>1
<1>10. CASE Connect
  <2>1. requests' = requests /\ thread.phase = "connecting" /\ ph2 = "loop"
    BY <1>10, <1>t DEF Connect, ThreadState
  <2> QED BY <1>4, <2>1
<1>11. CASE Reconnect
  <2>1. Take("switch") /\ ph2 = "connecting"
    BY <1>11, <1>t DEF Reconnect, ThreadState
  <2> QED BY <1>3, <1>6, <2>1
<1>12. CASE Stranded /\ ~Reconnect
  <2>1. /\ ph2 = "stranded"
        /\ Drop({"send", "cancel", "answer", "load", "summarize"})
    BY <1>12 DEF Stranded, agent
  <2> QED BY <1>3, <1>7, <2>1
<1>13. CASE (Loop \/ PollPrompt) /\ Resolve
  <2>1. Take("answer") /\ UNCHANGED <<thread, said>>
    BY <1>13 DEF Resolve
  <2> QED BY <1>0, <1>3, <1>5, <1>6, <2>1
<1>14. CASE Loop /\ LoopSend
  <2>1. /\ Take("send") /\ Remember(Item("user", {Arg})) /\ thread.sid # None
        /\ ph2 = "prompt" /\ thread.sid' = thread.sid /\ Arg \in Nat
    BY <1>0, <1>14, <1>t, TakenArg DEF Loop, LoopSend, Types, ThreadOK, ThreadState
  <2>2. Item("user", {Arg}) \in Items
    BY <2>1 DEF Item, Items
  <2>3. spoken2
    BY <1>8, <2>1, <2>2
  <2> QED BY <1>3, <1>6, <2>1, <2>3
<1>15. CASE Loop /\ LoopCancel
  <2>1. Drop({"cancel"}) /\ UNCHANGED <<thread, said>>
    BY <1>15 DEF LoopCancel, agent
  <2> QED BY <1>0, <1>3, <1>5, <1>7, <2>1
<1>16. CASE Loop /\ LoopSummarize
  <2>1. /\ Take("summarize") /\ UNCHANGED said /\ thread.sid' = thread.sid
        /\ thread.phase = "loop" /\ ph2 \in {"loop", "summary"}
    BY <1>16, <1>t DEF Loop, LoopSummarize, Phase, ThreadState
  <2>2. requests # <<>> /\ requests' = Tail(requests) /\ Head(requests).op = "summarize"
    BY <1>6, <2>1
  <2>3. 1 \in 1 .. Len(requests) /\ requests[1].op = "summarize"
    BY <1>0, <2>2, EmptySeq, HeadTailProperties
  <2>4. spoken2
    BY <1>0, <1>5, <2>1, <2>3 DEF SummariesFine
  <2> QED BY <1>3, <2>1, <2>2, <2>4
<1>17. CASE Loop /\ LoopLoad
  <2>1. Take("load") /\ ph2 = "loading"
    BY <1>17, <1>t DEF LoopLoad, ThreadState
  <2> QED BY <1>3, <1>6, <2>1
<1>23. CASE Loop /\ LoopLoadRefused
  <2>1. Take("load") /\ UNCHANGED <<thread, said>> /\ ph2 = "loop"
    BY <1>23 DEF Loop, LoopLoadRefused, agent
  <2> QED BY <1>3, <1>6, <2>1
<1>18. CASE PollPrompt /\ (PromptCancel \/ PromptSummarize \/ PromptDrop)
  <2>1. /\ requests # <<>> /\ requests' = Tail(requests)
        /\ UNCHANGED said /\ thread.sid' = thread.sid
        /\ thread.phase = "prompt" /\ ph2 = "prompt"
    BY <1>6, <1>7, <1>18, <1>t DEF PollPrompt, PromptCancel, PromptSummarize, PromptDrop, agent, ThreadState
  <2>2. spoken2
    BY <1>0, <1>5, <2>1
  <2> QED BY <1>3, <2>1, <2>2
<1>19. CASE SummaryEnds
  <2>1. /\ requests' = requests /\ UNCHANGED said /\ thread.sid' = thread.sid
        /\ thread.phase = "summary" /\ ph2 = "loop"
    BY <1>19, <1>t DEF SummaryEnds, Phase, ThreadState
  <2> QED BY <1>4, <1>5, <2>1
<1>20. CASE LoadOk \/ LoadFails
  <2>1. requests' = requests /\ thread.phase = "loading" /\ ph2 = "loop"
    BY <1>20, <1>t DEF LoadOk, LoadFails, ThreadState
  <2> QED BY <1>4, <2>1
<1>21. CASE AgentReplies
  <2>1. /\ requests' = requests /\ Remember(Item("agent", {thread.msg})) /\ thread.sid # None
        /\ thread.phase = "prompt" /\ ph2 = "prompt" /\ thread.sid' = thread.sid
    BY <1>0, <1>21, <1>t DEF AgentReplies, Types, ThreadOK, ThreadState
  <2>2. Item("agent", {thread.msg}) \in Items
    BY <1>t DEF Item, Items, ThreadState
  <2>3. spoken2
    BY <1>8, <2>1, <2>2
  <2> QED BY <1>4, <2>1, <2>3
<1>22. ASSUME AgentAsksPermission \/ TurnEnds("turn") \/ TurnEnds("error")
       PROVE  /\ ph2 \in {"prompt", "summary"} => spoken2
              /\ SummariesFine(requests', ph2, spoken2)
  <2>1. /\ requests' = requests /\ UNCHANGED said /\ thread.sid' = thread.sid
        /\ thread.phase = "prompt" /\ ph2 \in {"loop", "prompt", "summary"}
    BY <1>22, <1>t DEF AgentAsksPermission, TurnEnds, ThreadState
  <2> QED BY <1>0, <1>4, <1>5, <2>1
<1> QED BY <1>9, <1>10, <1>11, <1>12, <1>13, <1>14, <1>15, <1>16, <1>17, <1>18, <1>19, <1>20,
           <1>21, <1>22, <1>23
        DEF ThreadSteps, AgentAnswers, AgentTurns, Loop, PollPrompt, LoopSwitch, PromptSwitch

LEMMA SummaryStep == SummaryInv /\ [Next]_vars => SummaryInv'
<1> SUFFICES ASSUME SummaryInv, [Next]_vars PROVE SummaryInv'
  OBVIOUS
<1>1. Types'
  BY TypesStep DEF SummaryInv
<1>2. CASE User \/ HandleEvent \/ \E x \in Subjects : LookedUp(x)
  BY <1>1, <1>2, PanelSummaries DEF agent, SummaryInv, Spoken
<1>3. CASE ThreadSteps \/ AgentAnswers \/ AgentTurns
  BY <1>1, <1>3, AgentSummaries
<1>4. CASE UNCHANGED vars
  BY <1>1, <1>4 DEF vars, agent, SummaryInv, Spoken
<1> QED BY <1>2, <1>3, <1>4 DEF Next

\* A session is asked for a summary only after something was said in it: the request is
\* made behind the message, and nothing that overtakes or drops the message lets it through.
THEOREM SummariesFollow == Spec => []SummaryFollowsMessage
<1>1. Init => SummaryInv
  BY TypesInit DEF Init, SummaryInv, SummariesFine
<1>2. SummaryInv => SummaryFollowsMessage
  BY DEF SummaryInv, SummaryFollowsMessage, Spoken
<1> QED BY <1>1, <1>2, SummaryStep, PTL DEF Spec
----------------------------------------------------------------------------
(* A user who takes care: what is going on is one of a few things.         *)

\* Requests that may change the session, or what is said in it.
IsMain(r) == r.op \in {"send", "load", "switch"}

Mains(q) == {q[i] : i \in {j \in 1 .. Len(q) : IsMain(q[j])}}

OneMain(q) == \A i, j \in 1 .. Len(q) : IsMain(q[i]) /\ IsMain(q[j]) => i = j

Only(op) == \E r \in Mains(requests) : r.op = op /\ Mains(requests) = {r}

Single(S) == \A x, y \in S : x = y

\* The thread will read what is sent next into its session.
Listening == thread.phase \in {"loop", "summary"}

\* What was said in s, and what is on its way to be.
Told(s) == UNION {said[s].turns[i].of : i \in DOMAIN said[s].turns}
OnWay == {r.arg : r \in {q \in Mains(requests) : q.op = "send"}}
Own(s) == Told(s) \union (IF s = thread.sid /\ Listening THEN OnWay ELSE {})

\* Items that are all about messages in M.
StoredIn(items, M) == \A i \in DOMAIN items : items[i].of \subseteq M
ShownIn(items, M) == items \in Seq(Items) /\ \A i \in 1 .. Len(items) : items[i].of \subseteq M

\* Events of the thread's session, those that replay it, and those of getting to one.
Talk(e, M) == e.ev \in {"delta", "turn", "error", "permission"} /\ e.of \subseteq M
Replays(e, M) == e.ev \in {"user", "delta"} /\ e.of \subseteq M
Greeting(e, S) == e.ev \in {"connected", "switching"} \/ (e.ev = "created" /\ e.arg \notin S)

Cleared == panel.shown = <<>> \/ \E i \in 1 .. Len(events) : events[i].ev = "switching"

\* Nothing was asked of the thread yet.
Asleep ==
    /\ thread.phase = "dormant" /\ requests = <<>> /\ events = <<>> /\ Single(lookups)
    /\ panel.backing = None /\ panel.shown = <<>> /\ panel.status = "idle" /\ panel.open = {}

\* A message wakes the thread.
Waking ==
    /\ thread.phase \in {"dormant", "connecting"} /\ events = <<>> /\ lookups = {}
    /\ panel.backing = None /\ Only("send") /\ ShownIn(panel.shown, OnWay)

\* A conversation on record is to be loaded, or is being loaded.
Opening ==
    /\ lookups = {} /\ \A i \in 1 .. Len(events) : Greeting(events[i], ToSet(recent))
    /\ \E s \in ToSet(recent) :
           /\ panel.backing = s \/ panel.backing \notin ToSet(recent)
           /\ \/ /\ Mains(requests) = {Request("load", s)}
                 /\ thread.phase \in {"dormant", "connecting", "loop", "summary"}
              \/ /\ Mains(requests) = {} /\ Cleared
                 /\ thread.phase = "loading" /\ thread.load = s

\* The agent is to be replaced, or is being replaced.
Changing ==
    /\ lookups = {} /\ \A i \in 1 .. Len(events) : Greeting(events[i], ToSet(recent))
    /\ \/ Only("switch") /\ thread.phase \in {"dormant", "connecting", "loop", "summary"}
       \/ Mains(requests) = {} /\ Cleared /\ thread.phase = "connecting"

\* The thread has a session, and a message for it may be on its way.
InSession ==
    \/ Mains(requests) = {} /\ thread.phase \in {"loop", "prompt", "summary"}
    \/ Only("send") /\ Listening

\* The panel is yet to hear of the thread's session, with the k-th event.
ArrivingAt(k) ==
    /\ events[k].ev = "created" /\ events[k].arg = thread.sid
    /\ \A i \in 1 .. Len(events) :
           i < k => \/ Greeting(events[i], ToSet(recent))
                    \/ Replays(events[i], Told(thread.sid))
    /\ \A i \in 1 .. Len(events) : i > k => Talk(events[i], Told(thread.sid))
    /\ \/ ShownIn(panel.shown, Own(thread.sid))
       \/ \E i \in 1 .. Len(events) :
              /\ i < k /\ events[i].ev = "switching"
              /\ \A j \in 1 .. Len(events) : j < i => Greeting(events[j], ToSet(recent))
    /\ \/ panel.backing = thread.sid \/ panel.backing \notin ToSet(recent)
       \/ \A i \in 1 .. Len(events) : i < k => Greeting(events[i], ToSet(recent))

Arriving ==
    /\ InSession /\ lookups = {} /\ StoredIn(stored[thread.sid], Own(thread.sid))
    /\ \E k \in 1 .. Len(events) : ArrivingAt(k)

\* The panel knows the thread's session, or none.
Talking ==
    /\ InSession /\ Single(lookups) /\ \A i \in 1 .. Len(events) : Talk(events[i], Told(thread.sid))
    /\ \/ panel.backing = None
       \/ /\ panel.backing = thread.sid
          /\ ShownIn(panel.shown, Own(thread.sid)) /\ StoredIn(stored[thread.sid], Own(thread.sid))
    /\ lookups # {} => panel.backing = None /\ events = <<>> /\ Mains(requests) = {} /\ Listening

Filing == \A s \in ToSet(recent) : StoredIn(stored[s], Own(s))

Stage == Asleep \/ Waking \/ Opening \/ Changing \/ Arriving \/ Talking

Careful == OneMain(requests) /\ Filing /\ Stage

HistoryOK ==
    DOMAIN history = {"clicks", "hasty", "loose", "answered"} /\ history.loose \in BOOLEAN

CareInv == Types /\ HistoryOK /\ (~history.loose => Careful)

----------------------------------------------------------------------------
(* The requests that matter.                                               *)

LEMMA MainsPosted ==
    ASSUME NEW S, NEW q \in Seq(S), NEW r \in S, OneMain(q)
    PROVE  /\ ~IsMain(r) => Mains(Append(q, r)) = Mains(q) /\ OneMain(Append(q, r))
           /\ IsMain(r) /\ Mains(q) = {} => Mains(Append(q, r)) = {r} /\ OneMain(Append(q, r))
<1>1. PICK p : p = Append(q, r)
  OBVIOUS
<1>2. /\ Len(q) \in Nat /\ Len(p) = Len(q) + 1 /\ p[Len(q) + 1] = r
      /\ \A i \in 1 .. Len(q) : p[i] = q[i]
  BY <1>1, AppendProperties
<1>3. \A i \in 1 .. Len(p) : i \in 1 .. Len(q) \/ i = Len(q) + 1
  BY <1>2
<1>4. 1 .. Len(q) \subseteq 1 .. Len(p) /\ Len(q) + 1 \in 1 .. Len(p) /\ Len(q) + 1 \notin 1 .. Len(q)
  BY <1>2
<1>5. CASE ~IsMain(r)
  <2>1. \A i \in 1 .. Len(p) : IsMain(p[i]) => i \in 1 .. Len(q)
    BY <1>2, <1>3, <1>5
  <2>2. Mains(p) = Mains(q)
    BY <1>2, <1>4, <2>1 DEF Mains
  <2>3. OneMain(p)
    BY <1>2, <2>1 DEF OneMain
  <2> QED BY <1>1, <1>5, <2>2, <2>3
<1>6. CASE IsMain(r) /\ Mains(q) = {}
  <2>1. \A i \in 1 .. Len(q) : ~IsMain(q[i])
    BY <1>6 DEF Mains
  <2>2. \A i \in 1 .. Len(p) : IsMain(p[i]) <=> i = Len(q) + 1
    BY <1>2, <1>3, <1>4, <1>6, <2>1
  <2>3. Mains(p) = {r}
    BY <1>2, <1>4, <2>2 DEF Mains
  <2>4. OneMain(p)
    BY <2>2 DEF OneMain
  <2> QED BY <1>1, <1>6, <2>3, <2>4
<1> QED BY <1>5, <1>6

LEMMA MainsTaken ==
    ASSUME NEW S, NEW q \in Seq(S), q # <<>>, OneMain(q)
    PROVE  /\ OneMain(Tail(q))
           /\ ~IsMain(Head(q)) => Mains(Tail(q)) = Mains(q)
           /\ IsMain(Head(q)) => Mains(q) = {Head(q)} /\ Mains(Tail(q)) = {}
<1>1. PICK p : p = Tail(q)
  OBVIOUS
<1>2. /\ Len(q) \in Nat /\ Len(p) = Len(q) - 1 /\ \A i \in 1 .. Len(p) : p[i] = q[i + 1]
      /\ Head(q) = q[1]
  BY <1>1, HeadTailProperties, LenProperties
<1>3. 1 \in 1 .. Len(q)
  BY <1>2, EmptySeq
<1>4. /\ \A i \in 1 .. Len(p) : i + 1 \in 1 .. Len(q) /\ i + 1 # 1
      /\ \A i \in 1 .. Len(q) : i # 1 => i - 1 \in 1 .. Len(p) /\ q[i] = p[i - 1]
  BY <1>2
<1>5. OneMain(p)
  <2>1. ASSUME NEW i \in 1 .. Len(p), NEW j \in 1 .. Len(p), IsMain(p[i]), IsMain(p[j])
        PROVE  i = j
    <3>1. i + 1 = j + 1
      BY <1>2, <1>4, <2>1 DEF OneMain
    <3> QED BY <3>1
  <2> QED BY <2>1 DEF OneMain
<1>6. Mains(p) \subseteq Mains(q)
  BY <1>2, <1>4 DEF Mains
<1>7. ASSUME ~IsMain(Head(q)) PROVE Mains(q) \subseteq Mains(p)
  <2>1. ASSUME NEW i \in 1 .. Len(q), IsMain(q[i]) PROVE q[i] \in Mains(p)
    BY <1>2, <1>4, <1>7, <2>1 DEF Mains
  <2> QED BY <2>1 DEF Mains
<1>8. ASSUME IsMain(Head(q)) PROVE Mains(q) = {Head(q)} /\ Mains(p) = {}
  <2>1. \A i \in 1 .. Len(q) : IsMain(q[i]) => i = 1
    BY <1>2, <1>3, <1>8 DEF OneMain
  <2>2. Mains(q) = {Head(q)}
    BY <1>2, <1>3, <1>8, <2>1 DEF Mains
  <2>3. \A i \in 1 .. Len(p) : ~IsMain(p[i])
    BY <1>2, <1>4, <2>1
  <2> QED BY <2>2, <2>3 DEF Mains
<1> QED BY <1>1, <1>5, <1>6, <1>7, <1>8

LEMMA NoMains == Mains(<<>>) = {} /\ OneMain(<<>>)
BY DEF Mains, OneMain

\* What the panel sends and what the thread takes, by kind.
LEMMA Sent ==
    ASSUME Types, OneMain(requests), NEW r \in RequestSet(Len(said)), requests' = Append(requests, r)
    PROVE  /\ r.op \in {"cancel", "answer", "summarize"} =>
                  Mains(requests') = Mains(requests) /\ OneMain(requests')
           /\ Mains(requests) = {} /\ r.op \in {"send", "load", "switch"} =>
                  Mains(requests') = {r} /\ OneMain(requests')
<1>1. requests \in Seq(RequestSet(Len(said)))
  BY DEF Types
<1>2. r.op \in {"cancel", "answer", "summarize"} => ~IsMain(r)
  BY DEF IsMain
<1>3. r.op \in {"send", "load", "switch"} => IsMain(r)
  BY DEF IsMain
<1> QED BY <1>1, <1>2, <1>3, MainsPosted

LEMMA Read ==
    ASSUME Types, OneMain(requests), requests # <<>>, requests' = Tail(requests)
    PROVE  /\ OneMain(requests')
           /\ Head(requests).op \in {"cancel", "answer", "summarize"} =>
                  Mains(requests') = Mains(requests)
           /\ Head(requests).op \in {"send", "load", "switch"} =>
                  Mains(requests) = {Head(requests)} /\ Mains(requests') = {}
<1>1. requests \in Seq(RequestSet(Len(said)))
  BY DEF Types
<1>2. Head(requests).op \in {"cancel", "answer", "summarize"} => ~IsMain(Head(requests))
  BY DEF IsMain
<1>3. Head(requests).op \in {"send", "load", "switch"} => IsMain(Head(requests))
  BY DEF IsMain
<1> QED BY <1>1, <1>2, <1>3, MainsTaken

----------------------------------------------------------------------------
(* What belongs to a session, from one state to the next.                  *)

LEMMA StoredMore ==
    ASSUME NEW f, NEW M, NEW N, M \subseteq N
    PROVE  /\ StoredIn(f, M) => StoredIn(f, N)
           /\ ShownIn(f, M) => ShownIn(f, N)
BY DEF StoredIn, ShownIn

LEMMA OwnSame ==
    ASSUME UNCHANGED said, Mains(requests') = Mains(requests), thread.sid' = thread.sid,
           Listening' <=> Listening
    PROVE  OnWay' = OnWay /\ \A s : Told(s)' = Told(s) /\ Own(s)' = Own(s)
<1>1. OnWay' = OnWay
  BY DEF OnWay
<1>2. \A s : Told(s)' = Told(s)
  BY DEF Told
<1> QED BY <1>1, <1>2 DEF Own

\* While nothing happens but that a request is sent or read that changes no session,
\* what is going on goes on.
LEMMA QuietStep ==
    ASSUME Types, Careful, ~Asleep,
           UNCHANGED <<events, said, lookups, recent, stored>>,
           thread'.sid = thread.sid, thread'.load = thread.load,
           panel'.shown = panel.shown, panel'.backing = panel.backing,
           Mains(requests') = Mains(requests), OneMain(requests'),
           \/ thread'.phase = thread.phase
           \/ Listening /\ Listening'
           \/ thread.phase = "dormant" /\ thread'.phase = "connecting"
    PROVE  Careful'
<1>1. (Listening' <=> Listening)
  BY DEF Listening
<1>2. OnWay' = OnWay /\ \A s : Told(s)' = Told(s) /\ Own(s)' = Own(s)
  BY <1>1, OwnSame
<1>3. Filing'
  BY <1>2 DEF Careful, Filing
<1>4. \A op : Only(op)' = Only(op)
  BY DEF Only
<1>5. (InSession => InSession')
  BY <1>4 DEF InSession, Listening
<1>7. Cleared' = Cleared
  BY DEF Cleared
<1>8. CASE Waking
  BY <1>2, <1>3, <1>4, <1>8 DEF Waking, Careful, Stage, Listening
<1>9. CASE Opening
  BY <1>3, <1>7, <1>9 DEF Opening, Careful, Stage, Listening
<1>10. CASE Changing
  BY <1>3, <1>4, <1>7, <1>10 DEF Changing, Careful, Stage, Listening
<1>11. CASE Arriving
  <2>1. \A k : ArrivingAt(k) => ArrivingAt(k)'
    BY <1>2 DEF ArrivingAt
  <2> QED BY <1>2, <1>3, <1>5, <1>11, <2>1 DEF Arriving, Careful, Stage
<1>12. CASE Talking
  BY <1>1, <1>2, <1>3, <1>5, <1>12 DEF Talking, Careful, Stage
<1> QED BY <1>8, <1>9, <1>10, <1>11, <1>12 DEF Careful, Stage

----------------------------------------------------------------------------
(* The careful user.                                                       *)

LEMMA Clicked ==
    ASSUME HistoryOK, NEW l \in BOOLEAN, Click(l)
    PROVE  HistoryOK' /\ (~history'.loose => ~l /\ ~history.loose)
<1>1. history' = [history EXCEPT !.clicks = history.clicks + 1, !.hasty = history.hasty \/ ~Settled,
                                 !.loose = history.loose \/ l]
  BY DEF Click
<1>2. DOMAIN history' = DOMAIN history /\ history'.loose = (history.loose \/ l)
  BY <1>1 DEF HistoryOK
<1> QED BY <1>2 DEF HistoryOK

\* The user acts when nothing is under way.
LEMMA SettledStages ==
    ASSUME Types, Stage, Settled
    PROVE  /\ Asleep \/ (Talking /\ thread.phase = "loop")
           /\ requests = <<>> /\ events = <<>> /\ lookups = {} /\ Mains(requests) = {}
<1>1. requests = <<>> /\ events = <<>> /\ lookups = {} /\ thread.phase \in {"dormant", "loop"}
  BY DEF Settled, Stage, Asleep, Waking, Opening, Changing, Arriving, Talking, InSession, Listening
<1>2. Mains(requests) = {}
  BY <1>1, NoMains
<1>3. ~Waking /\ ~Opening /\ ~Changing
  BY <1>1, <1>2 DEF Waking, Opening, Changing, Only
<1>4. ~Arriving
  BY <1>1 DEF Arriving
<1>5. Talking => thread.phase = "loop"
  BY <1>1 DEF Talking, InSession, Listening
<1> QED BY <1>1, <1>2, <1>3, <1>4, <1>5 DEF Stage

LEMMA ShowingIn ==
    ASSUME NEW items, NEW M, NEW N, NEW x \in Items,
           ShownIn(items, M), M \subseteq N, x.of \subseteq N
    PROVE  ShownIn(Append(items, x), N)
<1>1. PICK p : p = Append(items, x)
  OBVIOUS
<1>2. /\ items \in Seq(Items) /\ p \in Seq(Items) /\ Len(p) = Len(items) + 1 /\ Len(items) \in Nat
      /\ p[Len(items) + 1] = x /\ \A i \in 1 .. Len(items) : p[i] = items[i]
  BY <1>1, AppendProperties DEF ShownIn
<1>3. \A i \in 1 .. Len(p) : i \in 1 .. Len(items) \/ i = Len(items) + 1
  BY <1>2
<1>4. \A i \in 1 .. Len(p) : p[i].of \subseteq N
  BY <1>2, <1>3 DEF ShownIn
<1> QED BY <1>1, <1>2, <1>4 DEF ShownIn

\* What is filed of what is shown is about the same messages.
LEMMA SavedIn ==
    ASSUME Types, NEW s \in 1 .. Len(said), NEW items, NEW M, NEW N, M \subseteq N,
           ShownIn(items, N), StoredIn(stored[s], M),
           SaveAll(s, items) \/ (items # <<>> /\ SaveLast(s, items))
    PROVE  StoredIn(stored'[s], N) /\ \A t \in Sessions \ {s} : stored'[t] = stored[t]
<1>1. s \in Sessions /\ DOMAIN stored = Sessions
  <2>1. Len(said) \in Nat /\ Len(said) <= MaxSessions /\ MaxSessions \in Nat
    BY BoundsAssumption DEF Types
  <2> QED BY <2>1 DEF Types, StoreOK, Sessions
<1>2. items \in Seq(Items) /\ DOMAIN items = 1 .. Len(items) /\ Len(items) \in Nat
  BY DEF ShownIn
<1>3. CASE SaveAll(s, items)
  <2>1. PICK f : f = Over(Visible(items), stored[s])
    OBVIOUS
  <2>2. stored' = [stored EXCEPT ![s] = f]
    BY <1>3, <2>1 DEF SaveAll
  <2>3. \A i \in DOMAIN f : (i \in DOMAIN items /\ f[i] = items[i]) \/ (i \in DOMAIN stored[s] /\ f[i] = stored[s][i])
    BY <1>2, <2>1 DEF Visible, Over
  <2>4. StoredIn(f, N)
    BY <1>2, <2>3 DEF StoredIn, ShownIn
  <2> QED BY <1>1, <2>2, <2>4
<1>4. CASE items # <<>> /\ SaveLast(s, items)
  <2>1. PICK f : f = Over([seq \in {Len(items)} |-> Last(items)], stored[s])
    OBVIOUS
  <2>2. stored' = [stored EXCEPT ![s] = f]
    BY <1>4, <2>1 DEF SaveLast
  <2>3. Len(items) \in 1 .. Len(items) /\ Last(items) = items[Len(items)]
    BY <1>2, <1>4, EmptySeq DEF Last
  <2>4. \A i \in DOMAIN f : (i \in DOMAIN items /\ f[i] = items[i]) \/ (i \in DOMAIN stored[s] /\ f[i] = stored[s][i])
    BY <1>2, <2>1, <2>3 DEF Over
  <2>5. StoredIn(f, N)
    BY <1>2, <2>4 DEF StoredIn, ShownIn
  <2> QED BY <1>1, <2>2, <2>5
<1> QED BY <1>3, <1>4

\* Sessions on record were created.
LEMMA RecentSessions ==
    ASSUME Types
    PROVE  ToSet(recent) \subseteq Sessions /\ ToSet(recent) \subseteq 1 .. Len(said)
<1>1. Len(said) \in Nat /\ Len(said) <= MaxSessions /\ MaxSessions \in Nat
  BY BoundsAssumption DEF Types
<1>2. ToSet(recent) \subseteq 1 .. Len(said)
  BY DEF Types, StoreOK, ToSet
<1> QED BY <1>1, <1>2 DEF Sessions

\* The store stays about what was said, as long as what belongs to a session does.
LEMMA FilingKept ==
    ASSUME Filing, \A s \in ToSet(recent) : Own(s) \subseteq Own(s)',
           \A s \in ToSet(recent') : \/ StoredIn(stored'[s], Own(s)')
                                     \/ s \in ToSet(recent) /\ stored'[s] = stored[s]
    PROVE  Filing'
<1>1. ASSUME NEW s \in ToSet(recent')
      PROVE  StoredIn(stored'[s], Own(s)')
  <2>1. CASE s \in ToSet(recent) /\ stored'[s] = stored[s]
    <3>1. StoredIn(stored[s], Own(s)) /\ Own(s) \subseteq Own(s)'
      BY <2>1 DEF Filing
    <3> QED BY <2>1, <3>1, StoredMore
  <2> QED BY <1>1, <2>1
<1> QED BY <1>1 DEF Filing

LEMMA OwnGrows ==
    ASSUME UNCHANGED said, thread'.sid = thread.sid, Listening => Listening' /\ OnWay \subseteq OnWay'
    PROVE  \A s : Told(s)' = Told(s) /\ Own(s) \subseteq Own(s)'
<1>1. \A s : Told(s)' = Told(s)
  BY DEF Told
<1> QED BY <1>1 DEF Own

\* A careful message: it is all there is to send.
LEMMA AskSends ==
    ASSUME Types, SendMessage \/ AddToWiki, OneMain(requests), Mains(requests) = {}
    PROVE  /\ UNCHANGED <<agent, events, lookups>> /\ Click(~Settled)
           /\ OneMain(requests') /\ Only("send")' /\ OnWay' = {NextMessage}
           /\ \E who \in {"user", "hidden"} : panel'.shown = Showing(who)
           /\ panel'.backing = panel.backing
           /\ \/ UNCHANGED store
              \/ /\ panel.backing # None /\ Record(panel.backing)
                 /\ SaveLast(panel.backing, panel'.shown)
<1>1. PICK who \in {"user", "hidden"} :
          /\ Ask(who)
          /\ \/ UNCHANGED store
             \/ /\ who = "user" /\ panel.backing # None /\ Record(panel.backing)
                /\ SaveLast(panel.backing, Showing("user"))
  BY DEF SendMessage, AddToWiki
<1>2. PICK m : m = NextMessage
  OBVIOUS
<1>3. m \in Nat
  BY <1>1, <1>2, AskTypes
<1>4. PICK r : r = Request("send", m)
  OBVIOUS
<1>5. r \in RequestSet(Len(said)) /\ r.op = "send" /\ r.arg = m /\ IsMain(r)
  BY <1>3, <1>4 DEF Request, RequestSet, IsMain
<1>6. PICK q : q = Append(requests, r)
  OBVIOUS
<1>7. requests \in Seq(RequestSet(Len(said)))
  BY DEF Types
<1>8. q \in Seq(RequestSet(Len(said))) /\ Mains(q) = {r} /\ OneMain(q)
  BY <1>5, <1>6, <1>7, MainsPosted, AppendProperties
<1>9. Mains(requests') = {r} /\ OneMain(requests')
  <2>1. CASE requests' = q
    BY <1>8, <2>1
  <2>2. CASE requests' # q
    <3>1. PICK t : t = Request("summarize", panel.backing)
      OBVIOUS
    <3>2. requests' = q \o <<t>> /\ panel.backing # None
      BY <1>2, <1>4, <1>6, <1>7, <1>8, <2>2, <3>1 DEF SendMessage, AddToWiki, Post
    <3>3. t \in RequestSet(Len(said)) /\ ~IsMain(t)
      BY <3>1, <3>2 DEF Types, PanelOK, None, Request, RequestSet, IsMain
    <3>4. requests' = Append(q, t)
      BY <1>8, <3>2, <3>3, AppendIsConcat
    <3> QED BY <1>8, <3>3, <3>4, MainsPosted
  <2> QED BY <2>1, <2>2
<1>10. OnWay' = {m} /\ Only("send")'
  BY <1>5, <1>9 DEF OnWay, Only
<1>11. panel'.shown = Showing(who) /\ panel'.backing = panel.backing
  BY <1>1 DEF Ask, Types, PanelOK
<1>12. UNCHANGED <<agent, events, lookups>> /\ Click(~Settled)
  BY <1>1 DEF Ask
<1> QED BY <1>1, <1>2, <1>9, <1>10, <1>11, <1>12

LEMMA AskCare ==
    ASSUME Types, Careful, Settled, SendMessage \/ AddToWiki
    PROVE  Careful'
<1>1. Stage /\ OneMain(requests) /\ Filing
  BY DEF Careful
<1>2. /\ Asleep \/ (Talking /\ thread.phase = "loop")
      /\ events = <<>> /\ lookups = {} /\ Mains(requests) = {}
  BY <1>1, SettledStages
<1>3. PICK m : m = NextMessage
  OBVIOUS
<1>4. /\ UNCHANGED <<thread, said, events, lookups>> /\ OneMain(requests')
      /\ Only("send")' /\ OnWay' = {m} /\ panel'.backing = panel.backing
      /\ \/ UNCHANGED store
         \/ /\ panel.backing # None /\ Record(panel.backing)
            /\ SaveLast(panel.backing, panel'.shown)
  BY <1>1, <1>2, <1>3, AskSends DEF agent
<1>5. PICK x \in Items : x.of = {m} /\ panel'.shown = Append(panel.shown, x)
  <2>1. PICK who \in {"user", "hidden"} : panel'.shown = Showing(who)
    BY <1>1, <1>2, AskSends
  <2>2. m \in Nat
    BY <1>3 DEF NextMessage, Types
  <2>3. Item(who, {m}) \in Items
    BY <2>2 DEF Item, Items
  <2> QED BY <1>3, <2>1, <2>3 DEF Showing, Item
<1>6. OnWay = {}
  BY <1>2 DEF OnWay
<1>7. (Listening' <=> Listening)
  BY <1>4 DEF Listening
<1>8. \A s : Told(s)' = Told(s) /\ Own(s) \subseteq Own(s)'
  BY <1>4, <1>6, <1>7, OwnGrows
<1>9. CASE Asleep
  <2>1. UNCHANGED store
    BY <1>4, <1>9 DEF Asleep
  <2>2. Filing'
    BY <1>1, <1>8, <2>1, FilingKept DEF store
  <2>3. ShownIn(panel'.shown, OnWay')
    <3>1. ShownIn(<<>>, {})
      BY DEF ShownIn
    <3>2. panel'.shown = Append(<<>>, x) /\ x.of = {m}
      BY <1>5, <1>9 DEF Asleep
    <3>3. {} \subseteq {m} /\ {m} \subseteq {m}
      OBVIOUS
    <3>4. ShownIn(panel'.shown, {m})
      BY <3>1, <3>2, <3>3, ShowingIn
    <3> QED BY <1>4, <3>4
  <2>4. Waking'
    BY <1>2, <1>4, <1>9, <2>3 DEF Waking, Asleep
  <2> QED BY <1>4, <2>2, <2>4 DEF Careful, Stage
<1>10. CASE Talking /\ thread.phase = "loop"
  <2>1. Listening /\ OnWay' \subseteq Own(thread.sid)'
    BY <1>4, <1>10 DEF Listening, Own
  <2>2. InSession'
    BY <1>4, <1>7, <2>1 DEF InSession
  <2>3. CASE panel.backing = None
    <3>1. UNCHANGED store
      BY <1>4, <2>3
    <3>2. Filing'
      BY <1>1, <1>8, <3>1, FilingKept DEF store
    <3>3. Talking'
      BY <1>2, <1>4, <2>2, <2>3 DEF Talking, Single
    <3> QED BY <1>4, <3>2, <3>3 DEF Careful, Stage
  <2>4. CASE panel.backing # None
    <3>0. PICK s, M, N : s = thread.sid /\ M = Own(s) /\ N = Own(s)'
      OBVIOUS
    <3>1. panel.backing = s /\ ShownIn(panel.shown, M) /\ StoredIn(stored[s], M)
      BY <1>10, <2>4, <3>0 DEF Talking
    <3>2. M \subseteq N /\ {m} \subseteq N
      BY <1>4, <1>8, <2>1, <3>0
    <3>3. ShownIn(panel'.shown, N)
      BY <1>5, <3>1, <3>2, ShowingIn
    <3>4. s \in 1 .. Len(said)
      BY <2>4, <3>1 DEF Types, PanelOK, None
    <3>5. /\ StoredIn(stored'[s], N)
          /\ \A t \in Sessions \ {s} : stored'[t] = stored[t]
          /\ \A t \in ToSet(recent') : t = s \/ t \in ToSet(recent)
      <4>1. CASE UNCHANGED store
        BY <3>1, <3>2, <4>1, StoredMore DEF store
      <4>2. CASE Record(s) /\ SaveLast(s, panel'.shown)
        <5>1. panel'.shown # <<>>
          BY <1>5, <3>1, AppendProperties DEF ShownIn
        <5>2. \A t \in ToSet(recent') : t = s \/ t \in ToSet(recent)
          <6>1. recent \in Seq(1 .. Len(said)) /\ Len(said) \in Nat
            BY DEF Types, StoreOK
          <6>2. recent' = MoveToEnd(s, recent)
            BY <4>2 DEF Record
          <6> QED BY <3>4, <6>1, <6>2, Moved
        <5>3. /\ StoredIn(stored'[s], N)
              /\ \A t \in Sessions \ {s} : stored'[t] = stored[t]
          BY <3>1, <3>2, <3>3, <3>4, <4>2, <5>1, SavedIn
        <5> QED BY <5>2, <5>3
      <4> QED BY <1>4, <3>1, <4>1, <4>2
    <3>6. \A t \in ToSet(recent) : t \in Sessions
      BY RecentSessions
    <3>7. \A t \in ToSet(recent') : \/ StoredIn(stored'[t], Own(t)')
                                    \/ t \in ToSet(recent) /\ stored'[t] = stored[t]
      BY <3>0, <3>5, <3>6
    <3>8. Filing'
      BY <1>1, <1>8, <3>7, FilingKept
    <3>9. Talking'
      BY <1>2, <1>4, <2>2, <3>0, <3>1, <3>3, <3>5 DEF Talking, Single
    <3> QED BY <1>4, <3>8, <3>9 DEF Careful, Stage
  <2> QED BY <2>3, <2>4
<1> QED BY <1>2, <1>9, <1>10

LEMMA MovesOnCare ==
    ASSUME Types, Careful, Settled,
           NewChat \/ (\E v \in Providers : SwitchAgent(v)) \/ (\E x \in Subjects : OpenSubject(x))
    PROVE  Careful'
<1>1. Stage /\ OneMain(requests) /\ Filing
  BY DEF Careful
<1>2. /\ Asleep \/ (Talking /\ thread.phase = "loop")
      /\ requests = <<>> /\ events = <<>> /\ lookups = {} /\ Mains(requests) = {}
  BY <1>1, SettledStages
<1>3. UNCHANGED <<thread, said, events, stored, recent>>
  BY DEF NewChat, SwitchAgent, OpenSubject, agent, store
<1>4. (Listening' <=> Listening)
  BY <1>3 DEF Listening
<1>5. CASE NewChat
  <2>1. UNCHANGED <<requests, lookups>> /\ panel'.shown = <<>> /\ panel'.backing = panel.backing
    BY <1>5 DEF NewChat, Types, PanelOK
  <2>2. OnWay' = OnWay /\ \A s : Told(s)' = Told(s) /\ Own(s)' = Own(s)
    BY <1>3, <1>4, <2>1, OwnSame
  <2>3. CASE Asleep
    <3>1. panel'.status = "idle" /\ panel'.open = {}
      BY <1>5 DEF NewChat, Types, PanelOK
    <3> QED BY <1>1, <1>3, <2>1, <2>2, <2>3, <3>1 DEF Asleep, Careful, Stage, Filing
  <2>4. CASE Talking /\ thread.phase = "loop"
    <3>1. \A M : ShownIn(<<>>, M)
      BY DEF ShownIn
    <3>2. InSession'
      BY <1>2, <1>3, <2>1, <2>4 DEF InSession
    <3>3. Talking'
      BY <1>2, <1>3, <2>1, <2>2, <2>4, <3>1, <3>2 DEF Talking
    <3> QED BY <1>1, <1>3, <2>1, <2>2, <3>3 DEF Careful, Stage, Filing
  <2> QED BY <1>2, <2>3, <2>4
<1>6. ASSUME NEW v \in Providers, SwitchAgent(v)
      PROVE  Careful'
  <2>1. PICK r : r = Request("switch", v)
    OBVIOUS
  <2>2. r \in RequestSet(Len(said)) /\ r.op = "switch" /\ requests' = Append(requests, r)
        /\ UNCHANGED lookups
    BY <1>6, <2>1 DEF SwitchAgent, Post, Request, RequestSet
  <2>3. Mains(requests') = {r} /\ OneMain(requests')
    BY <1>1, <1>2, <2>2, Sent
  <2>4. OnWay' = {} /\ OnWay = {} /\ Only("switch")'
    BY <1>2, <2>2, <2>3 DEF OnWay, Only
  <2>5. \A s : Told(s)' = Told(s) /\ Own(s) \subseteq Own(s)'
    BY <1>3, <1>4, <2>4, OwnGrows
  <2>6. Filing'
    BY <1>1, <1>3, <2>5, FilingKept
  <2>7. thread'.phase \in {"dormant", "loop"}
    BY <1>2, <1>3 DEF Asleep
  <2>8. Changing'
    BY <1>2, <1>3, <2>2, <2>4, <2>7 DEF Changing
  <2> QED BY <2>3, <2>6, <2>8 DEF Careful, Stage
<1>7. ASSUME NEW x \in Subjects, OpenSubject(x)
      PROVE  Careful'
  <2>1. /\ UNCHANGED requests /\ lookups' = {x} /\ panel'.shown = <<>> /\ panel'.backing = None
        /\ panel'.status = panel.status /\ panel'.open = {}
    BY <1>2, <1>7 DEF OpenSubject, Types, PanelOK
  <2>2. OnWay' = OnWay /\ \A s : Told(s)' = Told(s) /\ Own(s)' = Own(s)
    BY <1>3, <1>4, <2>1, OwnSame
  <2>3. Filing' /\ Single(lookups')
    BY <1>1, <1>3, <2>1, <2>2 DEF Filing, Single
  <2>4. CASE Asleep
    BY <1>1, <1>2, <1>3, <2>1, <2>3, <2>4 DEF Asleep, Careful, Stage
  <2>5. CASE Talking /\ thread.phase = "loop"
    <3>1. InSession' /\ Listening'
      BY <1>2, <1>3, <2>1, <2>5 DEF InSession, Listening
    <3>2. Talking'
      BY <1>2, <1>3, <2>1, <2>3, <3>1 DEF Talking
    <3> QED BY <1>1, <2>1, <2>3, <3>2 DEF Careful, Stage
  <2> QED BY <1>2, <2>4, <2>5
<1> QED BY <1>5, <1>6, <1>7

LEMMA StopCare ==
    ASSUME Types, Careful, Stop \/ AnswerPermission
    PROVE  Careful'
<1>1. ~Asleep
  BY DEF Stop, AnswerPermission, Asleep, Busy
<1>2. PICK op \in {"cancel", "answer"}, arg \in Nat : Post(op, arg)
  BY DEF Stop, AnswerPermission, None, Types, PanelOK
<1>3. PICK r : r = Request(op, arg)
  OBVIOUS
<1>4. r \in RequestSet(Len(said)) /\ r.op = op /\ requests' = Append(requests, r)
  BY <1>2, <1>3 DEF Post, Request, RequestSet
<1>5. Mains(requests') = Mains(requests) /\ OneMain(requests')
  BY <1>4, Sent DEF Careful
<1>6. /\ UNCHANGED <<events, thread, said, lookups, recent, stored>>
      /\ panel'.shown = panel.shown /\ panel'.backing = panel.backing
  BY DEF Stop, AnswerPermission, agent, store, Types, PanelOK
<1> QED BY <1>1, <1>5, <1>6, QuietStep

\* A lookup ends: nothing is found, or a conversation is shown and asked to be loaded.
LEMMA LookedUpCare ==
    ASSUME Types, HistoryOK, Careful, NEW x \in Subjects, LookedUp(x)
    PROVE  HistoryOK' /\ (~history'.loose => Careful')
<1>1. Stage /\ OneMain(requests) /\ Filing
  BY DEF Careful
<1>2. /\ Asleep \/ (Talking /\ Listening /\ panel.backing = None)
      /\ events = <<>> /\ Mains(requests) = {} /\ lookups' = {}
  <2>1. x \in lookups /\ lookups' = lookups \ {x} /\ lookups # {}
    BY DEF LookedUp
  <2>2. Asleep \/ Talking
    BY <1>1, <2>1 DEF Stage, Waking, Opening, Changing, Arriving
  <2>3. Single(lookups)
    BY <2>2 DEF Asleep, Talking
  <2>4. Asleep => Mains(requests) = {}
    BY NoMains DEF Asleep
  <2> QED BY <2>1, <2>2, <2>3, <2>4 DEF Asleep, Talking, Single
<1>3. UNCHANGED <<thread, said, events, stored, recent>>
  BY DEF LookedUp, agent, store
<1>4. (Listening' <=> Listening)
  BY <1>3 DEF Listening
<1>5. CASE LastUsed(x) = 0
  <2>1. UNCHANGED <<requests, panel, history>>
    BY <1>5 DEF LookedUp
  <2>2. OnWay' = OnWay /\ \A s : Told(s)' = Told(s) /\ Own(s)' = Own(s)
    BY <1>3, <1>4, <2>1, OwnSame
  <2>3. Filing' /\ Single(lookups') /\ HistoryOK'
    BY <1>1, <1>2, <1>3, <2>1, <2>2 DEF Filing, Single, HistoryOK
  <2>4. Asleep => Asleep'
    BY <1>3, <2>1, <2>3 DEF Asleep
  <2>5. (InSession => InSession')
    BY <1>3, <1>4, <2>1 DEF InSession, Only
  <2>6. Talking => Talking'
    BY <1>2, <1>3, <2>1, <2>2, <2>3, <2>5 DEF Talking, Talk
  <2> QED BY <1>1, <1>2, <2>1, <2>3, <2>4, <2>6 DEF Careful, Stage
<1>6. CASE LastUsed(x) # 0
  <2>1. LastUsed(x) \in 1 .. Len(recent)
    BY <1>6, LastUsedIn
  <2>2. PICK s : s = recent[LastUsed(x)]
    OBVIOUS
  <2>3. s \in ToSet(recent) /\ s \in 1 .. Len(said)
    BY <2>1, <2>2 DEF ToSet, Types, StoreOK
  <2>4. panel'.backing = s
    BY <1>6, <2>2 DEF LookedUp, Types, PanelOK
  <2>5. CASE row[s].provider = panel.provider
    <3>1. PICK r : r = Request("load", s)
      OBVIOUS
    <3>2. r \in RequestSet(Len(said)) /\ r.op = "load" /\ requests' = Append(requests, r)
          /\ UNCHANGED history
      BY <1>6, <2>2, <2>3, <2>5, <3>1 DEF LookedUp, Post, Request, RequestSet
    <3>3. Mains(requests') = {r} /\ OneMain(requests')
      BY <1>1, <1>2, <3>2, Sent
    <3>4. OnWay' = {} /\ OnWay = {}
      BY <1>2, <3>2, <3>3 DEF OnWay
    <3>5. \A t : Told(t)' = Told(t) /\ Own(t) \subseteq Own(t)'
      BY <1>3, <1>4, <3>4, OwnGrows
    <3>6. Filing'
      BY <1>1, <1>3, <3>5, FilingKept
    <3>7. thread'.phase \in {"dormant", "loop", "summary"}
      BY <1>2, <1>3 DEF Asleep, Listening
    <3>8. Opening'
      BY <1>2, <1>3, <2>3, <2>4, <3>1, <3>3, <3>7 DEF Opening
    <3> QED BY <3>2, <3>3, <3>6, <3>8 DEF Careful, Stage, HistoryOK
  <2>6. CASE row[s].provider # panel.provider
    <3>1. history' = [history EXCEPT !.loose = TRUE]
      BY <1>6, <2>2, <2>6 DEF LookedUp
    <3> QED BY <3>1 DEF HistoryOK
  <2> QED BY <2>5, <2>6
<1> QED BY <1>5, <1>6

LEMMA UserCare ==
    ASSUME Types, HistoryOK, Careful, ~history.loose, User
    PROVE  HistoryOK' /\ (~history'.loose => Careful')
<1>1. ASSUME NEW l \in BOOLEAN, Click(l)
      PROVE  HistoryOK' /\ (~history'.loose => ~l)
  BY <1>1, Clicked
<1>s. (~Settled) \in BOOLEAN
  BY DEF Settled
<1>2. CASE SendMessage \/ AddToWiki
  <2>1. Click(~Settled)
    BY <1>2 DEF SendMessage, AddToWiki, Ask
  <2> QED BY <1>1, <1>s, <1>2, <2>1, AskCare
<1>3. CASE NewChat \/ (\E v \in Providers : SwitchAgent(v)) \/ (\E x \in Subjects : OpenSubject(x))
  <2>1. Click(~Settled)
    BY <1>3 DEF NewChat, SwitchAgent, OpenSubject
  <2> QED BY <1>1, <1>s, <1>3, <2>1, MovesOnCare
<1>4. CASE \E s \in Sessions : BrowseTo(s)
  <2>1. Click(TRUE)
    BY <1>4 DEF BrowseTo
  <2> QED BY <1>1, <2>1
<1>5. CASE Stop \/ AnswerPermission
  <2>1. UNCHANGED history
    BY <1>5 DEF Stop, AnswerPermission
  <2> QED BY <1>5, <2>1, StopCare DEF HistoryOK
<1> QED BY <1>2, <1>3, <1>4, <1>5 DEF User

----------------------------------------------------------------------------
(* The careful user: the event pump.                                       *)

LEMMA PumpFacts ==
    ASSUME Types, HandleEvent
    PROVE  /\ UNCHANGED <<requests, thread, said, lookups, history>>
           /\ Head(events) = events[1] /\ 1 \in 1 .. Len(events) /\ Head(events) \in EventSet(Len(said))
           /\ \A i \in 1 .. Len(events') : events'[i] = events[i + 1] /\ i + 1 \in 1 .. Len(events)
           /\ \A i \in 1 .. Len(events) :
                  i # 1 => i - 1 \in 1 .. Len(events') /\ events'[i - 1] = events[i]
           /\ Mains(requests') = Mains(requests) /\ OneMain(requests') = OneMain(requests)
           /\ OnWay' = OnWay /\ \A s : Told(s)' = Told(s) /\ Own(s)' = Own(s)
           /\ InSession' = InSession /\ Listening' = Listening
<1>1. UNCHANGED <<requests, thread, said, lookups, history>>
  BY DEF HandleEvent, OnSwitching, OnConnected, OnSessionCreated, OnUserMessage, OnTextDelta,
     OnTurnCompleted, OnSessionLoadFailed, OnPermissionRequest, OnError, Unfiled, agent
<1>2. events # <<>> /\ events' = Tail(events)
  BY DEF HandleEvent, OnSwitching, OnConnected, OnSessionCreated, OnUserMessage, OnTextDelta,
     OnTurnCompleted, OnSessionLoadFailed, OnPermissionRequest, OnError, Receive
<1>3. events \in Seq(EventSet(Len(said)))
  BY DEF Types
<1>4. /\ Len(events) \in Nat /\ Len(events') = Len(events) - 1 /\ Head(events) = events[1]
      /\ \A i \in 1 .. Len(events') : events'[i] = events[i + 1]
      /\ Head(events) \in EventSet(Len(said))
  BY <1>2, <1>3, HeadTailProperties, LenProperties
<1>5. 1 \in 1 .. Len(events)
  BY <1>2, <1>3, <1>4, EmptySeq
<1>6. /\ \A i \in 1 .. Len(events') : i + 1 \in 1 .. Len(events)
      /\ \A i \in 1 .. Len(events) : i # 1 => /\ i - 1 \in 1 .. Len(events')
                                             /\ events'[i - 1] = events[i]
  BY <1>4
<1>7. (Listening' = Listening)
  BY <1>1 DEF Listening
<1>8. OnWay' = OnWay /\ \A s : Told(s)' = Told(s) /\ Own(s)' = Own(s)
  BY <1>1, <1>7, OwnSame
<1>9. (InSession' = InSession)
  BY <1>1, <1>7 DEF InSession, Only
<1> QED BY <1>1, <1>4, <1>5, <1>6, <1>7, <1>8, <1>9

LEMMA WithReplyIn ==
    ASSUME NEW items, NEW M, NEW m \in SUBSET Nat, ShownIn(items, M), m \subseteq M
    PROVE  ShownIn(WithReply(items, m), M)
<1>1. items \in Seq(Items) /\ Len(items) \in Nat
  BY DEF ShownIn
<1>2. CASE items # <<>> /\ Last(items).who = "agent"
  <2>1. PICK n \in 1 .. Len(items) : n = Len(items)
    BY <1>1, <1>2, EmptySeq
  <2>2. items[n] \in Items /\ items[n].of \subseteq M
    BY <1>1 DEF ShownIn
  <2>3. PICK y : y = [items[n] EXCEPT !.of = items[n].of \union m]
    OBVIOUS
  <2>4. y \in Items /\ y.of \subseteq M
    BY <2>2, <2>3 DEF Items
  <2>5. WithReply(items, m) = [items EXCEPT ![n] = y]
    BY <1>2, <2>1, <2>3 DEF WithReply
  <2>6. /\ [items EXCEPT ![n] = y] \in Seq(Items) /\ Len([items EXCEPT ![n] = y]) = Len(items)
        /\ \A i \in 1 .. Len(items) : [items EXCEPT ![n] = y][i] = IF i = n THEN y ELSE items[i]
    BY <1>1, <2>4, ExceptSeq
  <2> QED BY <2>4, <2>5, <2>6 DEF ShownIn
<1>3. CASE ~(items # <<>> /\ Last(items).who = "agent")
  <2>1. PICK x \in Items : x = Item("agent", m)
    BY DEF Item, Items
  <2>2. x.of = m /\ WithReply(items, m) = Append(items, x)
    BY <1>3, <2>1 DEF WithReply, Item
  <2> QED BY <2>2, ShowingIn
<1> QED BY <1>2, <1>3

\* An event of getting to a session stores nothing.
LEMMA Greeted ==
    ASSUME Types, HandleEvent, Greeting(Head(events), ToSet(recent))
    PROVE  /\ UNCHANGED <<stored, recent>>
           /\ \/ panel'.shown = <<>>
              \/ panel'.shown = panel.shown /\ Head(events).ev # "switching"
           /\ panel'.backing = panel.backing \/ panel'.backing \notin ToSet(recent)
<1>1. \/ OnSwitching \/ OnConnected
      \/ OnSessionCreated /\ Head(events).arg \notin ToSet(recent)
  BY DEF Greeting, HandleEvent, OnSwitching, OnConnected, OnSessionCreated, OnUserMessage,
     OnTextDelta, OnTurnCompleted, OnSessionLoadFailed, OnPermissionRequest, OnError, Receive
<1> QED BY <1>1 DEF OnSwitching, OnConnected, OnSessionCreated, Receive, Unfiled, store, Types, PanelOK

\* The panel is told of a session on the way to another one.
LEMMA GreetingCare ==
    ASSUME Types, Careful, HandleEvent, Opening \/ Changing
    PROVE  Careful'
<1>1. OneMain(requests) /\ Filing
  BY DEF Careful
<1>2. \A i \in 1 .. Len(events) : Greeting(events[i], ToSet(recent))
  BY DEF Opening, Changing
<1>3. Greeting(Head(events), ToSet(recent))
  BY <1>2, PumpFacts
<1>4. /\ UNCHANGED <<stored, recent>>
      /\ \/ panel'.shown = <<>>
         \/ panel'.shown = panel.shown /\ Head(events).ev # "switching"
      /\ panel'.backing = panel.backing \/ panel'.backing \notin ToSet(recent)
  BY <1>3, Greeted
<1>6. \A i \in 1 .. Len(events') : Greeting(events'[i], ToSet(recent'))
  BY <1>2, <1>4, PumpFacts
<1>7. Cleared => Cleared'
  <2>1. CASE panel.shown = <<>>
    BY <1>4, <2>1 DEF Cleared
  <2>2. ASSUME NEW i \in 1 .. Len(events), events[i].ev = "switching"
        PROVE  Cleared'
    <3>1. CASE i = 1
      BY <1>4, <2>2, <3>1, PumpFacts DEF Cleared
    <3>2. CASE i # 1
      BY <2>2, <3>2, PumpFacts DEF Cleared
    <3> QED BY <3>1, <3>2
  <2> QED BY <2>1, <2>2 DEF Cleared
<1>8. Filing' /\ OneMain(requests')
  BY <1>1, <1>4, PumpFacts DEF Filing
<1>9. CASE Opening
  <2>1. PICK s \in ToSet(recent) :
           /\ panel.backing = s \/ panel.backing \notin ToSet(recent)
           /\ \/ /\ Mains(requests) = {Request("load", s)}
                 /\ thread.phase \in {"dormant", "connecting", "loop", "summary"}
              \/ /\ Mains(requests) = {} /\ Cleared
                 /\ thread.phase = "loading" /\ thread.load = s
    BY <1>9 DEF Opening
  <2>2. UNCHANGED <<requests, thread, lookups>> /\ lookups = {}
    BY <1>9, PumpFacts DEF Opening
  <2>3. Opening'
    BY <1>4, <1>6, <1>7, <2>1, <2>2 DEF Opening
  <2> QED BY <1>8, <2>3 DEF Careful, Stage
<1>10. CASE Changing
  <2>1. UNCHANGED <<requests, thread, lookups>> /\ lookups = {}
    BY <1>10, PumpFacts DEF Changing
  <2>2. Changing'
    BY <1>6, <1>7, <1>10, <2>1 DEF Changing, Only
  <2> QED BY <1>8, <2>2 DEF Careful, Stage
<1> QED BY <1>9, <1>10

\* What the panel files while a conversation is replayed, under whatever session it
\* believes in, touches no transcript on record but that of the thread's session.
LEMMA ReplayFiled ==
    ASSUME Types, OnUserMessage, NEW s \in 1 .. Len(said), NEW M,
           Replays(Head(events), M), ShownIn(panel.shown, M), StoredIn(stored[s], M),
           panel.backing = s \/ panel.backing \notin ToSet(recent)
    PROVE  /\ ShownIn(panel'.shown, M) /\ StoredIn(stored'[s], M) /\ recent' = recent
           /\ \A t \in ToSet(recent) : t = s \/ stored'[t] = stored[t]
<1>1. PICK x : x = Item("user", Head(events).of)
  OBVIOUS
<1>2. Head(events) \in EventSet(Len(said)) /\ Receive("user")
  BY Received DEF OnUserMessage
<1>3. x \in Items /\ x.of \subseteq M
  <2>1. Head(events).of \in SUBSET Nat
    BY <1>2 DEF EventSet
  <2> QED BY <1>1, <2>1 DEF Replays, Item, Items
<1>4. PICK items : items = Append(panel.shown, x)
  OBVIOUS
<1>5. ShownIn(items, M)
  BY <1>3, <1>4, ShowingIn
<1>6. items # <<>>
  BY <1>3, <1>4, AppendProperties DEF ShownIn
<1>7. /\ panel'.shown = items /\ recent' = recent
      /\ IF panel.backing = None THEN UNCHANGED stored ELSE SaveLast(panel.backing, items)
  BY <1>1, <1>4 DEF OnUserMessage, Types, PanelOK
<1>8. CASE panel.backing = None
  BY <1>5, <1>7, <1>8
<1>9. CASE panel.backing = s /\ panel.backing # None
  <2>1. /\ StoredIn(stored'[s], M)
        /\ \A t \in Sessions \ {s} : stored'[t] = stored[t]
    BY <1>5, <1>6, <1>7, <1>9, SavedIn
  <2> QED BY <1>5, <1>7, <2>1, RecentSessions
<1>10. CASE panel.backing # s /\ panel.backing # None
  <2>1. PICK y : stored' = [stored EXCEPT ![panel.backing] = y]
    BY <1>7, <1>10 DEF SaveLast
  <2>2. DOMAIN stored = Sessions /\ s \in Sessions
    <3>1. Len(said) \in Nat /\ Len(said) <= MaxSessions /\ MaxSessions \in Nat
      BY BoundsAssumption DEF Types
    <3> QED BY <3>1 DEF Types, StoreOK, Sessions
  <2>3. \A t \in Sessions : t # panel.backing => stored'[t] = stored[t]
    BY <2>1, <2>2
  <2> QED BY <1>5, <1>7, <1>10, <2>2, <2>3, RecentSessions
<1> QED BY <1>8, <1>9, <1>10

\* The panel hears of the thread's session, or what is said before that.
LEMMA ArrivingCare ==
    ASSUME Types, Careful, HandleEvent, Arriving
    PROVE  Careful'
<1>1. OneMain(requests) /\ Filing
  BY DEF Careful
<1>2. PICK k \in 1 .. Len(events) : ArrivingAt(k)
  BY DEF Arriving
<1>3. PICK s, M : s = thread.sid /\ M = Own(s)
  OBVIOUS
<1>4. InSession /\ lookups = {} /\ StoredIn(stored[s], M)
  BY <1>3 DEF Arriving
<1>5. /\ InSession' /\ lookups' = {} /\ thread'.sid = s /\ Own(thread.sid)' = M
      /\ Told(thread.sid)' = Told(s) /\ OneMain(requests')
  BY <1>1, <1>3, <1>4, PumpFacts
<1>6. s \in 1 .. Len(said)
  BY <1>3, <1>4 DEF InSession, Listening, Types, ThreadOK, ThreadState, None
<1>7. Told(s) \subseteq M
  BY <1>3 DEF Own
<1>8. CASE k = 1
  <2>1. /\ Head(events).ev = "created" /\ Head(events).arg = s
        /\ \A i \in 1 .. Len(events) : i > 1 => Talk(events[i], Told(s))
    BY <1>2, <1>3, <1>8, PumpFacts DEF ArrivingAt
  <2>2. ShownIn(panel.shown, M)
    <3>1. \A i \in 1 .. Len(events) : ~(i < 1)
      BY <1>2
    <3> QED BY <1>2, <1>3, <1>8, <3>1 DEF ArrivingAt
  <2>3. OnSessionCreated
    BY <2>1 DEF HandleEvent, OnSwitching, OnConnected, OnUserMessage,
       OnTextDelta, OnTurnCompleted, OnSessionLoadFailed, OnPermissionRequest, OnError, Receive
  <2>4. panel'.backing = s /\ panel'.shown = panel.shown /\ UNCHANGED <<stored, recent>>
    BY <2>1, <2>3 DEF OnSessionCreated, Unfiled, store, Types, PanelOK
  <2>5. \A i \in 1 .. Len(events') : Talk(events'[i], Told(s))
    <3>1. ASSUME NEW i \in 1 .. Len(events') PROVE Talk(events'[i], Told(s))
      <4>1. events'[i] = events[i + 1] /\ i + 1 \in 1 .. Len(events) /\ i + 1 > 1
        BY PumpFacts
      <4> QED BY <2>1, <4>1
    <3> QED BY <3>1
  <2>6. Talking'
    BY <1>4, <1>5, <2>2, <2>4, <2>5 DEF Talking, Single
  <2>7. Filing'
    BY <1>1, <2>4, PumpFacts DEF Filing
  <2> QED BY <1>5, <2>6, <2>7 DEF Careful, Stage
<1>9. CASE k # 1
  <2>1. /\ 1 < k /\ 1 \in 1 .. Len(events) /\ k - 1 \in 1 .. Len(events') /\ events'[k - 1] = events[k]
    BY <1>9, PumpFacts
  <2>2. /\ events'[k - 1].ev = "created" /\ events'[k - 1].arg = s
        /\ \A i \in 1 .. Len(events') : i > k - 1 => Talk(events'[i], Told(s))
    <3>1. ASSUME NEW i \in 1 .. Len(events'), i > k - 1 PROVE Talk(events'[i], Told(s))
      <4>1. events'[i] = events[i + 1] /\ i + 1 \in 1 .. Len(events) /\ i + 1 > k
        BY <3>1, PumpFacts
      <4> QED BY <1>2, <1>3, <4>1 DEF ArrivingAt
    <3> QED BY <1>2, <1>3, <2>1, <3>1 DEF ArrivingAt
  <2>3. recent' = recent =>
           \A i \in 1 .. Len(events') :
               i < k - 1 => \/ Greeting(events'[i], ToSet(recent'))
                            \/ Replays(events'[i], Told(s))
    <3>1. ASSUME NEW i \in 1 .. Len(events'), i < k - 1
          PROVE  Greeting(events'[i], ToSet(recent)) \/ Replays(events'[i], Told(s))
      <4>1. events'[i] = events[i + 1] /\ i + 1 \in 1 .. Len(events) /\ i + 1 < k
        BY <3>1, PumpFacts
      <4> QED BY <1>2, <1>3, <4>1 DEF ArrivingAt
    <3> QED BY <3>1
  <2>4. Greeting(Head(events), ToSet(recent)) \/ Replays(Head(events), Told(s))
    BY <1>2, <1>3, <2>1, PumpFacts DEF ArrivingAt
  <2>5. CASE Greeting(Head(events), ToSet(recent))
    <3>1. /\ UNCHANGED <<stored, recent>>
          /\ \/ panel'.shown = <<>>
             \/ panel'.shown = panel.shown /\ Head(events).ev # "switching"
          /\ panel'.backing = panel.backing \/ panel'.backing \notin ToSet(recent)
      BY <2>5, Greeted
    <3>2. \/ ShownIn(panel'.shown, M)
          \/ \E i \in 1 .. Len(events') :
                 /\ i < k - 1 /\ events'[i].ev = "switching"
                 /\ \A j \in 1 .. Len(events') : j < i => Greeting(events'[j], ToSet(recent'))
      <4>1. CASE panel'.shown = <<>>
        BY <4>1 DEF ShownIn
      <4>2. CASE panel'.shown = panel.shown /\ Head(events).ev # "switching" /\ ~ShownIn(panel.shown, M)
        <5>1. PICK i \in 1 .. Len(events) :
                 /\ i < k /\ events[i].ev = "switching"
                 /\ \A j \in 1 .. Len(events) : j < i => Greeting(events[j], ToSet(recent))
          BY <1>2, <1>3, <4>2 DEF ArrivingAt
        <5>2. i # 1 /\ i - 1 \in 1 .. Len(events') /\ events'[i - 1] = events[i] /\ i - 1 < k - 1
          BY <4>2, <5>1, PumpFacts
        <5>3. ASSUME NEW j \in 1 .. Len(events'), j < i - 1
              PROVE  Greeting(events'[j], ToSet(recent'))
          <6>1. events'[j] = events[j + 1] /\ j + 1 \in 1 .. Len(events) /\ j + 1 < i
            BY <5>3, PumpFacts
          <6> QED BY <3>1, <5>1, <6>1
        <5> QED BY <5>1, <5>2, <5>3
      <4> QED BY <3>1, <4>1, <4>2
    <3>3. \/ panel'.backing = s \/ panel'.backing \notin ToSet(recent')
          \/ \A i \in 1 .. Len(events') : i < k - 1 => Greeting(events'[i], ToSet(recent'))
      <4>1. CASE panel.backing = s \/ panel.backing \notin ToSet(recent)
        BY <3>1, <4>1
      <4>2. CASE \A i \in 1 .. Len(events) : i < k => Greeting(events[i], ToSet(recent))
        <5>1. ASSUME NEW i \in 1 .. Len(events'), i < k - 1
              PROVE  Greeting(events'[i], ToSet(recent'))
          <6>1. events'[i] = events[i + 1] /\ i + 1 \in 1 .. Len(events) /\ i + 1 < k
            BY <5>1, PumpFacts
          <6> QED BY <3>1, <4>2, <6>1
        <5> QED BY <5>1
      <4> QED BY <1>2, <1>3, <4>1, <4>2 DEF ArrivingAt
    <3>4. ArrivingAt(k - 1)'
      BY <1>3, <1>5, <2>2, <2>3, <3>1, <3>2, <3>3 DEF ArrivingAt
    <3>5. Arriving'
      BY <1>4, <1>5, <2>1, <3>1, <3>4 DEF Arriving
    <3>6. Filing'
      BY <1>1, <3>1, PumpFacts DEF Filing
    <3> QED BY <1>5, <3>5, <3>6 DEF Careful, Stage
  <2>6. CASE Replays(Head(events), Told(s)) /\ ~Greeting(Head(events), ToSet(recent))
    <3>1. ShownIn(panel.shown, M) /\ (panel.backing = s \/ panel.backing \notin ToSet(recent))
      <4>1. Head(events) = events[1] /\ 1 < k /\ 1 \in 1 .. Len(events)
        BY <2>1, PumpFacts
      <4>2. ~ \E i \in 1 .. Len(events) :
                 /\ i < k /\ events[i].ev = "switching"
                 /\ \A j \in 1 .. Len(events) : j < i => Greeting(events[j], ToSet(recent))
        <5>1. SUFFICES ASSUME NEW i \in 1 .. Len(events), events[i].ev = "switching",
                              \A j \in 1 .. Len(events) : j < i => Greeting(events[j], ToSet(recent))
                       PROVE  FALSE
          OBVIOUS
        <5>2. CASE i = 1
          BY <2>6, <4>1, <5>1, <5>2 DEF Replays
        <5>3. CASE i # 1
          BY <2>6, <4>1, <5>1, <5>3
        <5> QED BY <5>2, <5>3
      <4> QED BY <1>2, <1>3, <2>6, <4>1, <4>2 DEF ArrivingAt
    <3>2. Replays(Head(events), M)
      BY <1>7, <2>6 DEF Replays
    <3>3. /\ ShownIn(panel'.shown, M) /\ StoredIn(stored'[s], M) /\ recent' = recent
          /\ \A t \in ToSet(recent) : t = s \/ stored'[t] = stored[t]
          /\ panel'.backing = panel.backing
      <4>1. CASE OnUserMessage
        <5>1. panel'.backing = panel.backing
          BY <4>1 DEF OnUserMessage, Types, PanelOK
        <5> QED BY <1>4, <1>6, <3>1, <3>2, <4>1, <5>1, ReplayFiled
      <4>2. CASE OnTextDelta
        <5>1. PICK m : m = Head(events).of
          OBVIOUS
        <5>2. /\ panel'.backing = panel.backing /\ UNCHANGED <<stored, recent>>
              /\ panel'.shown = WithReply(panel.shown, m)
          BY <4>2, <5>1 DEF OnTextDelta, Unfiled, store, Types, PanelOK
        <5>3. m \in SUBSET Nat /\ m \subseteq M
          BY <3>2, <5>1, PumpFacts DEF EventSet, Replays
        <5>4. ShownIn(WithReply(panel.shown, m), M)
          BY <3>1, <5>3, WithReplyIn
        <5> QED BY <1>4, <5>2, <5>4
      <4> QED BY <2>6, <4>1, <4>2 DEF Replays, HandleEvent, OnSwitching, OnConnected,
              OnSessionCreated, OnTurnCompleted, OnSessionLoadFailed, OnPermissionRequest,
              OnError, Receive
    <3>4. ArrivingAt(k - 1)'
      BY <1>3, <1>5, <2>2, <2>3, <3>1, <3>3 DEF ArrivingAt
    <3>5. Arriving'
      BY <1>4, <1>5, <2>1, <3>3, <3>4 DEF Arriving
    <3>6. \A t \in ToSet(recent') : \/ StoredIn(stored'[t], Own(t)')
                                    \/ t \in ToSet(recent) /\ stored'[t] = stored[t]
      BY <1>3, <1>5, <3>3
    <3>7. Filing'
      BY <1>1, <3>6, PumpFacts, FilingKept
    <3> QED BY <1>5, <3>5, <3>7 DEF Careful, Stage
  <2> QED BY <2>4, <2>5, <2>6
<1> QED BY <1>8, <1>9

\* What is said is shown, and filed when the turn is over.
LEMMA TalkingCare ==
    ASSUME Types, Careful, HandleEvent, Talking
    PROVE  Careful'
<1>1. OneMain(requests) /\ Filing
  BY DEF Careful
<1>2. PICK s, M : s = thread.sid /\ M = Own(s)
  OBVIOUS
<1>3. /\ InSession' /\ thread'.sid = s /\ Own(thread.sid)' = M
      /\ Told(thread.sid)' = Told(s) /\ OneMain(requests') /\ lookups' = lookups
  BY <1>1, <1>2, PumpFacts DEF Talking
<1>4. lookups = {}
  <2>1. 1 \in 1 .. Len(events)
    BY PumpFacts
  <2>2. events # <<>>
    BY <2>1
  <2> QED BY <2>2 DEF Talking
<1>5. Talk(Head(events), Told(s)) /\ Told(s) \subseteq M
  BY <1>2, PumpFacts DEF Talking, Own
<1>6. \A i \in 1 .. Len(events') : Talk(events'[i], Told(s))
  BY <1>2, PumpFacts DEF Talking
<1>7. \/ panel.backing = None
      \/ panel.backing = s /\ ShownIn(panel.shown, M) /\ StoredIn(stored[s], M)
  BY <1>2 DEF Talking
<1>8. /\ panel'.backing = panel.backing
      /\ \A t \in ToSet(recent') : t \in ToSet(recent)
      /\ \A t \in ToSet(recent) : t = panel.backing \/ stored'[t] = stored[t]
      /\ panel.backing # None => ShownIn(panel'.shown, M) /\ StoredIn(stored'[s], M)
  <2>1. ASSUME NEW m \in SUBSET Nat, m \subseteq M, UNCHANGED <<stored, recent>>,
               panel'.backing = panel.backing,
               panel'.shown = WithReply(panel.shown, m) \/ panel'.shown = Append(panel.shown, Item("agent", {}))
        PROVE  <1>8!1 /\ <1>8!2 /\ <1>8!3 /\ <1>8!4
    <3>1. ASSUME ShownIn(panel.shown, M) PROVE ShownIn(panel'.shown, M)
      <4>1. CASE panel'.shown = WithReply(panel.shown, m)
        BY <2>1, <3>1, <4>1, WithReplyIn
      <4>2. CASE panel'.shown = Append(panel.shown, Item("agent", {}))
        <5>1. PICK x \in Items : x = Item("agent", {})
          BY DEF Item, Items
        <5>2. x.of = {} /\ panel'.shown = Append(panel.shown, x)
          BY <4>2, <5>1 DEF Item
        <5> QED BY <3>1, <5>2, ShowingIn
      <4> QED BY <2>1, <4>1, <4>2
    <3> QED BY <1>7, <2>1, <3>1
  <2>2. CASE OnTextDelta
    <3>1. PICK m : m = Head(events).of
      OBVIOUS
    <3>2. m \in SUBSET Nat /\ m \subseteq M
      BY <1>5, <3>1, PumpFacts DEF EventSet, Talk
    <3>3. /\ panel'.backing = panel.backing /\ UNCHANGED <<stored, recent>>
          /\ panel'.shown = WithReply(panel.shown, m)
      BY <2>2, <3>1 DEF OnTextDelta, Unfiled, store, Types, PanelOK
    <3> QED BY <2>1, <3>2, <3>3
  <2>3. CASE OnPermissionRequest
    <3>1. /\ panel'.backing = panel.backing /\ UNCHANGED <<stored, recent>>
          /\ panel'.shown = WithReply(panel.shown, {})
      BY <2>3 DEF OnPermissionRequest, Unfiled, store, Types, PanelOK
    <3> QED BY <2>1, <3>1
  <2>4. CASE OnError
    <3>1. /\ panel'.backing = panel.backing /\ UNCHANGED <<stored, recent>>
          /\ panel'.shown = Append(panel.shown, Item("agent", {}))
      BY <2>4 DEF OnError, Unfiled, store, Types, PanelOK
    <3>2. {} \in SUBSET Nat /\ {} \subseteq M
      OBVIOUS
    <3> QED BY <2>1, <3>1, <3>2
  <2>5. CASE OnTurnCompleted
    <3>1. panel'.backing = panel.backing /\ panel'.shown = panel.shown
      BY <2>5 DEF OnTurnCompleted, Types, PanelOK
    <3>2. CASE panel.backing = None
      BY <2>5, <3>1, <3>2 DEF OnTurnCompleted, store
    <3>3. CASE panel.backing # None
      <4>1. s \in 1 .. Len(said) /\ panel.backing = s
        BY <1>7, <3>3 DEF Types, PanelOK, None
      <4>2. SaveAll(s, panel.shown) /\ recent' = IF s \in ToSet(recent) THEN MoveToEnd(s, recent) ELSE recent
        BY <2>5, <3>3, <4>1 DEF OnTurnCompleted
      <4>3. \A t \in ToSet(recent') : t \in ToSet(recent)
        <5>1. recent \in Seq(1 .. Len(said)) /\ Len(said) \in Nat
          BY DEF Types, StoreOK
        <5> QED BY <4>1, <4>2, <5>1, Moved
      <4>4. /\ StoredIn(stored'[s], M)
            /\ \A t \in Sessions \ {s} : stored'[t] = stored[t]
        BY <1>7, <3>3, <4>1, <4>2, SavedIn
      <4> QED BY <1>7, <3>1, <3>3, <4>1, <4>3, <4>4, RecentSessions
    <3> QED BY <3>2, <3>3
  <2>6. OnTextDelta \/ OnPermissionRequest \/ OnError \/ OnTurnCompleted
    BY <1>5 DEF Talk, HandleEvent, OnSwitching, OnConnected, OnSessionCreated, OnUserMessage,
       OnSessionLoadFailed, Receive
  <2> QED BY <2>2, <2>3, <2>4, <2>5, <2>6
<1>9. Talking'
  BY <1>2, <1>3, <1>4, <1>6, <1>7, <1>8 DEF Talking, Single
<1>10. \A t \in ToSet(recent') : \/ StoredIn(stored'[t], Own(t)')
                                 \/ t \in ToSet(recent) /\ stored'[t] = stored[t]
  <2>1. ASSUME NEW t \in ToSet(recent')
        PROVE  \/ StoredIn(stored'[t], Own(t)')
               \/ t \in ToSet(recent) /\ stored'[t] = stored[t]
    <3>1. CASE panel.backing = None
      <4>1. t # None
        BY <1>8, <2>1, RecentSessions DEF None, Types
      <4> QED BY <1>8, <2>1, <3>1, <4>1
    <3>2. CASE panel.backing # None
      BY <1>2, <1>3, <1>7, <1>8, <2>1, <3>2
    <3> QED BY <3>1, <3>2
  <2> QED BY <2>1
<1>11. Filing'
  BY <1>1, <1>10, PumpFacts, FilingKept
<1> QED BY <1>3, <1>9, <1>11 DEF Careful, Stage

LEMMA PumpCare ==
    ASSUME Types, HistoryOK, Careful, HandleEvent
    PROVE  HistoryOK' /\ history' = history /\ Careful'
<1>1. history' = history /\ 1 \in 1 .. Len(events)
  BY PumpFacts
<1>2. events # <<>>
  BY <1>1
<1>3. ~Asleep /\ ~Waking
  BY <1>2 DEF Asleep, Waking
<1> QED BY <1>1, <1>3, GreetingCare, ArrivingCare, TalkingCare DEF Careful, Stage, HistoryOK

----------------------------------------------------------------------------
(* The careful user: the thread and the agent.                             *)

\* What is remembered is told; nothing told is forgotten.
LEMMA ToldMore ==
    ASSUME Types, thread.sid # None, NEW item \in Items, Remember(item)
    PROVE  \A s \in 1 .. Len(said) :
               Told(s)' = IF s = thread.sid THEN Told(s) \union item.of ELSE Told(s)
<1>1. /\ thread.sid \in 1 .. Len(said) /\ Len(said') = Len(said)
      /\ \A s \in 1 .. Len(said) :
             said'[s].turns = IF s = thread.sid THEN Append(said[s].turns, item) ELSE said[s].turns
  BY Remembered
<1>2. ASSUME NEW s \in 1 .. Len(said), s # thread.sid PROVE Told(s)' = Told(s)
  BY <1>1, <1>2 DEF Told
<1>3. PICK s : s = thread.sid
  OBVIOUS
<1>4. PICK a : a = said[s].turns
  OBVIOUS
<1>5. a \in Seq(Items)
  <2>1. said[s] \in SessionState
    BY <1>1, <1>3 DEF Types
  <2> QED BY <1>4, <2>1 DEF SessionState
<1>6. PICK b : b = Append(a, item)
  OBVIOUS
<1>7. /\ Len(a) \in Nat /\ Len(b) = Len(a) + 1 /\ b[Len(a) + 1] = item
      /\ \A i \in 1 .. Len(a) : b[i] = a[i]
      /\ DOMAIN a = 1 .. Len(a) /\ DOMAIN b = 1 .. Len(b)
  BY <1>5, <1>6, AppendProperties
<1>8. /\ \A i \in DOMAIN b : (i \in DOMAIN a /\ b[i] = a[i]) \/ b[i] = item
      /\ \A i \in DOMAIN a : i \in DOMAIN b /\ b[i] = a[i]
      /\ \E i \in DOMAIN b : b[i] = item
  <2>1. Len(a) + 1 \in 1 .. Len(b)
    BY <1>7
  <2> QED BY <1>7, <2>1
<1>9. UNION {b[i].of : i \in DOMAIN b} = (UNION {a[i].of : i \in DOMAIN a}) \union item.of
  BY <1>8
<1>10. said'[s].turns = b
  BY <1>1, <1>3, <1>4, <1>6
<1>11. Told(s)' = Told(s) \union item.of
  BY <1>4, <1>9, <1>10 DEF Told
<1> QED BY <1>2, <1>3, <1>11

\* Requests that change no session, and the end of a summary, leave everything as it goes.
LEMMA MinorCare ==
    ASSUME Types, Careful,
           \/ Wake \/ SummaryEnds
           \/ thread.phase = "loop" /\ (LoopCancel \/ Resolve \/ LoopSummarize)
           \/ thread.phase = "prompt" /\ (PromptCancel \/ Resolve \/ PromptSummarize)
    PROVE  Careful'
<1>1. /\ UNCHANGED <<events, said, lookups, recent, stored, panel>>
      /\ thread'.sid = thread.sid /\ thread'.load = thread.load
  BY DEF Wake, SummaryEnds, LoopCancel, Resolve, LoopSummarize, PromptCancel, PromptSummarize,
     agent, ThreadOnly, store, Phase, Types, ThreadOK, ThreadState
<1>2. \/ thread'.phase = thread.phase
      \/ Listening /\ Listening'
      \/ thread.phase = "dormant" /\ thread'.phase = "connecting"
  BY DEF Wake, SummaryEnds, LoopCancel, Resolve, LoopSummarize, PromptCancel, PromptSummarize,
     agent, Phase, Types, ThreadOK, ThreadState, Listening
<1>3. ~Asleep
  BY DEF Asleep, Wake, SummaryEnds
<1>4. OneMain(requests)
  BY DEF Careful
<1>5. Mains(requests') = Mains(requests) /\ OneMain(requests')
  <2>1. CASE Wake \/ SummaryEnds
    BY <1>4, <2>1 DEF Wake, SummaryEnds
  <2>2. CASE LoopCancel \/ Resolve \/ LoopSummarize \/ PromptCancel \/ PromptSummarize
    <3>1. /\ requests # <<>> /\ requests' = Tail(requests)
          /\ Head(requests).op \in {"cancel", "answer", "summarize"}
      BY <2>2 DEF LoopCancel, Resolve, LoopSummarize, PromptCancel, PromptSummarize, Drop, Take
    <3> QED BY <1>4, <3>1, Read
  <2> QED BY <2>1, <2>2
<1> QED BY <1>1, <1>2, <1>3, <1>5, QuietStep

\* What is going on in a session goes on while more is said in it.
LEMMA SessionStep ==
    ASSUME Types, Careful, Arriving \/ Talking, lookups = {},
           UNCHANGED <<panel, lookups, stored, recent>>, thread'.sid = thread.sid,
           OneMain(requests'), InSession',
           \A s \in 1 .. Len(said) : Told(s) \subseteq Told(s)' /\ Own(s) \subseteq Own(s)',
           \/ events' = events
           \/ \E e \in EventSet(Len(said)) : Talk(e, Told(thread.sid)') /\ events' = Append(events, e)
    PROVE  Careful'
<1>1. Filing
  BY DEF Careful
<1>2. PICK s : s = thread.sid
  OBVIOUS
<1>3. s \in 1 .. Len(said)
  BY <1>2 DEF Arriving, Talking, InSession, Listening, Types, ThreadOK, ThreadState, None
<1>4. PICK M, N, T, U : M = Own(s) /\ N = Own(s)' /\ T = Told(s) /\ U = Told(s)'
  OBVIOUS
<1>5. M \subseteq N /\ T \subseteq U /\ Own(thread.sid)' = N /\ Told(thread.sid)' = U
  BY <1>2, <1>3, <1>4
<1>6. Filing'
  BY <1>1, RecentSessions, FilingKept
<1>7. /\ \A e : Talk(e, T) => Talk(e, U)
      /\ \A e : Replays(e, T) => Replays(e, U)
  BY <1>5 DEF Talk, Replays
<1>8. /\ \A i \in 1 .. Len(events') :
             \/ i \in 1 .. Len(events) /\ events'[i] = events[i]
             \/ i \notin 1 .. Len(events) /\ Talk(events'[i], U)
      /\ \A i \in 1 .. Len(events) : i \in 1 .. Len(events') /\ events'[i] = events[i]
      /\ Len(events) \in Nat /\ Len(events') \in Nat
  <2>1. events \in Seq(EventSet(Len(said)))
    BY DEF Types
  <2>2. CASE events' = events
    BY <2>1, <2>2
  <2>3. ASSUME NEW e \in EventSet(Len(said)), Talk(e, U), events' = Append(events, e)
        PROVE  <1>8!1 /\ <1>8!2 /\ <1>8!3
    <3>1. /\ Len(events) \in Nat /\ Len(events') = Len(events) + 1 /\ events'[Len(events) + 1] = e
          /\ \A i \in 1 .. Len(events) : events'[i] = events[i]
      BY <2>1, <2>3, AppendProperties
    <3>2. \A i \in 1 .. Len(events') : i \in 1 .. Len(events) \/ i = Len(events) + 1
      BY <3>1
    <3>3. Len(events) + 1 \notin 1 .. Len(events) /\ 1 .. Len(events) \subseteq 1 .. Len(events')
      BY <3>1
    <3> QED BY <2>3, <3>1, <3>2, <3>3
  <2> QED BY <1>2, <1>4, <2>2, <2>3
<1>9. ASSUME NEW items, ShownIn(items, M) PROVE ShownIn(items, N)
  BY <1>5, <1>9, StoredMore
<1>10. ASSUME NEW f, StoredIn(f, M) PROVE StoredIn(f, N)
  BY <1>5, <1>10, StoredMore
<1>11. CASE Talking
  <2>1. \A i \in 1 .. Len(events') : Talk(events'[i], U)
    BY <1>2, <1>4, <1>7, <1>8, <1>11 DEF Talking
  <2>2. \/ panel.backing = None
        \/ panel.backing = s /\ ShownIn(panel.shown, N) /\ StoredIn(stored[s], N)
    BY <1>2, <1>4, <1>9, <1>10, <1>11 DEF Talking
  <2>3. Talking'
    BY <1>2, <1>5, <2>1, <2>2 DEF Talking, Single
  <2> QED BY <1>6, <2>3 DEF Careful, Stage
<1>12. CASE Arriving
  <2>1. StoredIn(stored[s], N)
    BY <1>2, <1>4, <1>10, <1>12 DEF Arriving
  <2>2. PICK k \in 1 .. Len(events) : ArrivingAt(k)
    BY <1>12 DEF Arriving
  <2>3. k \in 1 .. Len(events') /\ events'[k].ev = "created" /\ events'[k].arg = s
    BY <1>2, <1>8, <2>2 DEF ArrivingAt
  <2>4. \A i \in 1 .. Len(events') :
            i < k => Greeting(events'[i], ToSet(recent)) \/ Replays(events'[i], U)
    <3>1. ASSUME NEW i \in 1 .. Len(events'), i < k
          PROVE  Greeting(events'[i], ToSet(recent)) \/ Replays(events'[i], U)
      <4>1. i \in 1 .. Len(events)
        BY <1>8, <2>2, <3>1
      <4>2. events'[i] = events[i]
        BY <1>8, <4>1
      <4> QED BY <1>2, <1>4, <1>7, <2>2, <3>1, <4>1, <4>2 DEF ArrivingAt
    <3> QED BY <3>1
  <2>5. \A i \in 1 .. Len(events') : i > k => Talk(events'[i], U)
    <3>1. ASSUME NEW i \in 1 .. Len(events'), i > k PROVE Talk(events'[i], U)
      <4>1. CASE i \in 1 .. Len(events) /\ events'[i] = events[i]
        BY <1>2, <1>4, <1>7, <2>2, <3>1, <4>1 DEF ArrivingAt
      <4> QED BY <1>8, <4>1
    <3> QED BY <3>1
  <2>6. \/ ShownIn(panel.shown, N)
        \/ \E i \in 1 .. Len(events') :
               /\ i < k /\ events'[i].ev = "switching"
               /\ \A j \in 1 .. Len(events') : j < i => Greeting(events'[j], ToSet(recent))
    <3>1. CASE ShownIn(panel.shown, M)
      BY <1>9, <3>1
    <3>2. ASSUME NEW i \in 1 .. Len(events), i < k, events[i].ev = "switching",
                 \A j \in 1 .. Len(events) : j < i => Greeting(events[j], ToSet(recent))
          PROVE  <2>6!2
      <4>1. i \in 1 .. Len(events') /\ events'[i] = events[i]
        BY <1>8
      <4>2. ASSUME NEW j \in 1 .. Len(events'), j < i
            PROVE  Greeting(events'[j], ToSet(recent))
        <5>1. j \in 1 .. Len(events)
          BY <1>8, <4>2
        <5> QED BY <1>8, <3>2, <4>2, <5>1
      <4> QED BY <3>2, <4>1, <4>2
    <3> QED BY <1>2, <1>4, <2>2, <3>1, <3>2 DEF ArrivingAt
  <2>7. \/ panel.backing = s \/ panel.backing \notin ToSet(recent)
        \/ \A i \in 1 .. Len(events') : i < k => Greeting(events'[i], ToSet(recent))
    <3>1. ASSUME \A i \in 1 .. Len(events) : i < k => Greeting(events[i], ToSet(recent)),
                 NEW i \in 1 .. Len(events'), i < k
          PROVE  Greeting(events'[i], ToSet(recent))
      <4>1. i \in 1 .. Len(events)
        BY <1>8, <2>2, <3>1
      <4> QED BY <1>8, <3>1, <4>1
    <3> QED BY <1>2, <2>2, <3>1 DEF ArrivingAt
  <2>8. ArrivingAt(k)'
    BY <1>2, <1>5, <2>3, <2>4, <2>5, <2>6, <2>7 DEF ArrivingAt
  <2>9. Arriving'
    BY <1>2, <1>5, <2>1, <2>3, <2>8 DEF Arriving
  <2> QED BY <1>6, <2>9 DEF Careful, Stage
<1> QED BY <1>11, <1>12

\* A message reaches the session that the panel shows, or is about to.
LEMMA LoopSendCare ==
    ASSUME Types, Careful, thread.phase = "loop", LoopSend
    PROVE  Careful'
<1>1. Stage /\ OneMain(requests)
  BY DEF Careful
<1>2. /\ requests # <<>> /\ requests' = Tail(requests) /\ Head(requests).op = "send" /\ Arg \in Nat
  BY Taken, TakenArg DEF LoopSend
<1>3. OneMain(requests') /\ Mains(requests) = {Head(requests)} /\ Mains(requests') = {}
  BY <1>1, <1>2, Read
<1>4. ~Asleep /\ ~Waking
  BY DEF Asleep, Waking
<1>5. ~Opening
  BY <1>2, <1>3 DEF Opening, Request
<1>6. ~Changing
  BY <1>2, <1>3 DEF Changing, Only
<1>7. Arriving \/ Talking
  BY <1>1, <1>4, <1>5, <1>6 DEF Stage
<1>8. lookups = {}
  BY <1>3, <1>7 DEF Arriving, Talking
<1>9. PICK m : m = Arg
  OBVIOUS
<1>10. OnWay = {m}
  BY <1>2, <1>3, <1>9 DEF OnWay, Arg
<1>11. PICK x \in Items : x = Item("user", {m})
  BY <1>2, <1>9 DEF Item, Items
<1>12. thread.sid # None /\ Remember(x) /\ x.of = {m}
  BY <1>9, <1>11 DEF LoopSend, Item, Types, ThreadOK
<1>13. \A s \in 1 .. Len(said) : Told(s)' = IF s = thread.sid THEN Told(s) \union {m} ELSE Told(s)
  BY <1>12, ToldMore
<1>14. thread'.sid = thread.sid /\ thread'.phase = "prompt"
  BY DEF LoopSend, Types, ThreadOK, ThreadState
<1>15. InSession'
  BY <1>3, <1>14 DEF InSession
<1>16. \A s \in 1 .. Len(said) : Told(s) \subseteq Told(s)' /\ Own(s) \subseteq Own(s)'
  BY <1>10, <1>13 DEF Own
<1>17. UNCHANGED <<panel, lookups, stored, recent, events>>
  BY DEF LoopSend, ThreadOnly, store
<1> QED BY <1>3, <1>7, <1>8, <1>14, <1>15, <1>16, <1>17, SessionStep

LEMMA PromptStage ==
    ASSUME Types, Stage, thread.phase = "prompt"
    PROVE  (Arriving \/ Talking) /\ lookups = {} /\ Mains(requests) = {} /\ OnWay = {}
<1>1. Arriving \/ Talking
  BY DEF Stage, Asleep, Waking, Opening, Changing
<1>2. ~Listening
  BY DEF Listening
<1>3. lookups = {} /\ Mains(requests) = {}
  BY <1>1, <1>2 DEF Arriving, Talking, InSession
<1> QED BY <1>1, <1>3 DEF OnWay

\* What the agent says in a turn belongs to the session.
LEMMA AgentTurnsCare ==
    ASSUME Types, HistoryOK, Careful, AgentTurns
    PROVE  HistoryOK' /\ history'.loose = history.loose /\ Careful'
<1>1. /\ thread.phase = "prompt" /\ UNCHANGED <<requests, panel, lookups, stored, recent>>
      /\ thread'.sid = thread.sid /\ thread'.phase \in {"loop", "prompt", "summary"}
  BY DEF AgentTurns, AgentReplies, AgentAsksPermission, TurnEnds, ThreadOnly, store,
     Types, ThreadOK, ThreadState
<1>2. HistoryOK' /\ history'.loose = history.loose
  BY DEF AgentTurns, AgentReplies, AgentAsksPermission, TurnEnds, HistoryOK
<1>3. /\ Arriving \/ Talking
      /\ lookups = {} /\ Mains(requests) = {} /\ OnWay = {} /\ OneMain(requests)
  BY <1>1, PromptStage DEF Careful
<1>4. OneMain(requests') /\ InSession' /\ OnWay' = {}
  BY <1>1, <1>3 DEF InSession, OnWay
<1>5. \A s : Own(s) = Told(s) /\ Own(s)' = Told(s)'
  BY <1>3, <1>4 DEF Own
<1>6. thread.sid # None /\ thread \in ThreadState(Len(said)) /\ events \in Seq(EventSet(Len(said)))
  BY <1>1 DEF Types, ThreadOK
<1>7. CASE AgentReplies
  <2>1. PICK m \in Nat : m = thread.msg
    BY <1>6 DEF ThreadState
  <2>2. PICK x \in Items : x = Item("agent", {m})
    BY DEF Item, Items
  <2>3. Remember(x) /\ x.of = {m}
    BY <1>7, <2>1, <2>2 DEF AgentReplies, Item
  <2>4. \A s \in 1 .. Len(said) : Told(s)' = IF s = thread.sid THEN Told(s) \union {m} ELSE Told(s)
    BY <1>6, <2>3, ToldMore
  <2>5. PICK e \in EventSet(Len(said)) : e = Event("delta", None, {m})
    BY DEF Event, EventSet, None
  <2>6. thread.sid \in 1 .. Len(said)
    BY <1>6 DEF ThreadState, None, Types
  <2>7. {m} \subseteq Told(thread.sid)'
    BY <1>1, <2>4, <2>6
  <2>8. Talk(e, Told(thread.sid)') /\ events' = Append(events, e)
    BY <1>7, <2>1, <2>5, <2>7 DEF AgentReplies, Talk, Event
  <2>9. \A s \in 1 .. Len(said) : Told(s) \subseteq Told(s)' /\ Own(s) \subseteq Own(s)'
    BY <1>5, <2>4
  <2> QED BY <1>1, <1>2, <1>3, <1>4, <2>8, <2>9, SessionStep
<1>8. CASE AgentAsksPermission \/ TurnEnds("turn") \/ TurnEnds("error")
  <2>1. PICK ev \in {"permission", "turn", "error"}, k \in Nat : Emit(ev, k)
    <3>1. CASE AgentAsksPermission
      <4>1. PICK k \in Nat : k = thread.asks + 1
        BY <1>6 DEF ThreadState
      <4> QED BY <3>1, <4>1 DEF AgentAsksPermission
    <3>2. CASE TurnEnds("turn") \/ TurnEnds("error")
      <4>1. None \in Nat
        BY DEF None
      <4> QED BY <3>2, <4>1 DEF TurnEnds
    <3> QED BY <1>8, <3>1, <3>2
  <2>2. PICK e \in EventSet(Len(said)) : e = Event(ev, k, {})
    BY DEF Event, EventSet
  <2>3. e.ev = ev /\ e.of = {} /\ events' = Append(events, e)
    BY <2>1, <2>2 DEF Emit, Event
  <2>4. \A M : Talk(e, M)
    BY <2>3 DEF Talk
  <2>5. UNCHANGED said
    BY <1>8 DEF AgentAsksPermission, TurnEnds
  <2>6. \A s \in 1 .. Len(said) : Told(s) \subseteq Told(s)' /\ Own(s) \subseteq Own(s)'
    BY <1>5, <2>5 DEF Told
  <2> QED BY <1>1, <1>2, <1>3, <1>4, <2>3, <2>4, <2>6, SessionStep
<1> QED BY <1>7, <1>8 DEF AgentTurns

LEMMA OwnKept ==
    ASSUME UNCHANGED said, OnWay = {}
    PROVE  \A s : Told(s)' = Told(s) /\ Own(s) \subseteq Own(s)'
<1>1. \A s : Told(s)' = Told(s)
  BY DEF Told
<1> QED BY <1>1 DEF Own

LEMMA SwitchTold ==
    ASSUME Types, NEW p \in Providers, Emit("switching", p), NEW S,
           \A i \in 1 .. Len(events) : Greeting(events[i], S)
    PROVE  (\A i \in 1 .. Len(events') : Greeting(events'[i], S)) /\ Cleared'
<1>1. PICK e \in EventSet(Len(said)) : e = Event("switching", p, {})
  BY DEF Event, EventSet
<1>2. e.ev = "switching" /\ events' = Append(events, e) /\ events \in Seq(EventSet(Len(said)))
  BY <1>1 DEF Event, Emit, Types
<1>3. /\ Len(events) \in Nat /\ Len(events') = Len(events) + 1 /\ events'[Len(events) + 1] = e
      /\ \A i \in 1 .. Len(events) : events'[i] = events[i]
  BY <1>2, AppendProperties
<1>4. /\ \A i \in 1 .. Len(events') : i \in 1 .. Len(events) \/ i = Len(events) + 1
      /\ Len(events) + 1 \in 1 .. Len(events')
  BY <1>3
<1>5. \A i \in 1 .. Len(events') : Greeting(events'[i], S)
  BY <1>2, <1>3, <1>4 DEF Greeting
<1>6. Cleared'
  BY <1>2, <1>3, <1>4 DEF Cleared
<1> QED BY <1>5, <1>6

\* The thread leaves its session for another one, or for one of another agent.
LEMMA LeavingCare ==
    ASSUME Types, Careful, thread.phase = "loop", LoopLoad \/ LoopSwitch
    PROVE  Careful'
<1>1. Stage /\ OneMain(requests) /\ Filing
  BY DEF Careful
<1>2. /\ requests # <<>> /\ requests' = Tail(requests)
      /\ Head(requests).op = IF LoopLoad THEN "load" ELSE "switch"
  BY Taken DEF LoopLoad, LoopSwitch, Reconnect
<1>3. OneMain(requests') /\ Mains(requests) = {Head(requests)} /\ Mains(requests') = {}
  BY <1>1, <1>2, Read
<1>4. OnWay = {}
  BY <1>2, <1>3 DEF OnWay
<1>5. UNCHANGED <<panel, lookups, stored, recent, said>>
  BY DEF LoopLoad, LoopSwitch, Reconnect, ThreadOnly, store
<1>6. Filing'
  BY <1>1, <1>4, <1>5, OwnKept, FilingKept
<1>7. ~Asleep /\ ~Waking
  BY DEF Asleep, Waking
<1>8. ~InSession
  BY <1>2, <1>3 DEF InSession, Only
<1>9. Opening \/ Changing
  BY <1>1, <1>7, <1>8 DEF Stage, Arriving, Talking
<1>10. /\ lookups = {}
       /\ \A i \in 1 .. Len(events) : Greeting(events[i], ToSet(recent))
  BY <1>9 DEF Opening, Changing
<1>11. CASE LoopLoad
  <2>1. PICK p \in Providers : p = thread.provider
    BY DEF Types, ThreadOK, ThreadState
  <2>2. Emit("switching", p)
    BY <1>11, <2>1 DEF LoopLoad
  <2>3. (\A i \in 1 .. Len(events') : Greeting(events'[i], ToSet(recent))) /\ Cleared'
    BY <1>10, <2>2, SwitchTold
  <2>4. ~Changing
    BY <1>2, <1>3, <1>11 DEF Changing, Only
  <2>5. PICK s \in ToSet(recent) : /\ panel.backing = s \/ panel.backing \notin ToSet(recent)
                                   /\ Mains(requests) = {Request("load", s)}
    BY <1>3, <1>9, <2>4 DEF Opening
  <2>6. Arg = s
    BY <1>3, <2>5 DEF Arg, Request
  <2>7. thread'.phase = "loading" /\ thread'.load = s
    BY <1>11, <2>6 DEF LoopLoad, Types, ThreadOK, ThreadState
  <2>8. Opening'
    BY <1>3, <1>5, <1>10, <2>3, <2>5, <2>7 DEF Opening
  <2> QED BY <1>3, <1>6, <2>8 DEF Careful, Stage
<1>12. CASE LoopSwitch
  <2>1. PICK p \in Providers : p = Arg
    BY <1>12, TakenArg DEF LoopSwitch, Reconnect
  <2>2. Emit("switching", p)
    BY <1>12, <2>1 DEF LoopSwitch
  <2>3. (\A i \in 1 .. Len(events') : Greeting(events'[i], ToSet(recent))) /\ Cleared'
    BY <1>10, <2>2, SwitchTold
  <2>4. thread'.phase = "connecting"
    BY <1>12 DEF LoopSwitch, Reconnect, Types, ThreadOK, ThreadState
  <2>5. Changing'
    BY <1>3, <1>5, <1>10, <2>3, <2>4 DEF Changing
  <2> QED BY <1>3, <1>6, <2>5 DEF Careful, Stage
<1> QED BY <1>11, <1>12

\* The thread has a session of its own, which nothing is filed under.
LEMMA ConnectCare ==
    ASSUME Types, Careful, Connect
    PROVE  Careful'
<1>1. Stage /\ OneMain(requests) /\ Filing
  BY DEF Careful
<1>2. Len(said) \in Nat /\ events \in Seq(EventSet(Len(said))) /\ thread.phase = "connecting"
      /\ thread \in ThreadState(Len(said))
  BY DEF Types, Connect, ThreadOK
<1>3. PICK s \in Nat : s = Len(said) + 1
  BY <1>2
<1>4. /\ UNCHANGED <<panel, lookups, stored, recent, requests>>
      /\ thread'.sid = s /\ thread'.phase = "loop"
  BY <1>2, <1>3 DEF Connect, ThreadOnly, store, ThreadState
<1>5. \A t \in 1 .. Len(said) : said'[t] = said[t]
  <2>1. PICK x : x = [provider |-> thread.provider, turns |-> <<>>]
    OBVIOUS
  <2>2. x \in SessionState
    <3>1. <<>> \in Seq(Items)
      OBVIOUS
    <3> QED BY <1>2, <2>1, <3>1 DEF SessionState, ThreadState
  <2>3. said' = Append(said, x)
    BY <2>1 DEF Connect
  <2> QED BY <2>2, <2>3, AppendProperties DEF Types
<1>6. ~Listening /\ Listening' /\ OnWay' = OnWay
  BY <1>2, <1>4 DEF Listening, OnWay
<1>7. \A t \in ToSet(recent) : Own(t) \subseteq Own(t)'
  <2>1. ASSUME NEW t \in ToSet(recent) PROVE Own(t) \subseteq Own(t)'
    <3>1. t \in 1 .. Len(said)
      BY RecentSessions
    <3>2. Told(t)' = Told(t)
      BY <1>5, <3>1 DEF Told
    <3> QED BY <1>6, <3>2 DEF Own
  <2> QED BY <2>1
<1>8. Filing'
  BY <1>1, <1>4, <1>7, FilingKept
<1>9. s \notin ToSet(recent) /\ \A M : StoredIn(stored[s], M)
  <2>1. s \notin 1 .. Len(said) /\ s \in Sessions
    BY <1>2, <1>3, BoundsAssumption DEF Connect, Sessions
  <2>2. DOMAIN stored[s] = {}
    BY <1>2, <1>3, <2>1 DEF Types, StoreOK
  <2> QED BY <2>1, <2>2, RecentSessions DEF StoredIn
<1>10. PICK a \in EventSet(s), b \in EventSet(s) :
           a = Event("connected", thread.provider, {}) /\ b = Event("created", s, {})
  <2>1. Event("connected", thread.provider, {}) \in EventSet(s)
    BY <1>2 DEF Event, EventSet, ThreadState
  <2>2. s \in 1 .. s
    BY <1>2, <1>3
  <2>3. Event("created", s, {}) \in EventSet(s)
    BY <2>2 DEF Event, EventSet
  <2> QED BY <2>1, <2>3
<1>11. /\ Len(events') = Len(events) + 2 /\ events'[Len(events) + 1] = a /\ events'[Len(events) + 2] = b
       /\ \A i \in 1 .. Len(events) : events'[i] = events[i]
  <2>1. events' = events \o <<a, b>>
    BY <1>3, <1>10 DEF Connect
  <2>2. events \in Seq(EventSet(s))
    BY <1>2, <1>3, SetsGrow, SeqMonotonic
  <2> QED BY <1>2, <2>1, <2>2
<1>12. /\ \A i \in 1 .. Len(events') :
              i \in 1 .. Len(events) \/ i = Len(events) + 1 \/ i = Len(events) + 2
       /\ 1 .. Len(events) \subseteq 1 .. Len(events') /\ Len(events) + 2 \in 1 .. Len(events')
  BY <1>2, <1>11
<1>13. /\ Greeting(a, ToSet(recent)) /\ Greeting(b, ToSet(recent))
       /\ b.ev = "created" /\ b.arg = s
  BY <1>9, <1>10 DEF Greeting, Event
<1>14. ASSUME \A i \in 1 .. Len(events) : Greeting(events[i], ToSet(recent))
       PROVE  \A i \in 1 .. Len(events') : Greeting(events'[i], ToSet(recent))
  BY <1>11, <1>12, <1>13, <1>14
<1>15. ASSUME lookups = {}, InSession',
              \A i \in 1 .. Len(events) : Greeting(events[i], ToSet(recent)),
              \/ ShownIn(panel.shown, Own(s)')
              \/ \E i \in 1 .. Len(events) : events[i].ev = "switching"
       PROVE  Arriving'
  <2>1. PICK k \in 1 .. Len(events') : k = Len(events) + 2
    BY <1>12
  <2>2. events'[k].ev = "created" /\ events'[k].arg = s
    BY <1>11, <1>13, <2>1
  <2>3. \A i \in 1 .. Len(events') : Greeting(events'[i], ToSet(recent))
    BY <1>14, <1>15
  <2>4. \A i \in 1 .. Len(events') : ~(i > k)
    BY <1>2, <1>11, <2>1
  <2>5. \/ ShownIn(panel.shown, Own(s)')
        \/ \E i \in 1 .. Len(events') :
               /\ i < k /\ events'[i].ev = "switching"
               /\ \A j \in 1 .. Len(events') : j < i => Greeting(events'[j], ToSet(recent))
    <3>1. \A i \in 1 .. Len(events) : i < k
      BY <1>2, <2>1
    <3> QED BY <1>11, <1>12, <1>15, <2>3, <3>1
  <2>6. ArrivingAt(k)'
    BY <1>4, <2>2, <2>3, <2>4, <2>5 DEF ArrivingAt
  <2> QED BY <1>4, <1>9, <1>15, <2>6 DEF Arriving
<1>16. CASE Waking
  <2>1. Only("send")' /\ InSession'
    BY <1>4, <1>6, <1>16 DEF Waking, InSession, Only
  <2>2. OnWay \subseteq Own(s)'
    BY <1>4, <1>6 DEF Own
  <2>3. ShownIn(panel.shown, Own(s)')
    BY <1>16, <2>2, StoredMore DEF Waking
  <2>4. Arriving'
    BY <1>15, <1>16, <2>1, <2>3 DEF Waking
  <2> QED BY <1>1, <1>4, <1>8, <2>4 DEF Careful, Stage
<1>17. CASE Opening
  <2>1. Opening'
    BY <1>2, <1>4, <1>14, <1>17 DEF Opening
  <2> QED BY <1>1, <1>4, <1>8, <2>1 DEF Careful, Stage
<1>18. CASE Changing /\ Only("switch")
  <2>1. Changing'
    BY <1>2, <1>4, <1>14, <1>18 DEF Changing, Only
  <2> QED BY <1>1, <1>4, <1>8, <2>1 DEF Careful, Stage
<1>19. CASE Changing /\ ~Only("switch")
  <2>1. InSession'
    BY <1>4, <1>19 DEF Changing, InSession
  <2>2. \A M : ShownIn(<<>>, M)
    BY DEF ShownIn
  <2>3. Arriving'
    BY <1>15, <1>19, <2>1, <2>2 DEF Changing, Cleared
  <2> QED BY <1>1, <1>4, <1>8, <2>3 DEF Careful, Stage
<1>20. ~Asleep /\ ~Arriving /\ ~Talking
  BY <1>2, <1>6 DEF Asleep, Arriving, Talking, InSession
<1> QED BY <1>1, <1>16, <1>17, <1>18, <1>19, <1>20 DEF Stage

\* The conversation is replayed, then the panel hears that it is loaded.
LEMMA LoadOkCare ==
    ASSUME Types, Careful, LoadOk
    PROVE  Careful'
<1>1. Stage /\ OneMain(requests) /\ Filing
  BY DEF Careful
<1>2. /\ Len(said) \in Nat /\ events \in Seq(EventSet(Len(said))) /\ thread.phase = "loading"
      /\ UNCHANGED <<panel, lookups, stored, recent, requests, said>>
  BY DEF Types, LoadOk, ThreadOnly, store
<1>3. ~Listening /\ Opening
  BY <1>1, <1>2 DEF Listening, Stage, Asleep, Waking, Changing, Arriving, Talking, InSession
<1>4. PICK s \in ToSet(recent) :
          /\ panel.backing = s \/ panel.backing \notin ToSet(recent)
          /\ Mains(requests) = {} /\ Cleared /\ thread.load = s
  BY <1>2, <1>3 DEF Opening
<1>5. s \in 1 .. Len(said)
  BY RecentSessions
<1>6. /\ lookups = {} /\ \A i \in 1 .. Len(events) : Greeting(events[i], ToSet(recent))
      /\ OnWay = {}
  BY <1>3, <1>4 DEF Opening, OnWay
<1>7. thread'.sid = s /\ thread'.phase = "loop"
  BY <1>4 DEF LoadOk, Types, ThreadOK, ThreadState
<1>8. \A t : Told(t)' = Told(t) /\ Own(t) \subseteq Own(t)'
  BY <1>2, <1>6, OwnKept
<1>9. Filing'
  BY <1>1, <1>2, <1>8, FilingKept
<1>10. PICK M : M = Told(s)
  OBVIOUS
<1>11. Own(s) = M /\ Own(s)' = M /\ Told(s)' = M
  <2>1. OnWay' = {}
    BY <1>2, <1>6 DEF OnWay
  <2> QED BY <1>3, <1>8, <1>10, <2>1 DEF Own
<1>12. StoredIn(stored'[s], M)
  BY <1>1, <1>2, <1>11 DEF Filing
<1>13. PICK turns \in Seq(Items) : turns = said[s].turns
  <2>1. said[s] \in SessionState
    BY <1>5 DEF Types
  <2> QED BY <2>1 DEF SessionState
<1>14. PICK r \in Seq(EventSet(Len(said))) : r = Replay(turns)
  BY <1>2, Replayed
<1>15. \A i \in 1 .. Len(r) : Replays(r[i], M)
  <2>1. r = [i \in 1 .. Len(turns) |->
               Event(IF turns[i].who = "user" THEN "user" ELSE "delta", None, turns[i].of)]
    BY <1>14 DEF Replay
  <2>2. Len(turns) \in Nat /\ Len(r) \in Nat /\ DOMAIN r = 1 .. Len(r) /\ DOMAIN r = 1 .. Len(turns)
    BY <2>1
  <2>3. \A i \in 1 .. Len(turns) : turns[i].of \subseteq M
    BY <1>10, <1>13 DEF Told
  <2> QED BY <2>1, <2>2, <2>3 DEF Replays, Event
<1>16. PICK c \in EventSet(Len(said)) : c = Event("created", s, {})
  BY <1>5 DEF Event, EventSet
<1>17. c.ev = "created" /\ c.arg = s /\ events' = events \o r \o <<c>>
  BY <1>4, <1>13, <1>14, <1>16 DEF LoadOk, Event
<1>18. PICK k \in Nat : k = Len(events) + Len(r) + 1
  BY <1>2
<1>19. /\ Len(events') = k /\ events'[k] = c
       /\ \A i \in 1 .. Len(events) : events'[i] = events[i]
       /\ \A i \in 1 .. Len(r) : events'[Len(events) + i] = r[i]
  <2>1. PICK p \in Seq(EventSet(Len(said))) : p = events \o r
    BY <1>2, <1>14, ConcatProperties
  <2>2. /\ Len(p) = Len(events) + Len(r) /\ Len(r) \in Nat
        /\ \A i \in 1 .. Len(events) : p[i] = events[i]
        /\ \A i \in 1 .. Len(r) : p[Len(events) + i] = r[i]
    BY <1>2, <1>14, <2>1
  <2>3. events' = Append(p, c)
    BY <1>17, <2>1, AppendIsConcat
  <2>4. Len(events') = Len(p) + 1 /\ events'[Len(p) + 1] = c /\ \A i \in 1 .. Len(p) : events'[i] = p[i]
    BY <2>1, <2>3, AppendProperties
  <2>5. /\ \A i \in 1 .. Len(events) : i \in 1 .. Len(p)
        /\ \A i \in 1 .. Len(r) : Len(events) + i \in 1 .. Len(p)
    BY <1>2, <2>2
  <2> QED BY <1>18, <2>2, <2>4, <2>5
<1>20. /\ k \in 1 .. Len(events') /\ \A i \in 1 .. Len(events) : i \in 1 .. Len(events') /\ i < k
       /\ \A i \in 1 .. Len(events') :
              i < k => i \in 1 .. Len(events) \/ \E j \in 1 .. Len(r) : i = Len(events) + j
  <2>1. Len(r) \in Nat
    BY <1>14
  <2>2. k \in 1 .. Len(events') /\ \A i \in 1 .. Len(events) : i \in 1 .. Len(events') /\ i < k
    BY <1>2, <1>18, <1>19, <2>1
  <2>3. ASSUME NEW i \in 1 .. Len(events'), i < k, i \notin 1 .. Len(events)
        PROVE  \E j \in 1 .. Len(r) : i = Len(events) + j
    <3>1. i - Len(events) \in 1 .. Len(r) /\ i = Len(events) + (i - Len(events))
      BY <1>2, <1>18, <1>19, <2>1, <2>3
    <3> QED BY <3>1
  <2> QED BY <2>2, <2>3
<1>21. \A i \in 1 .. Len(events') :
           i < k => Greeting(events'[i], ToSet(recent)) \/ Replays(events'[i], M)
  BY <1>6, <1>15, <1>19, <1>20
<1>22. \A i \in 1 .. Len(events') : ~(i > k)
  BY <1>19
<1>23. \/ ShownIn(panel.shown, M)
       \/ \E i \in 1 .. Len(events') :
              /\ i < k /\ events'[i].ev = "switching"
              /\ \A j \in 1 .. Len(events') : j < i => Greeting(events'[j], ToSet(recent))
  <2>1. CASE panel.shown = <<>>
    BY <2>1 DEF ShownIn
  <2>2. ASSUME NEW i \in 1 .. Len(events), events[i].ev = "switching"
        PROVE  <1>23!2
    <3>1. i < k /\ i \in 1 .. Len(events') /\ events'[i].ev = "switching"
      BY <1>19, <1>20, <2>2
    <3>2. ASSUME NEW j \in 1 .. Len(events'), j < i PROVE Greeting(events'[j], ToSet(recent))
      <4>1. j \in 1 .. Len(events)
        BY <1>2, <3>2
      <4> QED BY <1>6, <1>19, <4>1
    <3> QED BY <3>1, <3>2
  <2> QED BY <1>4, <2>1, <2>2 DEF Cleared
<1>24. ArrivingAt(k)'
  BY <1>2, <1>4, <1>7, <1>11, <1>17, <1>19, <1>21, <1>22, <1>23 DEF ArrivingAt
<1>25. InSession'
  BY <1>2, <1>4, <1>7 DEF InSession
<1>26. Arriving'
  BY <1>2, <1>6, <1>7, <1>11, <1>12, <1>20, <1>24, <1>25 DEF Arriving
<1> QED BY <1>1, <1>2, <1>9, <1>26 DEF Careful, Stage

----------------------------------------------------------------------------
(* The careful user: all steps.                                            *)

\* What was once stored or said without care stays so.
LEMMA LooseStays ==
    ASSUME HistoryOK, Next
    PROVE  HistoryOK' /\ (history.loose => history'.loose)
<1>1. CASE UNCHANGED history
  BY <1>1 DEF HistoryOK
<1>2. ASSUME NEW l \in BOOLEAN, Click(l) PROVE HistoryOK' /\ (history.loose => history'.loose)
  BY <1>2, Clicked
<1>3. CASE history' = [history EXCEPT !.loose = TRUE]
  BY <1>3 DEF HistoryOK
<1>4. ASSUME NEW s, history' = [history EXCEPT !.answered = s]
      PROVE  HistoryOK' /\ (history.loose => history'.loose)
  BY <1>4 DEF HistoryOK
<1>11. ASSUME NEW s, history' = [history EXCEPT !.loose = TRUE, !.answered = s]
       PROVE  HistoryOK' /\ (history.loose => history'.loose)
  BY <1>11 DEF HistoryOK
<1>5. CASE User
  <2>1. (~Settled) \in BOOLEAN
    BY DEF Settled
  <2>2. UNCHANGED history \/ Click(~Settled) \/ Click(TRUE)
    BY <1>5 DEF User, SendMessage, AddToWiki, Ask, Stop, NewChat, AnswerPermission, SwitchAgent,
       BrowseTo, OpenSubject
  <2> QED BY <1>1, <1>2, <2>1, <2>2
<1>6. CASE \E x \in Subjects : LookedUp(x)
  <2>1. UNCHANGED history \/ history' = [history EXCEPT !.loose = TRUE]
    BY <1>6 DEF LookedUp
  <2> QED BY <1>1, <1>3, <2>1
<1>7. CASE HandleEvent
  BY <1>1, <1>7 DEF HandleEvent, OnSwitching, OnConnected, OnSessionCreated, OnUserMessage,
     OnTextDelta, OnTurnCompleted, OnSessionLoadFailed, OnPermissionRequest, OnError, Unfiled
<1>8. CASE ThreadSteps
  BY <1>1, <1>3, <1>8 DEF ThreadSteps, Wake, Stranded, Loop, PollPrompt, LoopSend, LoopCancel,
     Resolve, LoopSummarize, LoopLoad, LoopLoadRefused, LoopSwitch, PromptCancel, PromptSummarize,
     PromptSwitch, PromptDrop
<1>9. CASE AgentAnswers
  <2>1. \/ UNCHANGED history \/ history' = [history EXCEPT !.loose = TRUE]
        \/ \E s : history' = [history EXCEPT !.loose = TRUE, !.answered = s]
    <3>1. ConnectFails =>
              \E s : history' = [history EXCEPT !.loose = TRUE, !.answered = s]
      BY DEF ConnectFails
    <3> QED BY <1>9, <3>1 DEF AgentAnswers, Connect, SummaryEnds, LoadOk, LoadFails
  <2> QED BY <1>1, <1>3, <1>11, <2>1
<1>10. CASE AgentTurns
  <2>1. UNCHANGED history \/ \E s : history' = [history EXCEPT !.answered = s]
    BY <1>10 DEF AgentTurns, AgentReplies, AgentAsksPermission, TurnEnds
  <2> QED BY <1>1, <1>4, <2>1
<1> QED BY <1>5, <1>6, <1>7, <1>8, <1>9, <1>10 DEF Next

LEMMA CareInit == Init => CareInv
<1> SUFFICES ASSUME Init PROVE CareInv
  OBVIOUS
<1>1. Types
  BY TypesInit
<1>2. HistoryOK
  BY DEF Init, HistoryOK
<1>3. Asleep /\ OneMain(requests)
  BY NoMains DEF Init, Asleep, Single, None
<1>4. 1 \in Sessions
  BY BoundsAssumption DEF Sessions
<1>5. ToSet(recent) = {1}
  BY DEF Init, ToSet
<1>6. stored[1] = Visible(Earlier) /\ said[1].turns = Earlier
  BY <1>4 DEF Init
<1>7. \A i \in DOMAIN Visible(Earlier) :
          i \in DOMAIN Earlier /\ Visible(Earlier)[i] = Earlier[i]
  BY DEF Visible
<1>8. StoredIn(stored[1], Own(1))
  BY <1>6, <1>7 DEF StoredIn, Own, Told
<1>9. Filing
  BY <1>5, <1>8 DEF Filing
<1> QED BY <1>1, <1>2, <1>3, <1>9 DEF CareInv, Careful, Stage

LEMMA ThreadStepsCare ==
    ASSUME Types, HistoryOK, Careful, ThreadSteps
    PROVE  ~history'.loose => Careful'
<1>1. Stage /\ OneMain(requests)
  BY DEF Careful
<1>2. CASE Wake
  BY <1>2, MinorCare
<1>3. thread.phase # "stranded"
  BY <1>1 DEF Stage, Asleep, Waking, Opening, Changing, Arriving, Talking, InSession, Listening
<1>4. CASE Loop
  <2>1. LoopLoadRefused => history'.loose
    BY DEF LoopLoadRefused, HistoryOK
  <2> QED BY <1>4, <2>1, LoopSendCare, MinorCare, LeavingCare DEF Loop
<1>5. CASE PollPrompt
  <2>1. thread.phase = "prompt"
    BY <1>5 DEF PollPrompt
  <2>2. ~(PromptSwitch \/ PromptDrop)
    <3>1. ASSUME PromptSwitch \/ PromptDrop PROVE FALSE
      <4>1. /\ requests # <<>> /\ requests' = Tail(requests)
            /\ Head(requests).op \in {"send", "load", "switch"}
        BY <3>1 DEF PromptSwitch, PromptDrop, Reconnect, Take, Drop
      <4>2. Mains(requests) = {Head(requests)}
        BY <1>1, <4>1, Read
      <4> QED BY <1>1, <2>1, <4>2, PromptStage
    <3> QED BY <3>1
  <2> QED BY <1>5, <2>1, <2>2, MinorCare DEF PollPrompt
<1> QED BY <1>2, <1>3, <1>4, <1>5 DEF ThreadSteps, Stranded

LEMMA CareStep == CareInv /\ [Next]_vars => CareInv'
<1> SUFFICES ASSUME CareInv, [Next]_vars PROVE CareInv'
  OBVIOUS
<1>1. Types /\ Types' /\ HistoryOK
  BY TypesStep DEF CareInv
<1>2. CASE UNCHANGED vars
  <2>1. UNCHANGED <<requests, events, thread, said, panel, lookups, stored, recent, history>>
    BY <1>2 DEF vars, agent, store
  <2>2. OneMain(requests') = OneMain(requests) /\ Mains(requests') = Mains(requests)
    BY <2>1
  <2>3. HistoryOK' /\ history'.loose = history.loose
    BY <1>1, <2>1 DEF HistoryOK
  <2>4. (Listening' <=> Listening)
    BY <2>1 DEF Listening
  <2>5. ASSUME Careful, ~Asleep PROVE Careful'
    BY <1>1, <2>1, <2>2, <2>5, QuietStep DEF Careful
  <2>6. ASSUME Careful, Asleep PROVE Careful'
    <3>1. \A s : Own(s)' = Own(s)
      BY <2>1, <2>2, <2>4, OwnSame
    <3> QED BY <2>1, <2>2, <2>6, <3>1 DEF Careful, Stage, Filing, Asleep
  <2> QED BY <1>1, <2>3, <2>5, <2>6 DEF CareInv
<1>3. CASE Next
  <2>1. HistoryOK' /\ (history.loose => history'.loose)
    BY <1>1, <1>3, LooseStays
  <2>2. ASSUME ~history.loose PROVE ~history'.loose => Careful'
    <3>1. Careful
      BY <2>2 DEF CareInv
    <3>2. CASE User
      BY <1>1, <2>2, <3>1, <3>2, UserCare
    <3>3. CASE HandleEvent
      BY <1>1, <3>1, <3>3, PumpCare
    <3>4. CASE ThreadSteps
      BY <1>1, <3>1, <3>4, ThreadStepsCare
    <3>5. CASE AgentAnswers
      <4>1. CASE Connect
        BY <1>1, <3>1, <4>1, ConnectCare
      <4>2. CASE SummaryEnds
        BY <1>1, <3>1, <4>2, MinorCare
      <4>3. CASE LoadOk
        BY <1>1, <3>1, <4>3, LoadOkCare
      <4>4. CASE ConnectFails \/ LoadFails
        <5>1. history'.loose
          BY <1>1, <4>4 DEF ConnectFails, LoadFails, HistoryOK
        <5> QED BY <5>1
      <4> QED BY <3>5, <4>1, <4>2, <4>3, <4>4 DEF AgentAnswers
    <3>6. CASE AgentTurns
      BY <1>1, <3>1, <3>6, AgentTurnsCare
    <3>7. CASE \E x \in Subjects : LookedUp(x)
      BY <1>1, <3>1, <3>7, LookedUpCare
    <3> QED BY <1>3, <3>2, <3>3, <3>4, <3>5, <3>6, <3>7 DEF Next
  <2> QED BY <1>1, <2>1, <2>2 DEF CareInv
<1> QED BY <1>2, <1>3

\* What is filed under a session was said in it or is on its way there, for a user
\* who waits, as long as no connection and no load fails: however the panel, the
\* thread and the agent interleave, and whatever else the user does.
THEOREM FiledByTheCareful == Spec => []FiledWhereSaidWithCare
<1>1. CareInv => FiledWhereSaidWithCare
  <2> SUFFICES ASSUME CareInv, ~history.loose,
                      NEW s \in ToSet(recent), NEW i \in DOMAIN stored[s], NEW m \in stored[s][i].of
               PROVE  In(s, m) \/ Waiting(m)
    BY DEF FiledWhereSaidWithCare, FiledWhereSaid
  <2>1. m \in Own(s)
    BY DEF CareInv, Careful, Filing, StoredIn
  <2>2. CASE m \in Told(s)
    BY <2>2 DEF Told, In
  <2>3. CASE m \in OnWay
    <3>1. PICK j \in 1 .. Len(requests) : requests[j].op = "send" /\ requests[j].arg = m
      BY <2>3 DEF OnWay, Mains
    <3>2. requests[j] \in RequestSet(Len(said))
      BY <3>1 DEF CareInv, Types
    <3>3. requests[j] = Request("send", m) /\ DOMAIN requests = 1 .. Len(requests)
      BY <3>1, <3>2 DEF CareInv, Types, RequestSet, Request
    <3> QED BY <3>3 DEF Waiting
  <2> QED BY <2>1, <2>2, <2>3 DEF Own
<1> QED BY <1>1, CareInit, CareStep, PTL DEF Spec
=============================================================================
