----------------------------- MODULE ChatSession -----------------------------
(***************************************************************************)
(* The chat with the AI agent: the panel and its event pump, the thread    *)
(* that drives the agent over two channels, the agent with its sessions,   *)
(* and the store of conversations.  The panel believes to know the session *)
(* that backs what it shows; the thread has a session of its own; messages *)
(* travel between them, and nothing else keeps the two together.           *)
(*                                                                         *)
(* Messages are numbers; one reply, sent as one text delta, stands for the *)
(* deltas and tool calls of a turn.  Signing in, the model picker and the  *)
(* list of sessions are left out; so are the summaries' words.             *)
(***************************************************************************)
EXTENDS Naturals, Sequences, SequencesExt

CONSTANTS
    Subjects,           \* papers a conversation can be about
    Opened, Filed,      \* the one open at first; one with a conversation on file
    Providers,          \* ids of agents
    FirstProvider,      \* the configured one
    Loaders,            \* those with the load_session capability
    MaxMessages,        \* bound: messages the user sends
    MaxSessions,        \* bound: sessions the agents create
    MaxPermissions,     \* bound: permissions an agent asks for per connection
    MaxClicks           \* bound: actions of the user but Stop and answers

ASSUME ProviderAssumption ==
    FirstProvider \in Providers /\ Loaders \subseteq Providers /\ Providers \subseteq Nat
ASSUME SubjectAssumption == {Opened, Filed} \subseteq Subjects
ASSUME BoundsAssumption ==
    {MaxMessages, MaxSessions} \subseteq Nat \ {0} /\ {MaxPermissions, MaxClicks} \subseteq Nat

VARIABLES
    requests,   \* ChatRequests on their way to the thread
    events,     \* ChatEvents on their way to the panel
    thread,     \* the thread: what it does and with which session
    pending,    \* permissions the connected agent waits for
    said,       \* session -> whose it is, and the messages its agent remembers
    panel,      \* what the panel shows and believes
    lookups,    \* subjects whose conversation is being looked up
    stored,     \* session -> the messages stored for it, by their seq
    row,        \* session -> its row of chat_sessions
    recent,     \* sessions with a row, the last used one last
    asked,      \* messages sent so far: what each is about
    history     \* what has happened so far, for the properties
vars == <<requests, events, thread, pending, said, panel, lookups, stored, row, recent,
          asked, history>>
store == <<stored, row, recent>>
agent == <<thread, pending, said>>

None == 0
Messages == 1 .. MaxMessages
Sessions == 1 .. MaxSessions
NoRow == [about |-> Opened, provider |-> FirstProvider, dead |-> TRUE]

\* A message as the transcript holds it: who wrote it, and which questions it
\* asks or answers.
Item(who, of) == [who |-> who, of |-> of]
Request(op, arg) == [op |-> op, arg |-> arg]
Event(ev, arg, of) == [ev |-> ev, arg |-> arg, of |-> of]

Blank == [seq \in {} |-> Item("user", {})]    \* a transcript with no message

\* The messages of a transcript that are stored.
Visible(shown) == [i \in {j \in DOMAIN shown : shown[j].who # "hidden"} |-> shown[i]]

\* A conversation about Filed, of an earlier run of the program.
Earlier == <<Item("user", {1}), Item("agent", {1})>>

\* The panel has been opened on the paper Opened.
Init ==
    /\ requests = <<>> /\ events = <<>>
    /\ thread = [phase |-> "dormant", sid |-> None, msg |-> None, deferred |-> None,
                 load |-> None, provider |-> FirstProvider, asks |-> 0,
                 cancelled |-> FALSE, replied |-> FALSE]
    /\ pending = {}
    /\ said = <<[provider |-> FirstProvider, turns |-> Earlier]>>
    /\ panel = [shown |-> <<>>, status |-> "idle", backing |-> None, subject |-> Opened,
                provider |-> FirstProvider, open |-> {}]
    /\ lookups = {}
    /\ stored = [s \in Sessions |-> IF s = 1 THEN Visible(Earlier) ELSE Blank]
    /\ row = [s \in Sessions |->
                IF s = 1 THEN [about |-> Filed, provider |-> FirstProvider, dead |-> FALSE] ELSE NoRow]
    /\ recent = <<1>>
    /\ asked = <<Filed>>
    /\ history = [clicks |-> 0, hasty |-> FALSE, loose |-> FALSE, answered |-> {1}]

----------------------------------------------------------------------------
(* The store of conversations.                                             *)

MoveToEnd(s, q) == Append(RemoveFirst(q, s), s)

\* upsert_chat_session: a row that was marked dead is alive again.
Record(s) ==
    /\ row' = [row EXCEPT ![s] = [about |-> panel.subject, provider |-> panel.provider,
                                  dead |-> FALSE]]
    /\ recent' = MoveToEnd(s, recent)

\* Messages are stored under session and seq: one with the same seq is replaced.
Over(items, kept) ==
    [i \in DOMAIN items \cup DOMAIN kept |-> IF i \in DOMAIN items THEN items[i] ELSE kept[i]]
SaveAll(s, shown) == stored' = [stored EXCEPT ![s] = Over(Visible(shown), @)]
SaveLast(s, shown) ==
    stored' = [stored EXCEPT ![s] = Over([seq \in {Len(shown)} |-> Last(shown)], @)]

Transcript(s) ==
    LET seqs == SetToSortSeq(DOMAIN stored[s], <)
    IN  [i \in DOMAIN seqs |-> stored[s][seqs[i]]]

\* Where the live conversation about x that was used last stands in recent, or 0.
LastUsed(x) == SelectLastInSeq(recent, LAMBDA s : row[s].about = x /\ ~row[s].dead)

----------------------------------------------------------------------------
(* The user at the panel.                                                  *)

Busy == panel.status \in {"connecting", "streaming"}

\* Nothing is under way that the user would have to wait for.
Settled == /\ requests = <<>> /\ events = <<>> /\ lookups = {}
           /\ thread.phase \in {"dormant", "loop", "stranded"}

\* A click; it is hasty when something is under way, and loose when what is stored
\* may part from what was said.
Click(loose) ==
    /\ history.clicks < MaxClicks
    /\ history' = [history EXCEPT !.clicks = @ + 1, !.hasty = @ \/ ~Settled, !.loose = @ \/ loose]

Post(op, arg) == requests' = Append(requests, Request(op, arg))

\* The new message, and what the panel shows with it.
NextMessage == Len(asked) + 1
Showing(who) == Append(panel.shown, Item(who, {NextMessage}))

Ask(who) ==
    /\ NextMessage <= MaxMessages
    /\ Click(~Settled)
    /\ asked' = Append(asked, panel.subject)
    /\ panel' = [panel EXCEPT !.shown = Showing(who), !.status = "streaming"]
    /\ UNCHANGED <<events, agent, lookups>>

\* Mutant of SendMessage: the summary is asked for before the message is sent.
SummarizeThenSend ==
    /\ ~Busy
    /\ Ask("user")
    /\ IF panel.backing = None
       THEN UNCHANGED store
       ELSE Record(panel.backing) /\ SaveLast(panel.backing, Showing("user"))
    /\ requests' = requests \o
                   (IF panel.backing # None /\ \A i \in DOMAIN panel.shown : panel.shown[i].who = "agent"
                    THEN <<Request("summarize", panel.backing)>> ELSE <<>>)
                   \o <<Request("send", NextMessage)>>

\* do_send: the message is shown, filed under the session the panel believes
\* in, and sent; the first one is followed by a request for a summary.
SendMessage ==
    /\ ~Busy
    /\ Ask("user")
    /\ IF panel.backing = None
       THEN UNCHANGED store
       ELSE Record(panel.backing) /\ SaveLast(panel.backing, Showing("user"))
    /\ requests' = Append(requests, Request("send", NextMessage)) \o
                   IF panel.backing # None /\ \A i \in DOMAIN panel.shown : panel.shown[i].who = "agent"
                   THEN <<Request("summarize", panel.backing)>> ELSE <<>>

\* "Add to wiki" on a paper sends a message that is neither shown nor stored,
\* whatever the panel is doing.
AddToWiki ==
    /\ Ask("hidden")
    /\ Post("send", NextMessage)
    /\ UNCHANGED store

Stop ==
    /\ Busy
    /\ Post("cancel", None)
    /\ panel' = [panel EXCEPT !.status = "idle"]
    /\ UNCHANGED <<events, agent, lookups, store, asked, history>>

NewChat ==
    /\ Click(~Settled)
    /\ panel' = [panel EXCEPT !.shown = <<>>, !.status = "idle", !.open = {}]
    /\ UNCHANGED <<requests, events, agent, lookups, store, asked>>

\* One of the open permissions is answered; every one shown counts as answered.
AnswerPermission ==
    \E p \in panel.open :
        /\ Post("answer", p)
        /\ panel' = [panel EXCEPT !.open = {}]
        /\ UNCHANGED <<events, agent, lookups, store, asked, history>>

\* The settings connect to an agent.
SwitchAgent(provider) ==
    /\ Click(~Settled)
    /\ Post("switch", provider)
    /\ UNCHANGED <<events, agent, panel, lookups, store, asked>>

\* The session browser loads a session the agent has listed.
BrowseTo(s) ==
    /\ s \in DOMAIN said /\ said[s].provider = panel.provider
    /\ Click(TRUE)
    /\ Post("load", s)
    /\ panel' = [panel EXCEPT !.shown = <<>>, !.status = "connecting", !.open = {}]
    /\ UNCHANGED <<events, agent, lookups, store, asked>>

\* switch_to: the user opens another paper, when the panel is idle, or confirms
\* that the conversation is to be switched when it is not.
OpenSubject(x) ==
    /\ panel.subject # x /\ Click(~Settled)
    /\ panel' = [panel EXCEPT !.shown = <<>>, !.subject = x, !.backing = None, !.open = {}]
    /\ lookups' = lookups \cup {x}
    /\ UNCHANGED <<requests, events, agent, store, asked>>

\* The store has answered: the conversation found is shown, and loaded if it is
\* one of the connected agent.
LookedUp(x) ==
    /\ x \in lookups /\ lookups' = lookups \ {x}
    /\ IF LastUsed(x) = 0
       THEN UNCHANGED <<requests, panel, history>>
       ELSE LET s == recent[LastUsed(x)]
                same == row[s].provider = panel.provider
            IN  /\ panel' = [panel EXCEPT !.shown = Transcript(s), !.backing = s,
                                          !.status = IF same THEN "connecting" ELSE @]
                /\ IF same THEN Post("load", s) /\ UNCHANGED history
                   ELSE UNCHANGED requests /\ history' = [history EXCEPT !.loose = TRUE]
    /\ UNCHANGED <<events, agent, store, asked>>

----------------------------------------------------------------------------
(* The panel's event pump.                                                 *)

\* A piece of a reply continues the last reply shown.
WithReply(shown, m) ==
    IF shown # <<>> /\ Last(shown).who = "agent"
    THEN [shown EXCEPT ![Len(shown)].of = @ \cup m]
    ELSE Append(shown, Item("agent", m))

Receive(ev) == events # <<>> /\ Head(events).ev = ev /\ events' = Tail(events)
Unfiled == UNCHANGED <<requests, agent, lookups, store, asked, history>>

OnSwitching ==
    /\ Receive("switching")
    /\ panel' = [panel EXCEPT !.shown = <<>>, !.status = "connecting", !.open = {},
                              !.provider = Head(events).arg]
    /\ Unfiled

OnConnected ==
    /\ Receive("connected")
    /\ panel' = [panel EXCEPT !.status = "connecting", !.provider = Head(events).arg]
    /\ Unfiled

OnSessionCreated ==
    /\ Receive("created")
    /\ panel' = [panel EXCEPT !.status = "idle", !.backing = Head(events).arg]
    /\ Unfiled

\* A question of a transcript the agent replays is stored again.
OnUserMessage ==
    LET shown == Append(panel.shown, Item("user", Head(events).of))
    IN  /\ Receive("user")
        /\ panel' = [panel EXCEPT !.shown = shown]
        /\ IF panel.backing = None THEN UNCHANGED stored ELSE SaveLast(panel.backing, shown)
        /\ UNCHANGED <<requests, agent, lookups, row, recent, asked, history>>

OnTextDelta ==
    /\ Receive("delta")
    /\ panel' = [panel EXCEPT !.shown = WithReply(@, Head(events).of), !.status = "streaming"]
    /\ Unfiled

\* The transcript shown is stored under the session the panel believes in.
OnTurnCompleted ==
    /\ Receive("turn")
    /\ panel' = [panel EXCEPT !.status = "idle"]
    /\ IF panel.backing = None
       THEN UNCHANGED store
       ELSE /\ SaveAll(panel.backing, panel.shown)
            /\ recent' = IF panel.backing \in ToSet(recent) THEN MoveToEnd(panel.backing, recent)
                                                            ELSE recent
            /\ UNCHANGED row
    /\ UNCHANGED <<requests, agent, lookups, asked, history>>

OnSessionLoadFailed ==
    /\ Receive("loadfailed")
    /\ panel' = [panel EXCEPT !.status = "idle"]
    /\ row' = [row EXCEPT ![Head(events).arg].dead = TRUE]
    /\ UNCHANGED <<requests, agent, lookups, stored, recent, asked, history>>

OnPermissionRequest ==
    /\ Receive("permission")
    /\ panel' = [panel EXCEPT !.shown = WithReply(@, {}), !.open = @ \cup {Head(events).arg}]
    /\ Unfiled

OnError ==
    /\ Receive("error")
    /\ panel' = [panel EXCEPT !.shown = Append(@, Item("agent", {})), !.status = "error"]
    /\ Unfiled

HandleEvent ==
    \/ OnSwitching \/ OnConnected \/ OnSessionCreated \/ OnUserMessage \/ OnTextDelta
    \/ OnTurnCompleted \/ OnSessionLoadFailed \/ OnPermissionRequest \/ OnError

----------------------------------------------------------------------------
(* The agent thread.                                                       *)

Emit(ev, arg) == events' = Append(events, Event(ev, arg, {}))
Phase(p) == thread' = [thread EXCEPT !.phase = p]
Take(op) == requests # <<>> /\ Head(requests).op = op /\ requests' = Tail(requests)
Arg == Head(requests).arg
Waiting(m) == \E i \in DOMAIN requests : requests[i] = Request("send", m)
ThreadOnly == UNCHANGED <<panel, lookups, store, asked>>

\* Mutant of Wake: the request that woke the thread is not passed on.
WakeAndForget ==
    /\ thread.phase = "dormant" /\ requests # <<>>
    /\ Phase("connecting")
    /\ requests' = Tail(requests)
    /\ UNCHANGED <<events, pending, said, history>> /\ ThreadOnly

\* agent_main: the thread connects when the first request comes, which stays
\* in the channel for the session's loop.
Wake ==
    /\ thread.phase = "dormant" /\ requests # <<>>
    /\ Phase("connecting")
    /\ UNCHANGED <<requests, events, pending, said, history>> /\ ThreadOnly

\* connect_and_run: the agent is started, greeted and asked for a session.
Connect ==
    LET s == Len(said) + 1
    IN  /\ thread.phase = "connecting" /\ s <= MaxSessions
        /\ thread' = [thread EXCEPT !.phase = "loop", !.sid = s, !.asks = 0,
                                    !.deferred = None]
        /\ said' = Append(said, [provider |-> thread.provider, turns |-> <<>>])
        /\ events' = events \o <<Event("connected", thread.provider, {}), Event("created", s, {})>>
        /\ UNCHANGED <<requests, pending, history>> /\ ThreadOnly

\* The agent does not start, or it is greeted and gives no session, which is told
\* twice.  The error is the answer to what is in the channel.
ConnectFails ==
    /\ thread.phase = "connecting"
    /\ Phase("stranded")
    /\ \E greeted \in {<<>>, <<Event("connected", thread.provider, {}), Event("error", None, {})>>} :
        events' = events \o greeted \o <<Event("error", None, {})>>
    /\ history' = [history EXCEPT !.loose = TRUE, !.answered = @ \cup {m \in Messages : Waiting(m)}]
    /\ UNCHANGED <<requests, pending, said>> /\ ThreadOnly

\* Mutant of Reconnect: the permissions outlive the connection.
ReconnectKeeping ==
    /\ Take("switch")
    /\ thread' = [thread EXCEPT !.phase = "connecting", !.provider = Arg]
    /\ UNCHANGED <<pending, said>>

\* The agent is replaced: the connection and its permissions are dropped.
Reconnect ==
    /\ Take("switch")
    /\ thread' = [thread EXCEPT !.phase = "connecting", !.provider = Arg]
    /\ pending' = {}
    /\ UNCHANGED said

Drop(ops) == requests # <<>> /\ Head(requests).op \in ops /\ requests' = Tail(requests)

\* wait_for_switch_or_shutdown: every other request is lost.
Stranded ==
    /\ thread.phase = "stranded"
    /\ \/ Reconnect
       \/ Drop({"send", "cancel", "answer", "load", "summarize"}) /\ UNCHANGED agent
    /\ UNCHANGED <<events, history>> /\ ThreadOnly

\* A permission is resolved by its number among those of the connection.
Resolve ==
    /\ Take("answer")
    /\ pending' = pending \ {Arg}
    /\ UNCHANGED <<events, thread, said, history>> /\ ThreadOnly

Remember(item) == said' = [said EXCEPT ![thread.sid].turns = Append(@, item)]

LoopSend ==
    /\ Take("send")
    /\ thread' = [thread EXCEPT !.phase = "prompt", !.msg = Arg, !.cancelled = FALSE,
                                !.replied = FALSE]
    /\ Remember(Item("user", {Arg}))
    /\ UNCHANGED <<events, pending, history>> /\ ThreadOnly

LoopCancel == Drop({"cancel"}) /\ UNCHANGED <<events, agent, history>> /\ ThreadOnly

\* A conversation other than the loaded one is not summarized.
LoopSummarize ==
    /\ Take("summarize")
    /\ IF Arg = thread.sid THEN Phase("summary") ELSE UNCHANGED thread
    /\ UNCHANGED <<events, pending, said, history>> /\ ThreadOnly

LoopLoad ==
    /\ Take("load") /\ thread.provider \in Loaders
    /\ thread' = [thread EXCEPT !.phase = "loading", !.load = Arg]
    /\ Emit("switching", thread.provider)
    /\ UNCHANGED <<pending, said, history>> /\ ThreadOnly

\* An agent that cannot load sessions is not asked to.
LoopLoadRefused ==
    /\ Take("load") /\ thread.provider \notin Loaders
    /\ Emit("loadfailed", Arg)
    /\ history' = [history EXCEPT !.loose = TRUE]
    /\ UNCHANGED agent /\ ThreadOnly

LoopSwitch ==
    /\ Reconnect
    /\ Emit("switching", Arg)
    /\ UNCHANGED history /\ ThreadOnly

Loop ==
    /\ thread.phase = "loop"
    /\ \/ LoopSend \/ LoopCancel \/ Resolve \/ LoopSummarize \/ LoopLoad \/ LoopLoadRefused
       \/ LoopSwitch

\* While a prompt is answered: a request for a summary is put off, a switch of
\* agent ends the turn unannounced, and a message or a load is lost.
PromptCancel ==
    /\ Take("cancel")
    /\ thread' = [thread EXCEPT !.cancelled = TRUE]
    /\ UNCHANGED <<events, pending, said, history>> /\ ThreadOnly

PromptSummarize ==
    /\ Take("summarize")
    /\ thread' = [thread EXCEPT !.deferred = Arg]
    /\ UNCHANGED <<events, pending, said, history>> /\ ThreadOnly

\* Mutant of PromptSwitch: the switch is lost like a message.
PromptIgnoresSwitch == Drop({"switch"}) /\ UNCHANGED <<events, agent, history>> /\ ThreadOnly

PromptSwitch ==
    /\ Reconnect
    /\ UNCHANGED <<events, history>> /\ ThreadOnly

PromptDrop == Drop({"send", "load"}) /\ UNCHANGED <<events, agent, history>> /\ ThreadOnly

PollPrompt ==
    /\ thread.phase = "prompt"
    /\ \/ PromptCancel \/ Resolve \/ PromptSummarize \/ PromptSwitch \/ PromptDrop

----------------------------------------------------------------------------
(* The agent.                                                              *)

AgentReplies ==
    /\ thread.phase = "prompt" /\ ~thread.replied
    /\ thread' = [thread EXCEPT !.replied = TRUE]
    /\ Remember(Item("agent", {thread.msg}))
    /\ events' = Append(events, Event("delta", None, {thread.msg}))
    /\ UNCHANGED <<requests, pending, history>> /\ ThreadOnly

AgentAsksPermission ==
    /\ thread.phase = "prompt" /\ ~thread.cancelled /\ thread.asks < MaxPermissions
    /\ thread' = [thread EXCEPT !.asks = @ + 1]
    /\ pending' = pending \cup {thread.asks + 1}
    /\ Emit("permission", thread.asks + 1)
    /\ UNCHANGED <<requests, said, history>> /\ ThreadOnly

\* The turn is over, well or not; an agent that waits for a permission ends it
\* only when told to.  A summary that was put off is asked for now.
TurnEnds(ev) ==
    /\ thread.phase = "prompt" /\ (pending = {} \/ thread.cancelled)
    /\ ev = "turn" => thread.replied \/ thread.cancelled
    /\ thread' = [thread EXCEPT !.phase = IF thread.deferred = thread.sid THEN "summary" ELSE "loop",
                                !.deferred = None]
    /\ Emit(ev, None)
    /\ history' = [history EXCEPT !.answered = @ \cup {thread.msg}]
    /\ UNCHANGED <<requests, pending, said>> /\ ThreadOnly

\* The summary is there, or its time is up; the transcript does not see it.
SummaryEnds ==
    /\ thread.phase = "summary"
    /\ Phase("loop")
    /\ UNCHANGED <<requests, events, pending, said, history>> /\ ThreadOnly

\* session/load: the agent replays the conversation, then the session is the
\* loaded one; or the agent does not know it any more.
Replay(turns) ==
    [i \in DOMAIN turns |->
        Event(IF turns[i].who = "user" THEN "user" ELSE "delta", None, turns[i].of)]

\* Mutants of LoadOk: the thread stays with its session; the panel is not told.
LoadOnlyShows ==
    /\ thread.phase = "loading" /\ said[thread.load].provider = thread.provider
    /\ thread' = [thread EXCEPT !.phase = "loop", !.load = None]
    /\ events' = events \o Replay(said[thread.load].turns) \o <<Event("created", thread.load, {})>>
    /\ UNCHANGED <<requests, pending, said, history>> /\ ThreadOnly

LoadOk ==
    /\ thread.phase = "loading" /\ said[thread.load].provider = thread.provider
    /\ thread' = [thread EXCEPT !.phase = "loop", !.sid = thread.load, !.load = None]
    /\ events' = events \o Replay(said[thread.load].turns) \o <<Event("created", thread.load, {})>>
    /\ UNCHANGED <<requests, pending, said, history>> /\ ThreadOnly

LoadFails ==
    /\ thread.phase = "loading"
    /\ thread' = [thread EXCEPT !.phase = "loop", !.load = None]
    /\ Emit("loadfailed", thread.load)
    /\ history' = [history EXCEPT !.loose = TRUE]
    /\ UNCHANGED <<requests, pending, said>> /\ ThreadOnly

----------------------------------------------------------------------------

User ==
    \/ SendMessage \/ AddToWiki \/ Stop \/ NewChat \/ AnswerPermission
    \/ \E v \in Providers : SwitchAgent(v)
    \/ \E s \in Sessions : BrowseTo(s)
    \/ \E x \in Subjects : OpenSubject(x)
ThreadSteps == Wake \/ Stranded \/ Loop \/ PollPrompt
AgentAnswers == Connect \/ ConnectFails \/ SummaryEnds \/ LoadOk \/ LoadFails
AgentTurns == AgentReplies \/ AgentAsksPermission \/ TurnEnds("turn") \/ TurnEnds("error")

Next == \/ User \/ HandleEvent \/ ThreadSteps \/ AgentAnswers \/ AgentTurns
        \/ \E x \in Subjects : LookedUp(x)

Spec == Init /\ [][Next]_vars

\* The pump, the thread's polls and the store go on, the agent answers what the
\* thread waits for without polling.  That a turn ends, and that the user
\* answers what the agent asks, is for some properties only.
Fairness ==
    /\ WF_vars(HandleEvent) /\ WF_vars(ThreadSteps) /\ WF_vars(AgentAnswers)
    /\ \A x \in Subjects : WF_vars(LookedUp(x))
FairSpec == Spec /\ Fairness

TurnsEnd == WF_vars(AgentTurns) /\ WF_vars(AnswerPermission)
            /\ WF_vars(TurnEnds("turn") \/ TurnEnds("error"))

----------------------------------------------------------------------------
(* Properties.                                                             *)

\* The values of the variables.
TypeOK ==
    /\ thread.phase \in {"dormant", "connecting", "loop", "prompt", "summary", "loading",
                         "stranded"}
    /\ thread.sid \in 0 .. Len(said) /\ thread.provider \in Providers
    /\ pending \subseteq 1 .. thread.asks
    /\ panel.status \in {"idle", "connecting", "streaming", "error"}
    /\ panel.backing \in 0 .. Len(said) /\ panel.subject \in Subjects
    /\ \A s \in Sessions : DOMAIN stored[s] # {} => s <= Len(said)
    /\ \A s \in ToSet(recent) : s <= Len(said)
    /\ Len(asked) <= MaxMessages

In(s, m) == \E i \in DOMAIN said[s].turns : m \in said[s].turns[i].of

\* What is stored as the transcript of a conversation on record was said in its
\* session, or is still on its way there.
FiledWhereSaid ==
    \A s \in ToSet(recent) : \A i \in DOMAIN stored[s] : \A m \in stored[s][i].of :
        In(s, m) \/ Waiting(m)

\* That holds for a user who does nothing while something is under way and opens
\* conversations through their papers, as long as no connection and no load fails.
FiledWhereSaidWithCare == ~history.loose => FiledWhereSaid

\* A session is asked for a summary only after something was said in it, however
\* requests for messages, summaries and other sessions overtake each other.
SummaryFollowsMessage == thread.phase = "summary" => said[thread.sid].turns # <<>>

\* A message is answered, with a reply or an error, also the one that woke the
\* thread and the one that was waiting when the connection failed; unless the user
\* does not wait for what is under way, or says it to a thread that is stranded
\* already, which drops it.
MessagesAnswered ==
    TurnsEnd => \A m \in Messages :
        Waiting(m) ~>
            \/ m \in history.answered
            \/ history.hasty
            \/ thread.phase = "stranded" /\ requests # <<>> /\ Head(requests) = Request("send", m)

\* However the agent hangs in a turn, or fails to start, a switch to another
\* one is carried out.
SwitchGetsThrough ==
    (\E i \in DOMAIN requests : requests[i].op = "switch") ~>
        (thread.phase = "connecting" /\ \A i \in DOMAIN requests : requests[i].op # "switch")


----------------------------------------------------------------------------
(* What one would expect and the code does not do.                         *)

\* Whoever waits is answered, and the panel settles, after a failed connection too.
AnsweredWhenStranded ==
    TurnsEnd => \A m \in Messages :
        Waiting(m) ~> (m \in history.answered \/ history.hasty)
SettlesWhenStranded == TurnsEnd => (Busy ~> (~Busy \/ history.hasty))

\* Every conversation is about one subject: the first message on a paper
\* without a conversation starts one.
OneSubjectPerSession ==
    \A s \in DOMAIN said : \A i, j \in DOMAIN said[s].turns :
        \A m \in said[s].turns[i].of, n \in said[s].turns[j].of : asked[m] = asked[n]

\* A conversation the agent has forgotten is not offered again.
DeadStaysDead == [][\A s \in ToSet(recent) : row[s].dead => row'[s].dead]_vars
=============================================================================
