--------------------------- MODULE PdfTabs_proofs ---------------------------
(***************************************************************************)
(* Theorems about PdfTabs, for any documents, sizes and limits: types,     *)
(* whose pages a tab and a cache hold and how many, and how many tabs keep *)
(* theirs when another is shown.                                           *)
(***************************************************************************)
EXTENDS PdfTabs, SequenceTheorems, FiniteSetTheorems, WellFoundedInduction, TLAPS

----------------------------------------------------------------------------
(* Sets of pages.                                                          *)

\* Images of d's pages, one of each.
PagesOf(d, ps) ==
    /\ ps \subseteq Page
    /\ \A g, h \in ps : g.doc = d /\ (g.page = h.page => g = h)

LEMMA PagesAreNumbers ==
    /\ AllPages \subseteq Nat
    /\ \A d \in Doc : 0 \in AllPages /\ 0 .. PageCount[d] - 1 \subseteq AllPages
BY SizesAssumption DEF AllPages

LEMMA SubsetPagesOf ==
    ASSUME NEW d, NEW ps, PagesOf(d, ps), NEW qs \in SUBSET ps
    PROVE  PagesOf(d, qs)
BY DEF PagesOf

\* Images of pages between two numbers are no more than the numbers.
LEMMA PagesBetween ==
    ASSUME NEW d, NEW ps, PagesOf(d, ps), NEW a \in Int, NEW b \in Int, a <= b + 1,
           \A g \in ps : a <= g.page /\ g.page <= b
    PROVE  IsFiniteSet(ps) /\ Cardinality(ps) <= b - a + 1
<1> DEFINE f == [g \in ps |-> g.page]
<1>0. \A g \in ps : g.page \in Nat
  BY PagesAreNumbers DEF PagesOf, Page
<1>1. \A g \in ps : g.page \in a .. b
  BY <1>0
<1>2. f \in Injection(ps, a .. b)
  BY <1>1 DEF PagesOf, Injection, IsInjective
<1>3. IsFiniteSet(a .. b) /\ Cardinality(a .. b) = b - a + 1
  BY FS_Interval
<1> QED BY <1>2, <1>3, FS_Injection

\* What is kept of a document's pages is within the limit, wherever the window is.
LEMMA EvictedFits ==
    ASSUME NEW d, NEW ps, PagesOf(d, ps), NEW c \in Nat
    PROVE  PagesOf(d, Evicted(ps, c)) /\ Cardinality(Evicted(ps, c)) <= MaxPages
<1>1. CASE Cardinality(ps) <= MaxPages
  BY <1>1 DEF Evicted
<1>2. CASE ~(Cardinality(ps) <= MaxPages)
  <2> DEFINE qs == Evicted(ps, c)
  <2>1. qs = {g \in ps : g.page + Radius >= c /\ g.page <= c + Radius}
    BY <1>2 DEF Evicted
  <2>2. PagesOf(d, qs)
    BY <2>1, SubsetPagesOf
  <2>3. \A g \in qs : g.page \in Nat
    BY <2>2, PagesAreNumbers DEF PagesOf, Page
  <2>4. Radius \in Nat /\ MaxPages \in Nat /\ 2 * Radius + 1 <= MaxPages
    BY SizesAssumption
  <2>5. \A g \in qs : c - Radius <= g.page /\ g.page <= c + Radius
    BY <2>1, <2>3, <2>4
  <2> HIDE DEF qs
  <2>6. Cardinality(qs) <= (c + Radius) - (c - Radius) + 1 /\ IsFiniteSet(qs)
    BY <2>2, <2>4, <2>5, PagesBetween
  <2>7. Cardinality(qs) \in Nat
    BY <2>6, FS_CardinalityType
  <2> QED BY <2>2, <2>4, <2>6, <2>7 DEF qs
<1> QED BY <1>1, <1>2

LEMMA ExtendedPagesOf ==
    ASSUME NEW d, NEW ps, PagesOf(d, ps), NEW more, PagesOf(d, more)
    PROVE  PagesOf(d, Extended(ps, more))
BY DEF PagesOf, Extended

\* What is rendered of a document is images of its pages.
LEMMA RenderedPagesOf ==
    ASSUME NEW d \in Doc, file[d] \in 1 .. MaxVersions, NEW ns \in SUBSET Nat
    PROVE  PagesOf(d, Rendered(d, ns))
<1>1. ASSUME NEW n \in Nat, n < PageCount[d] PROVE n \in AllPages
  BY <1>1, SizesAssumption DEF AllPages
<1>2. ASSUME NEW g \in Rendered(d, ns)
      PROVE  g \in Page /\ g = [doc |-> d, page |-> g.page, version |-> file[d]]
  BY <1>1 DEF Rendered, Page
<1> QED BY <1>2 DEF PagesOf, Page

\* The first batch is within the limit.
LEMMA BatchFits ==
    ASSUME NEW d \in Doc, file[d] \in 1 .. MaxVersions
    PROVE  LET ps == Rendered(d, 0 .. Batch - 1)
           IN  PagesOf(d, ps) /\ Cardinality(ps) <= MaxPages
<1> DEFINE ps == Rendered(d, 0 .. Batch - 1)
<1>1. /\ Batch \in Nat \ {0} /\ MaxPages \in Nat /\ Batch <= MaxPages
      /\ 0 .. Batch - 1 \in SUBSET Nat
  BY SizesAssumption
<1>2. PagesOf(d, ps)
  BY <1>1, RenderedPagesOf
<1>3. \A g \in ps : 0 <= g.page /\ g.page <= Batch - 1
  BY <1>1 DEF Rendered
<1> HIDE DEF ps
<1>4. IsFiniteSet(ps) /\ Cardinality(ps) <= Batch - 1 - 0 + 1
  BY <1>1, <1>2, <1>3, PagesBetween
<1>5. Cardinality(ps) \in Nat
  BY <1>4, FS_CardinalityType
<1> QED BY <1>1, <1>2, <1>4, <1>5 DEF ps
----------------------------------------------------------------------------
(* What is true of every state.                                            *)

TabState ==
    [doc : Doc, count : Nat, pages : SUBSET Page, loading : BOOLEAN, page : AllPages]

\* A tab shows pages of its document, as many as it may.
TabOK(r) ==
    r \in TabState /\ PagesOf(r.doc, r.pages) /\ Cardinality(r.pages) <= MaxPages

\* Ids are given out once, and one of the open tabs is shown.
OpenOK ==
    /\ lastId \in 0 .. MaxTabs
    /\ open \in Seq(1 .. lastId)
    /\ \A i, j \in 1 .. Len(open) : open[i] = open[j] => i = j
    /\ IF open = << >> THEN active = 0 ELSE IsOpen(active)

TabsOK ==
    /\ tab \in [Ids -> TabState \union {NoTab}]
    /\ \A t \in Ids : IF IsOpen(t) THEN TabOK(tab[t]) ELSE tab[t] = NoTab

OpenJobs == [kind : {"open"}, tab : Ids, doc : Doc, missed : BOOLEAN]
ClickJobs == [kind : {"click"}, tab : Ids]
WindowJobs == [kind : {"window"}, tab : Ids]
MoreJobs == [kind : {"more"}, tab : Ids, doc : Doc, pages : SUBSET AllPages]
Jobs == {Idle} \union ClickJobs \union OpenJobs \union WindowJobs \union MoreJobs

\* A task is for a tab that was given out, and for its document if that is still open.
JobOK(j) ==
    j # Idle =>
        /\ j.tab <= lastId
        /\ j.kind \in {"open", "more"} /\ IsOpen(j.tab) => tab[j.tab].doc = j.doc

JobsOK == task \in [Tasks -> Jobs] /\ \A s \in Tasks : JobOK(task[s])

CacheOK ==
    /\ file \in [Doc -> 1 .. MaxVersions]
    /\ meta \in [Doc -> [count : Nat, version : 0 .. MaxVersions]]
    /\ images \in [Doc -> SUBSET Page]
    /\ \A d \in Doc : PagesOf(d, images[d])

Inv == OpenOK /\ TabsOK /\ JobsOK /\ CacheOK

LEMMA InvInit == Init => Inv
<1> SUFFICES ASSUME Init PROVE Inv
  OBVIOUS
<1>0. MaxTabs \in Nat /\ MaxVersions \in Nat \ {0}
  BY SizesAssumption
<1>1. open = << >> /\ Len(open) = 0 /\ lastId = 0 /\ active = 0
  BY DEF Init
<1>2. \A t \in Ids : ~IsOpen(t)
  BY <1>1 DEF IsOpen
<1>3. OpenOK
  BY <1>0, <1>1, EmptySeq DEF OpenOK
<1>4. TabsOK
  BY <1>2 DEF Init, TabsOK
<1>5. JobsOK
  BY DEF Init, JobsOK, Jobs, JobOK
<1>6. CacheOK
  <2>1. NoMeta \in [count : Nat, version : 0 .. MaxVersions]
    BY <1>0 DEF NoMeta
  <2> HIDE DEF NoMeta
  <2>2. \A d \in Doc : PagesOf(d, {})
    BY DEF PagesOf
  <2> QED BY <1>0, <2>1, <2>2 DEF Init, CacheOK
<1> QED BY <1>3, <1>4, <1>5, <1>6 DEF Inv

\* Where the open tabs are.
LEMMA OpenFacts ==
    ASSUME OpenOK
    PROVE  /\ Len(open) \in Nat /\ lastId \in Nat
           /\ \A i \in 1 .. Len(open) : open[i] \in 1 .. lastId /\ open[i] \in Ids /\ IsOpen(open[i])
           /\ \A t : IsOpen(t) => t \in 1 .. lastId /\ t \in Ids
<1>1. MaxTabs \in Nat /\ lastId \in Nat /\ lastId <= MaxTabs
  BY SizesAssumption DEF OpenOK
<1>2. Len(open) \in Nat /\ \A i \in 1 .. Len(open) : open[i] \in 1 .. lastId
  BY LenProperties DEF OpenOK
<1>3. \A t \in 1 .. lastId : t \in Ids
  BY <1>1 DEF Ids
<1> QED BY <1>1, <1>2, <1>3 DEF IsOpen

\* A page count, a page or the loading flag put into a tab leaves it a tab.
LEMMA TabChanged ==
    ASSUME NEW r, TabOK(r), NEW n \in Nat, NEW ps, PagesOf(r.doc, ps), Cardinality(ps) <= MaxPages,
           NEW b \in BOOLEAN, NEW c \in AllPages
    PROVE  /\ TabOK([r EXCEPT !.pages = ps]) /\ [r EXCEPT !.pages = ps].doc = r.doc
           /\ TabOK([r EXCEPT !.loading = b]) /\ [r EXCEPT !.loading = b].doc = r.doc
           /\ TabOK([r EXCEPT !.page = c]) /\ [r EXCEPT !.page = c].doc = r.doc
           /\ TabOK([r EXCEPT !.count = n, !.pages = ps, !.loading = b])
           /\ [r EXCEPT !.count = n, !.pages = ps, !.loading = b].doc = r.doc
<1>1. r \in TabState /\ ps \in SUBSET Page
  BY DEF TabOK, PagesOf
<1>2. /\ [r EXCEPT !.pages = ps] \in TabState
      /\ [r EXCEPT !.pages = ps].doc = r.doc /\ [r EXCEPT !.pages = ps].pages = ps
  BY <1>1 DEF TabState
<1>3. /\ [r EXCEPT !.loading = b] \in TabState
      /\ [r EXCEPT !.loading = b].doc = r.doc /\ [r EXCEPT !.loading = b].pages = r.pages
  BY <1>1 DEF TabState
<1>4. /\ [r EXCEPT !.page = c] \in TabState
      /\ [r EXCEPT !.page = c].doc = r.doc /\ [r EXCEPT !.page = c].pages = r.pages
  BY <1>1 DEF TabState
<1> DEFINE q == [r EXCEPT !.count = n, !.pages = ps, !.loading = b]
<1>5. q \in TabState /\ q.doc = r.doc /\ q.pages = ps
  BY <1>1 DEF TabState
<1> HIDE DEF q
<1>6. TabOK(q)
  BY <1>5 DEF TabOK
<1>7. TabOK([r EXCEPT !.pages = ps])
  BY <1>2 DEF TabOK
<1>8. TabOK([r EXCEPT !.loading = b]) /\ TabOK([r EXCEPT !.page = c])
  BY <1>3, <1>4 DEF TabOK
<1> QED BY <1>2, <1>3, <1>4, <1>5, <1>6, <1>7, <1>8 DEF q

LEMMA EmptyPages ==
    /\ \A d : PagesOf(d, {})
    /\ Cardinality({}) <= MaxPages
BY FS_EmptySet, SizesAssumption DEF PagesOf

LEMMA NewTabOK == \A d \in Doc : TabOK(NewTab(d)) /\ NewTab(d).doc = d
<1> SUFFICES ASSUME NEW d \in Doc PROVE TabOK(NewTab(d)) /\ NewTab(d).doc = d
  OBVIOUS
<1>1. NewTab(d) \in TabState /\ NewTab(d).pages = {} /\ NewTab(d).doc = d
  BY PagesAreNumbers DEF NewTab, TabState
<1> QED BY <1>1, EmptyPages DEF TabOK

\* Suspending leaves the open tabs tabs, of the same documents, and the others as they are.
LEMMA SuspendedTabs ==
    ASSUME NEW tabs \in [Ids -> TabState \union {NoTab}], NEW t,
           \A u \in Ids : IsOpen(u) => TabOK(tabs[u])
    PROVE  /\ Suspended(tabs, t) \in [Ids -> TabState \union {NoTab}]
           /\ \A u \in Ids :
                 /\ ~IsOpen(u) \/ u = t => Suspended(tabs, t)[u] = tabs[u]
                 /\ IsOpen(u) => /\ TabOK(Suspended(tabs, t)[u])
                                 /\ Suspended(tabs, t)[u].doc = tabs[u].doc
<1> DEFINE S == Suspended(tabs, t)
<1>1. /\ S = [u \in Ids |-> S[u]]
      /\ \A u \in Ids : S[u] = tabs[u] \/ (IsOpen(u) /\ u # t /\ S[u] = [tabs[u] EXCEPT !.pages = {}])
  BY DEF Suspended
<1> HIDE DEF S
<1>2. ASSUME NEW u \in Ids, IsOpen(u) PROVE TabOK(S[u]) /\ S[u].doc = tabs[u].doc
  <2>1. TabOK(tabs[u])
    BY <1>2
  <2>2. /\ TabOK([tabs[u] EXCEPT !.pages = {}])
        /\ [tabs[u] EXCEPT !.pages = {}].doc = tabs[u].doc
    BY <2>1, EmptyPages, TabChanged, PagesAreNumbers DEF TabOK, TabState
  <2> QED BY <1>1, <2>1, <2>2
<1>3. \A u \in Ids : S[u] \in TabState \union {NoTab}
  BY <1>1, <1>2 DEF TabOK
<1>4. S \in [Ids -> TabState \union {NoTab}]
  BY <1>1, <1>3
<1> QED BY <1>1, <1>2, <1>4 DEF S
----------------------------------------------------------------------------
(* What steps leave alone.                                                 *)

\* A tab that was given out and is open was open before, with the same document.
DocsStay ==
    \A t \in Ids : t <= lastId /\ IsOpen(t)' => IsOpen(t) /\ tab'[t].doc = tab[t].doc

\* A task in order stays in order while tabs keep their documents.
LEMMA JobStays ==
    ASSUME DocsStay, lastId \in Nat, lastId' \in Nat, lastId <= lastId',
           NEW k \in Jobs, JobOK(k)
    PROVE  JobOK(k)'
<1> SUFFICES ASSUME k # Idle
             PROVE  /\ k.tab <= lastId'
                    /\ k.kind \in {"open", "more"} /\ IsOpen(k.tab)' => tab'[k.tab].doc = k.doc
  BY DEF JobOK
<1>1. k.tab \in Ids /\ k.tab \in Nat
  BY DEF Jobs, ClickJobs, OpenJobs, WindowJobs, MoreJobs, Ids
<1> QED BY <1>1 DEF JobOK, DocsStay

\* So do all of them, and one may start, go on or end.
LEMMA JobsStay ==
    ASSUME JobsOK, DocsStay, lastId \in Nat, lastId' \in Nat, lastId <= lastId',
           NEW s \in Tasks, NEW j \in Jobs, JobOK(j),
           task' = task \/ task' = [task EXCEPT ![s] = j]
    PROVE  JobsOK'
<1>1. task' \in [Tasks -> Jobs]
  BY DEF JobsOK
<1>2. ASSUME NEW r \in Tasks PROVE JobOK(task[r])'
  <2>1. PICK k \in Jobs : k = task'[r]
    BY <1>1
  <2>2. JobOK(k)
    BY <2>1 DEF JobsOK
  <2>3. JobOK(k)'
    BY <2>2, JobStays
  <2> QED BY <2>1, <2>3 DEF JobOK
<1> QED BY <1>1, <1>2 DEF JobsOK

LEMMA IdleOK == Idle \in Jobs /\ JobOK(Idle)
BY DEF Jobs, JobOK

\* Tabs change while the same ones are open.
LEMMA TabsChange ==
    ASSUME TabsOK, open' = open, tab' \in [Ids -> TabState \union {NoTab}],
           \A u \in Ids : IF IsOpen(u) THEN TabOK(tab'[u]) /\ tab'[u].doc = tab[u].doc
                          ELSE tab'[u] = tab[u]
    PROVE  TabsOK' /\ DocsStay
<1>1. \A u \in Ids : IsOpen(u)' <=> IsOpen(u)
  BY DEF IsOpen
<1> QED BY <1>1 DEF TabsOK, DocsStay

\* One of them changes.
LEMMA TabChange ==
    ASSUME TabsOK, open' = open, NEW t \in Ids, IsOpen(t), NEW r, TabOK(r), r.doc = tab[t].doc,
           tab' = [tab EXCEPT ![t] = r]
    PROVE  TabsOK' /\ DocsStay
<1>1. tab' \in [Ids -> TabState \union {NoTab}]
  BY DEF TabsOK, TabOK
<1>2. \A u \in Ids : IF IsOpen(u) THEN TabOK(tab'[u]) /\ tab'[u].doc = tab[u].doc
                     ELSE tab'[u] = tab[u]
  BY DEF TabsOK
<1> QED BY <1>1, <1>2, TabsChange

LEMMA SameTabs ==
    ASSUME TabsOK, open' = open, tab' = tab
    PROVE  TabsOK' /\ DocsStay
BY TabsChange DEF TabsOK

\* The tabs that are open stay, and one of them is shown.
LEMMA SameOpen ==
    ASSUME OpenOK, open' = open, lastId' = lastId, active' = active \/ IsOpen(active')
    PROVE  OpenOK'
<1>1. \A t : IsOpen(t) => open # << >>
  <2>1. Len(<< >>) = 0
    BY EmptySeq
  <2> QED BY <2>1 DEF IsOpen
<1>2. IF open' = << >> THEN active' = 0 ELSE \E i \in 1 .. Len(open') : open'[i] = active'
  BY <1>1 DEF OpenOK, IsOpen
<1> QED BY <1>2 DEF OpenOK, IsOpen

\* Some tabs are closed: the open ones were open and are as they were.
LEMMA TabsClose ==
    ASSUME TabsOK, \A t : IsOpen(t)' => IsOpen(t),
           tab' \in [Ids -> TabState \union {NoTab}],
           \A u \in Ids : IF IsOpen(u)' THEN TabOK(tab'[u]) /\ tab'[u].doc = tab[u].doc
                          ELSE tab'[u] = NoTab
    PROVE  TabsOK' /\ DocsStay
BY DEF TabsOK, DocsStay

LEMMA SameCache ==
    ASSUME CacheOK, UNCHANGED <<meta, images, file>>
    PROVE  CacheOK'
BY DEF CacheOK

\* Every step has one of the two: no task changes, or one does.
LEMMA Kept ==
    ASSUME Inv, OpenOK', TabsOK', DocsStay, CacheOK', lastId' \in Nat, lastId <= lastId',
           task' = task
    PROVE  Inv'
<1>1. lastId \in Nat
  BY OpenFacts DEF Inv
<1>2. task' \in [Tasks -> Jobs] /\ \A s \in Tasks : JobOK(task'[s])
  BY DEF Inv, JobsOK
<1>3. ASSUME NEW s \in Tasks PROVE JobOK(task[s])'
  BY <1>1, IdleOK, JobsStay DEF Inv, JobsOK
<1> QED BY <1>2, <1>3 DEF Inv, JobsOK

LEMMA KeptButOne ==
    ASSUME Inv, OpenOK', TabsOK', DocsStay, CacheOK', lastId' = lastId,
           NEW s \in Tasks, NEW j \in Jobs, JobOK(j), task' = [task EXCEPT ![s] = j]
    PROVE  Inv'
<1>1. lastId \in Nat /\ lastId' \in Nat /\ lastId <= lastId'
  BY OpenFacts DEF Inv
<1>2. JobsOK'
  BY <1>1, JobsStay DEF Inv
<1> QED BY <1>2 DEF Inv
----------------------------------------------------------------------------
(* The user's steps.                                                       *)

LEMMA OpenTaskOK ==
    ASSUME OpenOK, TabsOK, NEW t \in Ids, IsOpen(t)
    PROVE  OpenTask(t) \in Jobs /\ JobOK(OpenTask(t))
<1>1. t <= lastId /\ tab[t].doc \in Doc
  BY OpenFacts DEF TabsOK, TabOK, TabState
<1>2. OpenTask(t) \in OpenJobs
  BY <1>1 DEF OpenTask, OpenJobs
<1>3. OpenTask(t).tab = t /\ OpenTask(t).doc = tab[t].doc
  BY DEF OpenTask
<1> QED BY <1>1, <1>2, <1>3 DEF Jobs, JobOK

LEMMA MoreTaskOK ==
    ASSUME OpenOK, TabsOK, NEW t \in Ids, IsOpen(t), NEW c
    PROVE  MoreTask(t, c) \in Jobs /\ JobOK(MoreTask(t, c))
<1>1. t <= lastId /\ tab[t].doc \in Doc /\ Missing(t, c) \in SUBSET AllPages
  BY OpenFacts DEF TabsOK, TabOK, TabState, Missing
<1>2. MoreTask(t, c) \in MoreJobs
  BY <1>1 DEF MoreTask, MoreJobs
<1>3. MoreTask(t, c).tab = t /\ MoreTask(t, c).doc = tab[t].doc
  BY DEF MoreTask
<1> QED BY <1>1, <1>2, <1>3 DEF Jobs, JobOK

\* Another of the open tabs is shown.
LEMMA SwitchKeeps ==
    ASSUME OpenOK, TabsOK, NEW t \in Ids, IsOpen(t), active' = t, tab' = Suspended(tab, t),
           open' = open, lastId' = lastId
    PROVE  OpenOK' /\ TabsOK' /\ DocsStay
<1>1. OpenOK'
  BY SameOpen
<1>2. tab \in [Ids -> TabState \union {NoTab}] /\ \A u \in Ids : IsOpen(u) => TabOK(tab[u])
  BY DEF TabsOK
<1>3. TabsOK' /\ DocsStay
  BY <1>2, SuspendedTabs, TabsChange
<1> QED BY <1>1, <1>3

\* A tab is opened under an id no tab has had.
LEMMA OpenNewKeeps ==
    ASSUME OpenOK, TabsOK, NEW d \in Doc, NEW n \in Ids, n = NextId, lastId' = n,
           open' = Append(open, n), active' = n,
           tab' = Suspended([tab EXCEPT ![n] = NewTab(d)], n)
    PROVE  OpenOK' /\ TabsOK' /\ DocsStay
<1> DEFINE tabs == [tab EXCEPT ![n] = NewTab(d)]
<1>0. /\ lastId \in Nat /\ MaxTabs \in Nat /\ n = lastId + 1 /\ n \in 1 .. MaxTabs
      /\ Len(open) \in Nat /\ \A i \in 1 .. Len(open) : open[i] \in 1 .. lastId
  BY OpenFacts, SizesAssumption DEF NextId, Ids
<1>1. open \in Seq(1 .. n)
  <2>1. 1 .. lastId \subseteq 1 .. n
    BY <1>0
  <2> QED BY <2>1, SeqMonotonic DEF OpenOK
<1> HIDE DEF tabs
<1>2. /\ open' \in Seq(1 .. n) /\ Len(open') = Len(open) + 1
      /\ \A i \in 1 .. Len(open) : open'[i] = open[i]
      /\ open'[Len(open) + 1] = n
  <2>1. n \in 1 .. n
    BY <1>0
  <2> QED BY <1>1, <2>1, AppendProperties
<1>3. \A t : IsOpen(t)' <=> IsOpen(t) \/ t = n
  BY <1>0, <1>2 DEF IsOpen
<1>4. OpenOK'
  <2>1. lastId' = n /\ n \in 0 .. MaxTabs
    BY <1>0
  <2>2. ASSUME NEW i \in 1 .. Len(open'), NEW j \in 1 .. Len(open'), open'[i] = open'[j]
        PROVE  i = j
    <3>1. CASE i \in 1 .. Len(open) /\ j \in 1 .. Len(open)
      BY <1>2, <2>2, <3>1 DEF OpenOK
    <3>2. CASE i = Len(open) + 1 \/ j = Len(open) + 1
      BY <1>0, <1>2, <2>2, <3>2
    <3> QED BY <1>0, <1>2, <3>1, <3>2
  <2>3. open' # << >>
    BY <1>0, <1>2, EmptySeq
  <2>4. IsOpen(active)'
    <3>1. Len(open) + 1 \in 1 .. Len(open')
      BY <1>0, <1>2
    <3> QED BY <1>2, <3>1 DEF IsOpen
  <2>5. open' \in Seq(1 .. lastId')
    BY <1>2, <2>1
  <2> QED BY <2>1, <2>2, <2>3, <2>4, <2>5 DEF OpenOK
<1>5. ~IsOpen(n) /\ \A t : IsOpen(t) => t \in 1 .. lastId
  BY <1>0 DEF IsOpen
<1>6. /\ tabs \in [Ids -> TabState \union {NoTab}] /\ tabs[n] = NewTab(d) /\ n \in Ids
      /\ \A u \in Ids : u # n => tabs[u] = tab[u]
  BY NewTabOK DEF TabsOK, TabOK, tabs
<1>7. \A u \in Ids : IsOpen(u) => TabOK(tabs[u])
  BY <1>5, <1>6 DEF TabsOK
<1>8. tab' = Suspended(tabs, n)
  BY DEF tabs
<1>s. /\ tab' \in [Ids -> TabState \union {NoTab}]
      /\ \A u \in Ids :
            /\ ~IsOpen(u) \/ u = n => tab'[u] = tabs[u]
            /\ IsOpen(u) => TabOK(tab'[u]) /\ tab'[u].doc = tabs[u].doc
  <2>1. PICK q : q = tabs
    OBVIOUS
  <2>2. /\ q \in [Ids -> TabState \union {NoTab}]
        /\ \A u \in Ids : IsOpen(u) => TabOK(q[u])
    BY <1>6, <1>7, <2>1
  <2>3. /\ Suspended(q, n) \in [Ids -> TabState \union {NoTab}]
        /\ \A u \in Ids :
              /\ ~IsOpen(u) \/ u = n => Suspended(q, n)[u] = q[u]
              /\ IsOpen(u) => TabOK(Suspended(q, n)[u]) /\ Suspended(q, n)[u].doc = q[u].doc
    BY <2>2, SuspendedTabs
  <2>4. tab' = Suspended(q, n)
    BY <1>8, <2>1
  <2> QED BY <2>1, <2>3, <2>4
<1>9. /\ tab' \in [Ids -> TabState \union {NoTab}]
      /\ \A u \in Ids : IF IsOpen(u) THEN TabOK(tab'[u]) /\ tab'[u].doc = tab[u].doc
                        ELSE tab'[u] = tabs[u]
  BY <1>5, <1>6, <1>s
<1>10. TabsOK'
  BY <1>3, <1>5, <1>6, <1>9, NewTabOK DEF TabsOK
<1>11. DocsStay
  <2> SUFFICES ASSUME NEW t \in Ids, t <= lastId, IsOpen(t)'
               PROVE  IsOpen(t) /\ tab'[t].doc = tab[t].doc
    BY DEF DocsStay
  <2>1. t # n
    BY <1>0
  <2> QED BY <1>3, <1>9, <2>1
<1> QED BY <1>4, <1>10, <1>11

LEMMA OpenFromLibraryKeeps ==
    ASSUME Inv, NEW d \in Doc, OpenFromLibrary(d)
    PROVE  Inv'
<1>1. OpenOK' /\ TabsOK' /\ DocsStay /\ lastId' \in Nat /\ lastId <= lastId'
  <2>1. ASSUME NEW t \in Ids, IsOpen(t), active' = t, tab' = Suspended(tab, t),
               UNCHANGED <<open, lastId>>
        PROVE  OpenOK' /\ TabsOK' /\ DocsStay /\ lastId' = lastId
    BY <2>1, SwitchKeeps DEF Inv
  <2>2. ASSUME NextId \in Ids, lastId' = NextId, open' = Append(open, NextId),
               active' = NextId, tab' = Suspended([tab EXCEPT ![NextId] = NewTab(d)], NextId)
        PROVE  OpenOK' /\ TabsOK' /\ DocsStay /\ lastId' = lastId + 1
    <3>1. PICK n \in Ids : n = NextId
      BY <2>2
    <3> QED BY <2>2, <3>1, OpenNewKeeps DEF Inv, NextId
  <2>3. lastId \in Nat
    BY OpenFacts DEF Inv
  <2> QED BY <2>1, <2>2, <2>3 DEF OpenFromLibrary, OpenPdf
<1>2. task' = task /\ CacheOK'
  BY SameCache DEF OpenFromLibrary, Inv
<1> QED BY <1>1, <1>2, Kept

LEMMA KeyToKeeps ==
    ASSUME Inv, NEW t \in Ids, KeyTo(t)
    PROVE  Inv'
<1>1. IsOpen(t)
  BY DEF KeyTo, IsOpen
<1>2. OpenOK' /\ TabsOK' /\ DocsStay
  BY <1>1, SwitchKeeps DEF KeyTo, Inv
<1>3. task' = task /\ CacheOK' /\ lastId' \in Nat /\ lastId <= lastId'
  BY SameCache, OpenFacts DEF KeyTo, Inv
<1> QED BY <1>2, <1>3, Kept

LEMMA ClickTabKeeps ==
    ASSUME Inv, NEW t \in Ids, NEW s \in Tasks, ClickTab(t, s)
    PROVE  Inv'
<1>1. OpenOK' /\ TabsOK' /\ DocsStay
  BY SwitchKeeps DEF ClickTab, Inv
<1>2. CacheOK' /\ lastId' = lastId
  BY SameCache DEF ClickTab, Inv
<1>3. PICK k : k = [kind |-> "click", tab |-> t]
  OBVIOUS
<1>4. k \in Jobs /\ JobOK(k)
  <2>1. k \in ClickJobs /\ k.tab = t /\ k.kind = "click"
    BY <1>3 DEF ClickJobs
  <2>2. t <= lastId
    BY OpenFacts DEF ClickTab, Inv
  <2> QED BY <2>1, <2>2 DEF Jobs, JobOK
<1>5. task' = [task EXCEPT ![s] = k]
  BY <1>3 DEF ClickTab, Start
<1> QED BY <1>1, <1>2, <1>4, <1>5, KeptButOne

\* What is left of a sequence when one place is taken out.
LEMMA Removed ==
    ASSUME NEW S, NEW s \in Seq(S), NEW i \in 1 .. Len(s)
    PROVE  /\ RemoveAt(s, i) \in Seq(S) /\ Len(RemoveAt(s, i)) = Len(s) - 1
           /\ \A j \in 1 .. Len(s) - 1 :
                 RemoveAt(s, i)[j] = IF j < i THEN s[j] ELSE s[j + 1]
<1> DEFINE a == SubSeq(s, 1, i - 1)
           b == SubSeq(s, i + 1, Len(s))
<1>0. Len(s) \in Nat /\ i \in Nat /\ 1 <= i /\ i <= Len(s) /\ \A j \in 1 .. Len(s) : s[j] \in S
  BY LenProperties
<1>1. a \in Seq(S) /\ Len(a) = i - 1 /\ \A j \in 1 .. i - 1 : a[j] = s[j]
  <2>1. \A j \in 1 .. i - 1 : s[j] \in S
    BY <1>0
  <2>2. /\ a \in Seq(S) /\ Len(a) = IF 1 <= i - 1 THEN i - 1 - 1 + 1 ELSE 0
        /\ \A j \in 1 .. (i - 1) - 1 + 1 : a[j] = s[1 + j - 1]
    BY <1>0, <2>1, SubSeqProperties
  <2> QED BY <1>0, <2>2
<1>2. /\ b \in Seq(S) /\ Len(b) = Len(s) - i
      /\ \A j \in 1 .. Len(s) - i : b[j] = s[i + j]
  <2>1. \A j \in i + 1 .. Len(s) : s[j] \in S
    BY <1>0
  <2>2. /\ b \in Seq(S) /\ Len(b) = IF i + 1 <= Len(s) THEN Len(s) - (i + 1) + 1 ELSE 0
        /\ \A j \in 1 .. Len(s) - (i + 1) + 1 : b[j] = s[(i + 1) + j - 1]
    BY <1>0, <2>1, SubSeqProperties
  <2> QED BY <1>0, <2>2
<1>3. RemoveAt(s, i) = a \o b
  BY DEF RemoveAt
<1> HIDE DEF a, b
<1>4. /\ a \o b \in Seq(S) /\ Len(a \o b) = Len(a) + Len(b)
      /\ \A j \in 1 .. Len(a) + Len(b) : (a \o b)[j] = IF j <= Len(a) THEN a[j] ELSE b[j - Len(a)]
  BY <1>1, <1>2, ConcatProperties
<1>5. PICK c : c = a \o b
  OBVIOUS
<1>6. \A j \in 1 .. Len(s) - 1 : c[j] = IF j < i THEN s[j] ELSE s[j + 1]
  <2> SUFFICES ASSUME NEW j \in 1 .. Len(s) - 1 PROVE c[j] = IF j < i THEN s[j] ELSE s[j + 1]
    OBVIOUS
  <2>1. CASE j < i
    BY <1>0, <1>1, <1>2, <1>4, <1>5, <2>1
  <2>2. CASE ~(j < i)
    <3>1. c[j] = b[j - (i - 1)] /\ j - (i - 1) \in 1 .. Len(s) - i
      BY <1>0, <1>1, <1>2, <1>4, <1>5, <2>2
    <3>2. b[j - (i - 1)] = s[i + (j - (i - 1))] /\ i + (j - (i - 1)) = j + 1
      BY <1>0, <1>2, <3>1
    <3> QED BY <2>2, <3>1, <3>2
  <2> QED BY <2>1, <2>2
<1> QED BY <1>0, <1>1, <1>2, <1>3, <1>4, <1>5, <1>6

\* A tab that is closed is the only one to go, and its neighbour, if any, is shown.
LEMMA CloseTabKeeps ==
    ASSUME OpenOK, NEW i \in 1 .. Len(open), CloseTab(i)
    PROVE  /\ OpenOK'
           /\ \A t : IsOpen(t)' <=> IsOpen(t) /\ t # open[i]
           /\ Neighbour(i) # 0 => IsOpen(Neighbour(i)) /\ Neighbour(i) # open[i]
<1>0. /\ Len(open) \in Nat /\ lastId \in Nat /\ open \in Seq(1 .. lastId)
      /\ i \in Nat /\ 1 <= i /\ i <= Len(open) /\ \A j \in 1 .. Len(open) : open[j] # 0
      /\ \A j, k \in 1 .. Len(open) : open[j] = open[k] => j = k
  BY OpenFacts DEF OpenOK
<1>1. /\ open' \in Seq(1 .. lastId) /\ Len(open') = Len(open) - 1
      /\ \A j \in 1 .. Len(open) - 1 : open'[j] = IF j < i THEN open[j] ELSE open[j + 1]
  BY <1>0, Removed DEF CloseTab
<1>2. ASSUME NEW t PROVE IsOpen(t)' <=> IsOpen(t) /\ t # open[i]
  <2>1. ASSUME NEW j \in 1 .. Len(open), open[j] = t, j # i
        PROVE  \E k \in 1 .. Len(open') : open'[k] = t
    <3>1. CASE j < i
      <4>1. j \in 1 .. Len(open) - 1
        BY <1>0, <3>1
      <4> QED BY <1>1, <2>1, <3>1, <4>1
    <3>2. CASE i < j
      <4>1. j - 1 \in 1 .. Len(open) - 1 /\ ~(j - 1 < i) /\ (j - 1) + 1 = j
        BY <1>0, <3>2
      <4> QED BY <1>1, <2>1, <4>1
    <3> QED BY <1>0, <2>1, <3>1, <3>2
  <2>2. ASSUME NEW k \in 1 .. Len(open'), open'[k] = t
        PROVE  \E j \in 1 .. Len(open) : open[j] = t /\ j # i
    <3>1. CASE k < i
      <4>1. k \in 1 .. Len(open) - 1 /\ k \in 1 .. Len(open) /\ k # i
        BY <1>0, <1>1, <3>1
      <4>2. open'[k] = open[k]
        BY <1>1, <3>1, <4>1
      <4> QED BY <2>2, <4>1, <4>2
    <3>2. CASE ~(k < i)
      <4>1. k + 1 \in 1 .. Len(open) /\ k + 1 # i
        BY <1>0, <1>1, <3>2
      <4>2. open'[k] = open[k + 1]
        <5>1. k \in 1 .. Len(open) - 1
          BY <1>1
        <5> QED BY <1>1, <3>2, <5>1
      <4> QED BY <2>2, <4>1, <4>2
    <3> QED BY <3>1, <3>2
  <2> QED BY <1>0, <2>1, <2>2 DEF IsOpen
<1>3. \A j, k \in 1 .. Len(open') : open'[j] = open'[k] => j = k
  <2> SUFFICES ASSUME NEW j \in 1 .. Len(open'), NEW k \in 1 .. Len(open'), open'[j] = open'[k]
               PROVE  j = k
    OBVIOUS
  <2>1. ASSUME NEW m \in 1 .. Len(open) - 1
        PROVE  \E a \in 1 .. Len(open) : open'[m] = open[a] /\ (m < i => a = m) /\ (~(m < i) => a = m + 1)
    <3>1. m \in 1 .. Len(open) /\ m + 1 \in 1 .. Len(open)
      BY <1>0
    <3> QED BY <1>1, <3>1
  <2>2. j \in 1 .. Len(open) - 1 /\ k \in 1 .. Len(open) - 1
    BY <1>1
  <2>3. PICK a \in 1 .. Len(open) : open'[j] = open[a] /\ (j < i => a = j) /\ (~(j < i) => a = j + 1)
    BY <2>1, <2>2
  <2>4. PICK b \in 1 .. Len(open) : open'[k] = open[b] /\ (k < i => b = k) /\ (~(k < i) => b = k + 1)
    BY <2>1, <2>2
  <2>5. a = b
    BY <1>0, <2>3, <2>4
  <2>6. j \in Nat /\ k \in Nat
    BY <2>2
  <2>7. (j < i => a = j) /\ (~(j < i) => a = j + 1) /\ (k < i => b = k) /\ (~(k < i) => b = k + 1)
    BY <2>3, <2>4
  <2>8. i \in Nat
    BY <1>0
  <2> QED BY <2>5, <2>6, <2>7, <2>8
<1>4. Neighbour(i) # 0 => IsOpen(Neighbour(i)) /\ Neighbour(i) # open[i]
  <2>1. CASE active # open[i]
    <3>1. open # << >>
      BY <1>0, EmptySeq
    <3> QED BY <2>1, <3>1 DEF Neighbour, OpenOK
  <2>2. CASE active = open[i] /\ i < Len(open)
    <3>1. i + 1 \in 1 .. Len(open) /\ i + 1 # i
      BY <1>0, <2>2
    <3>2. Neighbour(i) = open[i + 1]
      BY <2>2 DEF Neighbour
    <3> QED BY <1>0, <3>1, <3>2 DEF IsOpen
  <2>3. CASE active = open[i] /\ ~(i < Len(open)) /\ i > 1
    <3>1. i - 1 \in 1 .. Len(open) /\ i - 1 # i
      BY <1>0, <2>3
    <3>2. Neighbour(i) = open[i - 1]
      BY <2>3 DEF Neighbour
    <3> QED BY <1>0, <3>1, <3>2 DEF IsOpen
  <2>4. CASE active = open[i] /\ ~(i < Len(open)) /\ ~(i > 1)
    BY <2>4 DEF Neighbour
  <2> QED BY <2>1, <2>2, <2>3, <2>4
<1>5. IF open' = << >> THEN active' = 0 ELSE IsOpen(active)'
  <2>1. active' = Neighbour(i)
    BY DEF CloseTab
  <2>2. CASE Neighbour(i) # 0
    <3>1. PICK n : n = Neighbour(i)
      OBVIOUS
    <3>2. IsOpen(n)'
      BY <1>2, <1>4, <2>2, <3>1
    <3>3. open' # << >>
      BY <3>2, EmptySeq DEF IsOpen
    <3>4. active' = n
      BY <2>1, <3>1
    <3> QED BY <3>2, <3>3, <3>4 DEF IsOpen
  <2>3. CASE Neighbour(i) = 0
    <3>1. ~(i < Len(open)) /\ ~(i > 1)
      <4>1. \A j \in 1 .. Len(open) : open[j] # 0
        BY <1>0
      <4>2. active # open[i] => active # 0
        BY <1>0, EmptySeq, <4>1 DEF OpenOK, IsOpen
      <4>3. i < Len(open) => i + 1 \in 1 .. Len(open)
        BY <1>0
      <4>4. i > 1 => i - 1 \in 1 .. Len(open)
        BY <1>0
      <4> QED BY <2>3, <4>1, <4>2, <4>3, <4>4 DEF Neighbour
    <3>2. Len(open') = 0
      BY <1>0, <1>1, <3>1
    <3> QED BY <1>1, <2>1, <2>3, <3>2, EmptySeq
  <2> QED BY <2>2, <2>3
<1>6. lastId' = lastId
  BY DEF CloseTab
<1> QED BY <1>1, <1>2, <1>3, <1>4, <1>5, <1>6 DEF OpenOK

\* A closed tab's record is dropped.
LEMMA DroppedTab ==
    ASSUME OpenOK, TabsOK, NEW i \in 1 .. Len(open), CloseTab(i),
           tab' = [tab EXCEPT ![open[i]] = NoTab]
    PROVE  TabsOK' /\ DocsStay
<1>1. PICK t \in Ids : t = open[i]
  BY OpenFacts
<1>2. \A u : IsOpen(u)' <=> IsOpen(u) /\ u # t
  BY <1>1, CloseTabKeeps
<1>3. tab' \in [Ids -> TabState \union {NoTab}]
  BY <1>1 DEF TabsOK
<1>4. \A u \in Ids : IF IsOpen(u)' THEN TabOK(tab'[u]) /\ tab'[u].doc = tab[u].doc
                     ELSE tab'[u] = NoTab
  BY <1>1, <1>2 DEF TabsOK
<1> QED BY <1>2, <1>3, <1>4, TabsClose

LEMMA MenuCloseKeeps ==
    ASSUME Inv, NEW i \in 1 .. Len(open), MenuClose(i)
    PROVE  Inv'
<1>1. OpenOK' /\ TabsOK' /\ DocsStay
  BY CloseTabKeeps, DroppedTab DEF MenuClose, Inv
<1>2. task' = task /\ CacheOK' /\ lastId' \in Nat /\ lastId <= lastId'
  BY SameCache, OpenFacts DEF MenuClose, CloseTab, Inv
<1> QED BY <1>1, <1>2, Kept

LEMMA CloseAndShowKeeps ==
    ASSUME Inv, NEW i \in 1 .. Len(open), NEW s \in Tasks, CloseAndShow(i, s)
    PROVE  Inv'
<1>1. OpenOK /\ TabsOK /\ OpenOK' /\ CacheOK' /\ lastId' = lastId /\ lastId \in Nat
  BY CloseTabKeeps, SameCache, OpenFacts DEF CloseAndShow, CloseTab, Inv
<1>2. PICK n : n = Neighbour(i)
  OBVIOUS
<1>3. CASE n # 0 /\ NeedsRender(n)
  <2>1. PICK t \in Ids : t = open[i]
    BY <1>1, OpenFacts
  <2>2. \A u : IsOpen(u)' <=> IsOpen(u) /\ u # t
    BY <1>1, <2>1, CloseTabKeeps DEF CloseAndShow
  <2>3. IsOpen(n) /\ n # t /\ n \in Ids
    BY <1>1, <1>2, <1>3, <2>1, CloseTabKeeps, OpenFacts DEF CloseAndShow
  <2>4. tab' = [tab EXCEPT ![t] = NoTab, ![n].loading = TRUE]
    BY <1>2, <1>3, <2>1 DEF CloseAndShow
  <2>5. TabOK(tab[n])
    BY <1>1, <2>3 DEF TabsOK
  <2>6. PICK r : r = [tab[n] EXCEPT !.loading = TRUE]
    OBVIOUS
  <2>7. TabOK(r) /\ r.doc = tab[n].doc /\ r \in TabState
    <3>1. tab[n].page \in AllPages
      BY <2>5 DEF TabOK, TabState
    <3>2. TabOK(r) /\ r.doc = tab[n].doc
      BY <2>5, <2>6, <3>1, EmptyPages, TabChanged
    <3> QED BY <3>2 DEF TabOK
  <2>8. tab' \in [Ids -> TabState \union {NoTab}] /\ tab'[n] = r /\ tab'[t] = NoTab
        /\ \A u \in Ids : u # n /\ u # t => tab'[u] = tab[u]
    BY <1>1, <2>3, <2>4, <2>6, <2>7 DEF TabsOK
  <2>9. \A u \in Ids : IF IsOpen(u)' THEN TabOK(tab'[u]) /\ tab'[u].doc = tab[u].doc
                       ELSE tab'[u] = NoTab
    BY <1>1, <2>2, <2>3, <2>7, <2>8 DEF TabsOK
  <2>10. TabsOK' /\ DocsStay
    BY <1>1, <2>2, <2>8, <2>9, TabsClose
  <2>11. PICK k \in Jobs : k = OpenTask(n) /\ JobOK(k)
    BY <1>1, <2>3, OpenTaskOK
  <2>12. task' = [task EXCEPT ![s] = k]
    BY <1>2, <1>3, <2>11 DEF CloseAndShow, Start
  <2> QED BY <1>1, <2>10, <2>11, <2>12, KeptButOne
<1>4. CASE ~(n # 0 /\ NeedsRender(n))
  <2>1. tab' = [tab EXCEPT ![open[i]] = NoTab] /\ task' = task
    BY <1>2, <1>4 DEF CloseAndShow
  <2>2. TabsOK' /\ DocsStay
    BY <1>1, <2>1, DroppedTab DEF CloseAndShow
  <2> QED BY <1>1, <2>1, <2>2, Kept
<1> QED BY <1>3, <1>4

LEMMA CloseOthersKeeps ==
    ASSUME Inv, NEW t \in Ids, CloseOthers(t)
    PROVE  Inv'
<1>1. /\ OpenOK /\ TabsOK /\ CacheOK' /\ lastId' = lastId /\ lastId \in Nat /\ task' = task
      /\ IsOpen(t) /\ t \in 1 .. lastId /\ open' = <<t>> /\ active' = t
      /\ tab' = [u \in Ids |-> IF u = t THEN tab[t] ELSE NoTab]
  BY SameCache, OpenFacts DEF CloseOthers, Inv
<1>2. /\ open' \in Seq(1 .. lastId) /\ Len(open') = 1 /\ open'[1] = t /\ open' # << >>
  BY <1>1
<1>3. \A u : IsOpen(u)' <=> u = t
  BY <1>2 DEF IsOpen
<1>4. OpenOK'
  <2>1. \A j, k \in 1 .. Len(open') : j = k
    BY <1>2
  <2> QED BY <1>1, <1>2, <1>3, <2>1 DEF OpenOK, IsOpen
<1>5. tab' \in [Ids -> TabState \union {NoTab}]
  BY <1>1 DEF TabsOK
<1>6. \A u \in Ids : IF IsOpen(u)' THEN TabOK(tab'[u]) /\ tab'[u].doc = tab[u].doc
                     ELSE tab'[u] = NoTab
  BY <1>1, <1>3 DEF TabsOK
<1>7. TabsOK' /\ DocsStay
  BY <1>1, <1>3, <1>5, <1>6, TabsClose
<1> QED BY <1>1, <1>4, <1>7, Kept

LEMMA CloseToRightKeeps ==
    ASSUME Inv, NEW i \in 1 .. Len(open), CloseToRight(i)
    PROVE  Inv'
<1> DEFINE kept == {open[j] : j \in 1 .. i}
<1>1. /\ OpenOK /\ TabsOK /\ CacheOK' /\ lastId' = lastId /\ lastId \in Nat /\ task' = task
      /\ Len(open) \in Nat /\ i \in Nat /\ 1 <= i /\ i < Len(open)
      /\ \A j \in 1 .. Len(open) : open[j] \in 1 .. lastId
      /\ tab' = [u \in Ids |-> IF u \in kept THEN tab[u] ELSE NoTab]
      /\ active' = ShownAfterCut(kept, open[i])
  BY SameCache, OpenFacts DEF CloseToRight, Inv
<1>2. /\ open' \in Seq(1 .. lastId) /\ Len(open') = i
      /\ \A j \in 1 .. i : open'[j] = open[j]
  <2>1. /\ open' \in Seq(1 .. lastId) /\ Len(open') = IF 1 <= i THEN i - 1 + 1 ELSE 0
        /\ \A j \in 1 .. i - 1 + 1 : open'[j] = open[1 + j - 1]
    <3>1. \A j \in 1 .. i : open[j] \in 1 .. lastId
      BY <1>1
    <3> QED BY <1>1, <3>1, SubSeqProperties DEF CloseToRight
  <2>2. i - 1 + 1 = i /\ \A j \in 1 .. i : 1 + j - 1 = j
    BY <1>1
  <2> QED BY <1>1, <2>1, <2>2
<1>3. \A u : IsOpen(u)' <=> u \in kept
  BY <1>2 DEF IsOpen
<1>4. \A u \in kept : IsOpen(u)
  BY <1>1 DEF IsOpen
<1>5. open[i] \in kept
  BY <1>1
<1> HIDE DEF kept
<1>6. OpenOK'
  <2>1. active' \in kept
    BY <1>1, <1>5 DEF ShownAfterCut
  <2>2. IsOpen(active)'
    <3>1. PICK n : n = active'
      OBVIOUS
    <3>2. IsOpen(n)'
      BY <1>3, <2>1, <3>1
    <3> QED BY <3>1, <3>2 DEF IsOpen
  <2>3. open' # << >>
    BY <1>1, <1>2, EmptySeq
  <2>4. \A j, k \in 1 .. Len(open') : open'[j] = open'[k] => j = k
    <3>1. \A j \in 1 .. Len(open') : j \in 1 .. Len(open) /\ open'[j] = open[j]
      BY <1>1, <1>2
    <3> QED BY <1>1, <3>1 DEF OpenOK
  <2>5. lastId' \in 0 .. MaxTabs /\ open' \in Seq(1 .. lastId')
    BY <1>1, <1>2 DEF OpenOK
  <2> QED BY <2>2, <2>3, <2>4, <2>5 DEF OpenOK
<1>7. tab' \in [Ids -> TabState \union {NoTab}]
  BY <1>1 DEF TabsOK
<1>8. \A u \in Ids : IF IsOpen(u)' THEN TabOK(tab'[u]) /\ tab'[u].doc = tab[u].doc
                     ELSE tab'[u] = NoTab
  BY <1>1, <1>3, <1>4 DEF TabsOK
<1>9. TabsOK' /\ DocsStay
  BY <1>1, <1>3, <1>4, <1>7, <1>8, TabsClose
<1> QED BY <1>1, <1>6, <1>9, Kept

\* An open tab has pages of its document, and where it is scrolled to is a page.
LEMMA TabFacts ==
    ASSUME OpenOK, TabsOK, NEW t, IsOpen(t)
    PROVE  /\ t \in Ids /\ TabOK(tab[t]) /\ tab[t].doc \in Doc /\ tab[t].count \in Nat
           /\ tab[t].page \in AllPages /\ tab[t].page \in Nat
           /\ PagesOf(tab[t].doc, tab[t].pages) /\ Cardinality(tab[t].pages) <= MaxPages
BY OpenFacts, PagesAreNumbers DEF TabsOK, TabOK, TabState

LEMMA ScrollKeeps ==
    ASSUME Inv, NEW t \in Ids, NEW c \in AllPages, NEW s \in Tasks, Scroll(t, c, s)
    PROVE  Inv'
<1>1. /\ OpenOK /\ TabsOK /\ CacheOK' /\ open' = open /\ lastId' = lastId /\ active' = active
      /\ lastId \in Nat /\ IsOpen(t) /\ tab' = [tab EXCEPT ![t].page = c]
  BY SameCache, OpenFacts DEF Scroll, Inv
<1>2. OpenOK'
  BY <1>1, SameOpen
<1>3. TabsOK' /\ DocsStay
  <2>1. TabOK(tab[t]) /\ tab[t].doc \in Doc
    BY <1>1, TabFacts
  <2>2. PICK r : r = [tab[t] EXCEPT !.page = c]
    OBVIOUS
  <2>3. TabOK(r) /\ r.doc = tab[t].doc
    BY <2>1, <2>2, EmptyPages, TabChanged
  <2>4. tab' = [tab EXCEPT ![t] = r]
    BY <1>1, <2>2
  <2> QED BY <1>1, <2>3, <2>4, TabChange
<1>4. CASE Missing(t, c) = {}
  <2>1. task' = task
    BY <1>4 DEF Scroll
  <2> QED BY <1>1, <1>2, <1>3, <2>1, Kept
<1>5. CASE Missing(t, c) # {}
  <2>1. PICK k \in Jobs : k = MoreTask(t, c) /\ JobOK(k)
    BY <1>1, MoreTaskOK
  <2>2. task' = [task EXCEPT ![s] = k]
    BY <1>5, <2>1 DEF Scroll, Start
  <2> QED BY <1>1, <1>2, <1>3, <2>1, <2>2, KeptButOne
<1> QED BY <1>4, <1>5

LEMMA ReplaceFileKeeps ==
    ASSUME Inv, NEW d \in Doc, ReplaceFile(d)
    PROVE  Inv'
<1>1. OpenOK' /\ TabsOK' /\ DocsStay /\ task' = task /\ lastId' \in Nat /\ lastId <= lastId'
  BY SameOpen, SameTabs, OpenFacts DEF ReplaceFile, Inv
<1>2. CacheOK'
  <2>1. MaxVersions \in Nat /\ file[d] \in 1 .. MaxVersions /\ file[d] < MaxVersions
    BY SizesAssumption DEF ReplaceFile, Inv, CacheOK
  <2>2. file[d] + 1 \in 1 .. MaxVersions
    BY <2>1
  <2>3. file' \in [Doc -> 1 .. MaxVersions]
    BY <2>2 DEF ReplaceFile, Inv, CacheOK
  <2> QED BY <2>3 DEF ReplaceFile, Inv, CacheOK
<1> QED BY <1>1, <1>2, Kept
----------------------------------------------------------------------------
(* The viewer's effect and the tasks.                                      *)

LEMMA ViewerEffectKeeps ==
    ASSUME Inv, NEW s \in Tasks, ViewerEffect(s)
    PROVE  Inv'
<1>1. /\ OpenOK /\ TabsOK /\ OpenOK' /\ TabsOK' /\ DocsStay /\ CacheOK' /\ lastId' = lastId
      /\ IsOpen(active)
  BY SameOpen, SameTabs, SameCache DEF ViewerEffect, Inv
<1>2. active \in Ids
  BY <1>1, TabFacts
<1>3. PICK k \in Jobs : k = OpenTask(active) /\ JobOK(k)
  BY <1>1, <1>2, OpenTaskOK
<1>4. task' = [task EXCEPT ![s] = k]
  BY <1>3 DEF ViewerEffect, Start
<1> QED BY <1>1, <1>3, <1>4, KeptButOne

\* What a task is for.
LEMMA JobFacts ==
    ASSUME Inv, NEW s \in Tasks, task[s] # Idle
    PROVE  /\ task[s] \in Jobs /\ JobOK(task[s]) /\ task[s].tab \in Ids
           /\ task[s].tab <= lastId
           /\ task[s].kind = "open" => task[s] \in OpenJobs
           /\ task[s].kind = "more" => task[s] \in MoreJobs
           /\ task[s].kind \in {"open", "more"} => task[s].doc \in Doc
           /\ task[s].kind \in {"open", "more"} /\ IsOpen(task[s].tab) =>
                  tab[task[s].tab].doc = task[s].doc
BY DEF Inv, JobsOK, JobOK, Jobs, ClickJobs, OpenJobs, WindowJobs, MoreJobs

LEMMA ClickOpensKeeps ==
    ASSUME Inv, NEW s \in Tasks, ClickOpens(s)
    PROVE  Inv'
<1>1. /\ OpenOK /\ TabsOK /\ lastId' = lastId /\ open' = open /\ active' = active
      /\ OpenOK' /\ CacheOK'
  BY SameOpen, SameCache DEF ClickOpens, Inv
<1>2. PICK t \in Ids : t = task[s].tab
  BY JobFacts DEF ClickOpens, Idle
<1> DEFINE needed == active # 0 /\ NeedsRender(active)
<1>3. TabsOK' /\ DocsStay
  <2>1. CASE needed
    <3>1. IsOpen(active)
      BY <1>1, <2>1 DEF OpenOK
    <3>2. PICK u \in Ids : u = active /\ TabOK(tab[u]) /\ tab[u].page \in AllPages
      BY <1>1, <3>1, TabFacts
    <3>3. PICK r : r = [tab[u] EXCEPT !.loading = TRUE]
      OBVIOUS
    <3>4. TabOK(r) /\ r.doc = tab[u].doc
      BY <3>2, <3>3, EmptyPages, TabChanged
    <3>5. tab' = [tab EXCEPT ![u] = r]
      BY <2>1, <3>2, <3>3 DEF ClickOpens
    <3> QED BY <1>1, <3>1, <3>2, <3>4, <3>5, TabChange
  <2>2. CASE ~needed
    BY <1>1, <2>2, SameTabs DEF ClickOpens
  <2> QED BY <2>1, <2>2
<1>4. IsOpen(t) => OpenTask(t) \in Jobs /\ JobOK(OpenTask(t))
  BY <1>1, OpenTaskOK
<1>5. PICK k \in Jobs : k = (IF needed /\ IsOpen(t) THEN OpenTask(t) ELSE Idle) /\ JobOK(k)
  BY <1>4, IdleOK
<1>6. task' = [task EXCEPT ![s] = k]
  BY <1>2, <1>5 DEF ClickOpens
<1> QED BY <1>1, <1>3, <1>5, <1>6, KeptButOne

LEMMA CachedPages ==
    ASSUME CacheOK, NEW d \in Doc
    PROVE  PagesOf(d, Cached(d)) /\ meta[d].count \in Nat
<1>1. Cached(d) \in SUBSET images[d]
  BY DEF Cached
<1> QED BY <1>1, SubsetPagesOf DEF CacheOK

\* Pages put into a task's tab are its document's.
LEMMA OpenedKeeps ==
    ASSUME OpenOK, TabsOK, open' = open, NEW t, NEW d \in Doc, IsOpen(t) => tab[t].doc = d,
           NEW n \in Nat, NEW ps, PagesOf(d, ps), Cardinality(ps) <= MaxPages,
           tab' = Opened(t, n, ps)
    PROVE  TabsOK' /\ DocsStay
<1>1. CASE ~IsOpen(t)
  BY <1>1, SameTabs DEF Opened
<1>2. CASE IsOpen(t)
  <2>1. t \in Ids /\ TabOK(tab[t]) /\ PagesOf(tab[t].doc, ps) /\ tab[t].page \in AllPages
    BY <1>2, TabFacts
  <2>2. PICK r : r = [tab[t] EXCEPT !.count = n, !.pages = ps, !.loading = FALSE]
    OBVIOUS
  <2>3. TabOK(r) /\ r.doc = tab[t].doc
    BY <2>1, <2>2, TabChanged
  <2>4. tab' = [tab EXCEPT ![t].count = n, ![t].pages = ps, ![t].loading = FALSE]
    BY <1>2 DEF Opened
  <2>5. tab' = [tab EXCEPT ![t] = r]
    BY <2>1, <2>2, <2>4 DEF TabsOK
  <2> QED BY <1>2, <2>1, <2>3, <2>5, TabChange
<1> QED BY <1>1, <1>2

\* Pages rendered of a document are saved in its cache.
LEMMA SaveKeeps ==
    ASSUME CacheOK, NEW d \in Doc, NEW n \in Nat, NEW ps, PagesOf(d, ps), Save(d, n, ps), file' = file
    PROVE  CacheOK'
<1>1. PagesOf(d, images[d]) /\ file[d] \in 1 .. MaxVersions /\ MaxVersions \in Nat
  BY SizesAssumption DEF CacheOK
<1>2. PagesOf(d, Extended(images[d], ps)) /\ Extended(images[d], ps) \in SUBSET Page
  <2>1. PagesOf(d, Extended(images[d], ps))
    BY <1>1, ExtendedPagesOf
  <2> QED BY <2>1 DEF PagesOf
<1>3. PICK x : x = Extended(images[d], ps)
  OBVIOUS
<1>4. images' = [images EXCEPT ![d] = x] /\ PagesOf(d, x) /\ x \in SUBSET Page
  BY <1>2, <1>3 DEF Save
<1>5. [count |-> n, version |-> file[d]] \in [count : Nat, version : 0 .. MaxVersions]
  BY <1>1
<1>6. meta' \in [Doc -> [count : Nat, version : 0 .. MaxVersions]]
  BY <1>5 DEF Save, CacheOK
<1>7. images' \in [Doc -> SUBSET Page]
  BY <1>4 DEF CacheOK
<1>8. \A e \in Doc : PagesOf(e, images'[e])
  BY <1>4 DEF CacheOK
<1>9. \A e, q : PagesOf(e, q)' <=> PagesOf(e, q)
  BY DEF PagesOf
<1> QED BY <1>6, <1>7, <1>8, <1>9 DEF CacheOK

LEMMA OpenCachedKeeps ==
    ASSUME Inv, NEW s \in Tasks, OpenCached(s)
    PROVE  Inv'
<1> DEFINE j == task[s]
           pages == Cached(j.doc)
           count == meta[j.doc].count
<1>1. /\ OpenOK /\ TabsOK /\ CacheOK /\ lastId' = lastId /\ open' = open /\ active' = active
      /\ OpenOK' /\ CacheOK'
  BY SameOpen, SameCache DEF OpenCached, Inv
<1>2. /\ j.kind = "open" /\ j.tab \in Ids /\ j.tab <= lastId /\ j.doc \in Doc
      /\ IsOpen(j.tab) => tab[j.tab].doc = j.doc
  BY JobFacts DEF OpenCached, Idle
<1>3. PagesOf(j.doc, pages) /\ count \in Nat
  BY <1>1, <1>2, CachedPages
<1>4. PagesOf(j.doc, Evicted(pages, 0)) /\ Cardinality(Evicted(pages, 0)) <= MaxPages
  BY <1>3, EvictedFits
<1>5. tab' = Opened(j.tab, count, Evicted(pages, 0))
  BY DEF OpenCached
<1>6. TabsOK' /\ DocsStay
  BY <1>1, <1>2, <1>3, <1>4, <1>5, OpenedKeeps
<1>7. PICK k : k = IF Cardinality(pages) = count THEN Idle ELSE [kind |-> "window", tab |-> j.tab]
  OBVIOUS
<1>8. k \in Jobs /\ JobOK(k)
  BY <1>2, <1>7 DEF Jobs, JobOK, WindowJobs, Idle
<1>9. task' = [task EXCEPT ![s] = k]
  BY <1>7 DEF OpenCached
<1> QED BY <1>1, <1>6, <1>8, <1>9, KeptButOne

LEMMA FirstWindowKeeps ==
    ASSUME Inv, NEW s \in Tasks, FirstWindow(s)
    PROVE  Inv'
<1>1. /\ OpenOK /\ TabsOK /\ lastId' = lastId /\ open' = open /\ active' = active
      /\ OpenOK' /\ CacheOK'
  BY SameOpen, SameCache DEF FirstWindow, Inv
<1>2. PICK t \in Ids : t = task[s].tab
  BY JobFacts DEF FirstWindow, Idle
<1>3. CASE IsOpen(t) /\ tab[t].count > 0
  <2>1. TabsOK' /\ DocsStay
    <3>1. TabOK(tab[t]) /\ 0 \in AllPages
      BY <1>1, <1>3, TabFacts, PagesAreNumbers
    <3>2. PICK r : r = [tab[t] EXCEPT !.page = 0]
      OBVIOUS
    <3>3. TabOK(r) /\ r.doc = tab[t].doc
      BY <3>1, <3>2, EmptyPages, TabChanged
    <3>4. tab' = [tab EXCEPT ![t] = r]
      BY <1>2, <1>3, <3>2 DEF FirstWindow
    <3> QED BY <1>1, <1>3, <3>3, <3>4, TabChange
  <2>2. MoreTask(t, 0) \in Jobs /\ JobOK(MoreTask(t, 0))
    BY <1>1, <1>3, MoreTaskOK
  <2>3. PICK k \in Jobs : k = (IF Missing(t, 0) # {} THEN MoreTask(t, 0) ELSE Idle) /\ JobOK(k)
    BY <2>2, IdleOK
  <2>4. task' = [task EXCEPT ![s] = k]
    BY <1>2, <1>3, <2>3 DEF FirstWindow
  <2> QED BY <1>1, <2>1, <2>3, <2>4, KeptButOne
<1>4. CASE ~(IsOpen(t) /\ tab[t].count > 0)
  <2>1. tab' = tab /\ task' = [task EXCEPT ![s] = Idle]
    BY <1>2, <1>4 DEF FirstWindow
  <2>2. TabsOK' /\ DocsStay
    BY <1>1, <2>1, SameTabs
  <2> QED BY <1>1, <2>1, <2>2, IdleOK, KeptButOne
<1> QED BY <1>3, <1>4

LEMMA OpenMissedKeeps ==
    ASSUME Inv, NEW s \in Tasks, OpenMissed(s)
    PROVE  Inv'
<1>1. OpenOK' /\ TabsOK' /\ DocsStay /\ CacheOK' /\ lastId' = lastId
  BY SameOpen, SameTabs, SameCache DEF OpenMissed, Inv
<1>2. PICK j : j = task[s]
  OBVIOUS
<1>3. /\ j \in OpenJobs /\ j.tab <= lastId
      /\ IsOpen(j.tab) => tab[j.tab].doc = j.doc
  BY <1>2, JobFacts DEF OpenMissed, Idle
<1>4. PICK k : k = [j EXCEPT !.missed = TRUE]
  OBVIOUS
<1>5. k \in OpenJobs /\ k.tab = j.tab /\ k.doc = j.doc
  BY <1>3, <1>4 DEF OpenJobs
<1>6. k \in Jobs /\ JobOK(k)
  BY <1>3, <1>5 DEF Jobs, JobOK
<1>7. task' = [task EXCEPT ![s] = k]
  BY <1>2, <1>4 DEF OpenMissed
<1> QED BY <1>1, <1>6, <1>7, KeptButOne

LEMMA OpenRenderedKeeps ==
    ASSUME Inv, NEW s \in Tasks, OpenRendered(s)
    PROVE  Inv'
<1>1. /\ OpenOK /\ TabsOK /\ CacheOK /\ lastId' = lastId /\ open' = open /\ active' = active
      /\ file' = file /\ OpenOK'
  BY SameOpen DEF OpenRendered, Inv
<1>2. PICK j : j = task[s]
  OBVIOUS
<1>3. j.doc \in Doc /\ (IsOpen(j.tab) => tab[j.tab].doc = j.doc)
  BY <1>2, JobFacts DEF OpenRendered, Idle
<1>4. PICK ps : ps = Rendered(j.doc, 0 .. Batch - 1)
  OBVIOUS
<1>5. PagesOf(j.doc, ps) /\ Cardinality(ps) <= MaxPages /\ PageCount[j.doc] \in Nat
  <2>1. file[j.doc] \in 1 .. MaxVersions
    BY <1>1, <1>3 DEF CacheOK
  <2> QED BY <1>3, <1>4, <2>1, BatchFits, SizesAssumption
<1>6. /\ Save(j.doc, PageCount[j.doc], ps) /\ tab' = Opened(j.tab, PageCount[j.doc], ps)
      /\ task' = [task EXCEPT ![s] = Idle]
  BY <1>2, <1>4 DEF OpenRendered
<1>7. TabsOK' /\ DocsStay
  BY <1>1, <1>3, <1>5, <1>6, OpenedKeeps
<1>8. CacheOK'
  BY <1>1, <1>3, <1>5, <1>6, SaveKeeps
<1> QED BY <1>1, <1>6, <1>7, <1>8, IdleOK, KeptButOne

LEMMA OpenFailedKeeps ==
    ASSUME Inv, NEW s \in Tasks, OpenFailed(s)
    PROVE  Inv'
<1>1. /\ OpenOK /\ TabsOK /\ lastId' = lastId /\ open' = open /\ OpenOK' /\ CacheOK'
      /\ task' = [task EXCEPT ![s] = Idle]
  BY SameOpen, SameCache DEF OpenFailed, Inv
<1>2. PICK t : t = task[s].tab
  OBVIOUS
<1>3. CASE ~IsOpen(t)
  <2>1. tab' = tab
    BY <1>2, <1>3 DEF OpenFailed, Failed
  <2>2. TabsOK' /\ DocsStay
    BY <1>1, <2>1, SameTabs
  <2> QED BY <1>1, <2>2, IdleOK, KeptButOne
<1>4. CASE IsOpen(t)
  <2>1. t \in Ids /\ TabOK(tab[t]) /\ tab[t].page \in AllPages
    BY <1>1, <1>4, TabFacts
  <2>2. PICK r : r = [tab[t] EXCEPT !.loading = FALSE]
    OBVIOUS
  <2>3. TabOK(r) /\ r.doc = tab[t].doc
    BY <2>1, <2>2, EmptyPages, TabChanged
  <2>4. tab' = [tab EXCEPT ![t] = r]
    BY <1>2, <1>4, <2>2 DEF OpenFailed, Failed
  <2>5. TabsOK' /\ DocsStay
    BY <1>1, <1>4, <2>1, <2>3, <2>4, TabChange
  <2> QED BY <1>1, <2>5, IdleOK, KeptButOne
<1> QED BY <1>3, <1>4

LEMMA MoreRenderedKeeps ==
    ASSUME Inv, NEW s \in Tasks, MoreRendered(s)
    PROVE  Inv'
<1>1. /\ OpenOK /\ TabsOK /\ CacheOK /\ lastId' = lastId /\ open' = open /\ active' = active
      /\ file' = file /\ OpenOK'
  BY SameOpen DEF MoreRendered, Inv
<1>2. PICK j : j = task[s]
  OBVIOUS
<1>3. /\ j.doc \in Doc /\ (IsOpen(j.tab) => tab[j.tab].doc = j.doc)
      /\ j.pages \in SUBSET Nat
  <2>1. j \in MoreJobs /\ j.doc \in Doc /\ (IsOpen(j.tab) => tab[j.tab].doc = j.doc)
    BY <1>2, JobFacts DEF MoreRendered, Idle
  <2> QED BY <2>1, PagesAreNumbers DEF MoreJobs
<1>4. PICK ps : ps = Rendered(j.doc, j.pages)
  OBVIOUS
<1>5. PagesOf(j.doc, ps)
  <2>1. file[j.doc] \in 1 .. MaxVersions
    BY <1>1, <1>3 DEF CacheOK
  <2> QED BY <1>3, <1>4, <2>1, RenderedPagesOf
<1>6. PICK n : n = IF IsOpen(active) THEN tab[active].count ELSE 0
  OBVIOUS
<1>7. n \in Nat
  BY <1>1, <1>6, TabFacts
<1>8. /\ Save(j.doc, n, ps) /\ task' = [task EXCEPT ![s] = Idle]
      /\ tab' = IF ~IsOpen(j.tab) THEN tab
                ELSE [tab EXCEPT ![j.tab].pages =
                          Evicted(Extended(tab[j.tab].pages, ps), tab[j.tab].page)]
  BY <1>2, <1>4, <1>6 DEF MoreRendered
<1>9. CacheOK'
  BY <1>1, <1>3, <1>5, <1>7, <1>8, SaveKeeps
<1>10. TabsOK' /\ DocsStay
  <2>1. CASE ~IsOpen(j.tab)
    BY <1>1, <1>8, <2>1, SameTabs
  <2>2. CASE IsOpen(j.tab)
    <3>1. PICK t \in Ids : t = j.tab
      BY <1>1, <2>2, TabFacts
    <3>2. /\ TabOK(tab[t]) /\ tab[t].doc = j.doc /\ tab[t].page \in Nat
          /\ PagesOf(j.doc, tab[t].pages) /\ tab[t].page \in AllPages
      BY <1>1, <1>3, <2>2, <3>1, TabFacts
    <3>3. PICK qs : qs = Evicted(Extended(tab[t].pages, ps), tab[t].page)
      OBVIOUS
    <3>4. PagesOf(tab[t].doc, qs) /\ Cardinality(qs) <= MaxPages
      <4>1. PagesOf(j.doc, Extended(tab[t].pages, ps))
        BY <1>5, <3>2, ExtendedPagesOf
      <4> QED BY <3>2, <3>3, <4>1, EvictedFits
    <3>5. PICK r : r = [tab[t] EXCEPT !.pages = qs]
      OBVIOUS
    <3>6. TabOK(r) /\ r.doc = tab[t].doc
      BY <3>2, <3>4, <3>5, TabChanged
    <3>7. tab' = [tab EXCEPT ![t] = r]
      BY <1>8, <2>2, <3>1, <3>3, <3>5
    <3> QED BY <1>1, <2>2, <3>1, <3>6, <3>7, TabChange
  <2> QED BY <2>1, <2>2
<1> QED BY <1>1, <1>8, <1>9, <1>10, IdleOK, KeptButOne

LEMMA MoreFailedKeeps ==
    ASSUME Inv, NEW s \in Tasks, MoreFailed(s)
    PROVE  Inv'
<1>1. OpenOK' /\ TabsOK' /\ DocsStay /\ CacheOK' /\ lastId' = lastId
  BY SameOpen, SameTabs, SameCache DEF MoreFailed, Inv
<1> QED BY <1>1, IdleOK, KeptButOne DEF MoreFailed

LEMMA InvNext == Inv /\ [Next]_vars => Inv'
<1> SUFFICES ASSUME Inv, [Next]_vars PROVE Inv'
  OBVIOUS
<1>1. CASE UserStep
  BY <1>1, OpenFromLibraryKeeps, KeyToKeeps, CloseOthersKeeps, MenuCloseKeeps,
     CloseToRightKeeps, ClickTabKeeps, CloseAndShowKeeps, ScrollKeeps, ReplaceFileKeeps
     DEF UserStep
<1>2. CASE \E s \in Tasks : ViewerEffect(s)
  BY <1>2, ViewerEffectKeeps
<1>3. CASE \E s \in Tasks : TaskStep(s)
  BY <1>3, OpenCachedKeeps, OpenMissedKeeps, OpenRenderedKeeps, OpenFailedKeeps,
     ClickOpensKeeps, FirstWindowKeeps, MoreRenderedKeeps, MoreFailedKeeps DEF TaskStep
<1>4. CASE UNCHANGED vars
  <2>1. OpenOK' /\ TabsOK' /\ DocsStay /\ CacheOK' /\ lastId' \in Nat /\ lastId <= lastId'
    BY <1>4, SameOpen, SameTabs, SameCache, OpenFacts DEF vars, Inv
  <2> QED BY <1>4, <2>1, Kept DEF vars
<1> QED BY <1>1, <1>2, <1>3, <1>4 DEF Next
----------------------------------------------------------------------------
(* The theorems.                                                           *)

\* What every state of a run has: ids given out once, tabs and tasks of one document
\* each, and a cache of it.
THEOREM InvHolds == Spec => []Inv
<1>1. Init => Inv
  BY InvInit
<1>2. Inv /\ [Next]_vars => Inv'
  BY InvNext
<1> QED BY <1>1, <1>2, PTL DEF Spec

\* Tabs, tasks and the cache keep their shapes, and a tab is shown while one is open.
THEOREM TypeCorrect == Spec => []TypeOK
<1>1. Inv => TypeOK
  <2> SUFFICES ASSUME Inv PROVE TypeOK
    OBVIOUS
  <2>1. /\ open \in Seq(1 .. lastId) /\ \A i, j \in 1 .. Len(open) : open[i] = open[j] => i = j
        /\ IF open = << >> THEN active = 0 ELSE IsOpen(active)
    BY DEF Inv, OpenOK
  <2>2. /\ \A t \in OpenTabs :
              tab[t] \in [doc : Doc, count : Nat, pages : SUBSET Page, loading : BOOLEAN,
                          page : AllPages]
        /\ \A t \in Ids \ OpenTabs : tab[t] = NoTab
    BY DEF Inv, TabsOK, TabOK, TabState, OpenTabs
  <2>3. \A s \in Tasks : \/ task[s] = Idle
                         \/ /\ task[s].kind \in {"click", "open", "window", "more"}
                            /\ task[s].tab \in Ids
    BY DEF Inv, JobsOK, Jobs, ClickJobs, OpenJobs, WindowJobs, MoreJobs
  <2>4. /\ meta \in [Doc -> [count : Nat, version : 0 .. MaxVersions]]
        /\ images \in [Doc -> SUBSET Page]
        /\ file \in [Doc -> 1 .. MaxVersions]
    BY DEF Inv, CacheOK
  <2> QED BY <2>1, <2>2, <2>3, <2>4 DEF TypeOK
<1> QED BY <1>1, InvHolds, PTL

\* A task that ends late finds its own tab or none: no tab and no cache ever has a page
\* of another document, or a page twice.
THEOREM PagesBelong == Spec => []PagesBelongToTab
<1>1. Inv => PagesBelongToTab
  BY DEF Inv, TabsOK, TabOK, CacheOK, PagesOf, PagesBelongToTab, OpenTabs
<1> QED BY <1>1, InvHolds, PTL

\* No tab ever has more pages than the limit, from the cache, an opening or a scroll.
THEOREM PagesBounded == Spec => []ResidentPagesBounded
<1>1. Inv => ResidentPagesBounded
  BY DEF Inv, TabsOK, TabOK, ResidentPagesBounded, OpenTabs
<1> QED BY <1>1, InvHolds, PTL
----------------------------------------------------------------------------
(* How many tabs keep their pages when another is shown.                   *)

\* Those of R that switch_to lets keep their pages.
Keeping(R) == {u \in R : ~(Cardinality(LeftOf(u, R)) < ToSuspend(Cardinality(R)))}

\* Of the open tabs in K one is to the left of all others.
LEMMA LeftmostOf ==
    ASSUME OpenOK, NEW K \in SUBSET Ids, K # {}, \A u \in K : IsOpen(u)
    PROVE  \E u \in K : \A R : LeftOf(u, R) \cap K = {}
<1> DEFINE P == {i \in 1 .. Len(open) : open[i] \in K}
           Less == OpToRel(<, Nat)
<1>1. P \subseteq Nat /\ P # {} /\ Len(open) \in Nat
  <2>1. Len(open) \in Nat
    BY OpenFacts
  <2>2. PICK u \in K : IsOpen(u)
    OBVIOUS
  <2> QED BY <2>1, <2>2 DEF IsOpen
<1>2. IsWellFoundedOn(Less, Nat)
  BY NatLessThanWellFounded
<1> HIDE DEF P, Less
<1>3. PICK m \in P : \A i \in P : ~(<<i, m>> \in Less)
  BY <1>1, <1>2, WFMin
<1>4. \A i \in P : ~(i < m)
  BY <1>1, <1>3 DEF OpToRel, Less
<1>5. m \in 1 .. Len(open) /\ open[m] \in K
  BY <1>3 DEF P
<1>6. ASSUME NEW R, NEW v \in LeftOf(open[m], R), v \in K
      PROVE  FALSE
  <2>1. PICK i, j \in 1 .. Len(open) : open[i] = v /\ open[j] = open[m] /\ i < j
    BY <1>6 DEF LeftOf
  <2>2. j = m
    BY <1>5, <2>1 DEF OpenOK
  <2>3. i \in P
    BY <1>6, <2>1 DEF P
  <2> QED BY <1>4, <2>1, <2>2, <2>3
<1> QED BY <1>5, <1>6

\* So those that keep theirs leave room for one more.
LEMMA KeepingFew ==
    ASSUME OpenOK, NEW R \in SUBSET Ids, \A u \in R : IsOpen(u)
    PROVE  IsFiniteSet(Keeping(R)) /\ Cardinality(Keeping(R)) + 1 <= MaxResident
<1> DEFINE K == Keeping(R)
           n == Cardinality(R)
<1>1. MaxResident \in Nat /\ MaxResident >= 1 /\ MaxTabs \in Nat
  BY SizesAssumption
<1>2. IsFiniteSet(R) /\ n \in Nat
  <2>1. IsFiniteSet(Ids)
    BY <1>1, FS_Interval DEF Ids
  <2> QED BY <2>1, FS_Subset, FS_CardinalityType
<1>3. K \in SUBSET R
  BY DEF Keeping
<1>4. IsFiniteSet(K) /\ Cardinality(K) <= n /\ Cardinality(K) \in Nat
  BY <1>2, <1>3, FS_Subset, FS_CardinalityType
<1>5. CASE n < MaxResident
  <2> HIDE DEF K, n
  <2>1. Cardinality(K) + 1 <= MaxResident
    BY <1>1, <1>2, <1>4, <1>5
  <2> QED BY <1>4, <2>1 DEF K
<1>6. CASE n >= MaxResident
  <2>1. ToSuspend(n) = n - (MaxResident - 1)
    BY <1>6 DEF ToSuspend
  <2>2. CASE K = {}
    <3>1. Cardinality(K) = 0
      BY <2>2, FS_EmptySet
    <3> QED BY <1>1, <1>4, <3>1
  <2>3. CASE K # {}
    <3>1. K \in SUBSET Ids /\ \A u \in K : IsOpen(u)
      BY <1>3
    <3>2. PICK u \in K : LeftOf(u, R) \cap K = {}
      BY <2>3, <3>1, LeftmostOf
    <3>3. PICK L : L = LeftOf(u, R)
      OBVIOUS
    <3>4. L \in SUBSET R /\ K \in SUBSET (R \ L) /\ R \cap L = L
      BY <1>3, <3>2, <3>3 DEF LeftOf
    <3>5. ~(Cardinality(L) < ToSuspend(n))
      BY <3>2, <3>3 DEF Keeping
    <3>6. Cardinality(L) \in Nat
      BY <1>2, <3>4, FS_Subset, FS_CardinalityType
    <3>7. IsFiniteSet(R \ L) /\ Cardinality(R \ L) = n - Cardinality(L)
      BY <1>2, <3>4, FS_Difference
    <3>8. Cardinality(K) <= Cardinality(R \ L)
      BY <3>4, <3>7, FS_Subset
    <3> HIDE DEF K, n
    <3>9. Cardinality(K) + 1 <= MaxResident
      BY <1>1, <1>2, <1>4, <2>1, <3>5, <3>6, <3>7, <3>8
    <3> QED BY <1>4, <3>9 DEF K
  <2> QED BY <2>2, <2>3
<1>7. n < MaxResident \/ n >= MaxResident
  <2> HIDE DEF n
  <2> QED BY <1>1, <1>2
<1> QED BY <1>5, <1>6, <1>7

\* Tabs with pages after t is shown are t and some that keep theirs.
LEMMA SwitchFew ==
    ASSUME OpenOK, NEW tabs \in [Ids -> TabState \union {NoTab}], NEW t,
           \A u \in Ids : IsOpen(u) => TabOK(tabs[u]),
           NEW R, R \subseteq Ids,
           \A u \in R : u = t \/ (IsOpen(u) /\ Suspended(tabs, t)[u].pages # {})
    PROVE  Cardinality(R) <= MaxResident
<1> DEFINE Q == {u \in Ids : IsOpen(u) /\ u # t /\ tabs[u].pages # {}}
           S == Suspended(tabs, t)
<1>1. Q \in SUBSET Ids /\ \A u \in Q : IsOpen(u)
  OBVIOUS
<1>2. \A u \in Ids :
          S[u] = IF u \in Q /\ Cardinality(LeftOf(u, Q)) < ToSuspend(Cardinality(Q))
                 THEN [tabs[u] EXCEPT !.pages = {}] ELSE tabs[u]
  BY DEF Suspended
<1>3. \A u \in R : u = t \/ (IsOpen(u) /\ S[u].pages # {})
  OBVIOUS
<1>4. \A u \in Ids : IsOpen(u) => [tabs[u] EXCEPT !.pages = {}].pages = {}
  BY DEF TabOK, TabState
<1>5. \A u \in Ids : u \in Q <=> IsOpen(u) /\ u # t /\ tabs[u].pages # {}
  OBVIOUS
<1> HIDE DEF Q, S
<1>6. ASSUME NEW u \in R, u # t PROVE u \in Keeping(Q)
  <2>1. u \in Ids /\ IsOpen(u) /\ S[u].pages # {}
    BY <1>3, <1>6
  <2>2. CASE S[u] = tabs[u]
    <3>1. u \in Q
      BY <1>5, <1>6, <2>1, <2>2
    <3>2. ~(Cardinality(LeftOf(u, Q)) < ToSuspend(Cardinality(Q)))
      <4>1. SUFFICES ASSUME Cardinality(LeftOf(u, Q)) < ToSuspend(Cardinality(Q)) PROVE FALSE
        OBVIOUS
      <4>2. S[u] = [tabs[u] EXCEPT !.pages = {}]
        BY <1>2, <2>1, <3>1, <4>1
      <4> QED BY <1>4, <2>1, <4>2
    <3> QED BY <3>1, <3>2 DEF Keeping
  <2>3. CASE S[u] # tabs[u]
    <3>1. S[u] = [tabs[u] EXCEPT !.pages = {}]
      BY <1>2, <2>1, <2>3
    <3> QED BY <1>4, <2>1, <3>1
  <2> QED BY <2>2, <2>3
<1>7. PICK K : K = Keeping(Q)
  OBVIOUS
<1>8. IsFiniteSet(K) /\ Cardinality(K) + 1 <= MaxResident
  BY <1>1, <1>7, KeepingFew
<1>9. R \in SUBSET (K \union {t})
  BY <1>6, <1>7
<1>10. IsFiniteSet(K \union {t}) /\ Cardinality(K \union {t}) <= Cardinality(K) + 1
  <2>1. Cardinality(K) \in Nat
    BY <1>8, FS_CardinalityType
  <2>2. /\ IsFiniteSet(K \union {t})
        /\ Cardinality(K \union {t}) = IF t \in K THEN Cardinality(K) ELSE Cardinality(K) + 1
    BY <1>8, FS_AddElement
  <2> QED BY <2>1, <2>2
<1>11. /\ Cardinality(R) <= Cardinality(K \union {t}) /\ Cardinality(R) \in Nat
       /\ Cardinality(K \union {t}) \in Nat /\ Cardinality(K) \in Nat
  BY <1>8, <1>9, <1>10, FS_Subset, FS_CardinalityType
<1>12. MaxResident \in Nat
  BY SizesAssumption
<1> QED BY <1>8, <1>10, <1>11, <1>12

\* A step that shows another tab and closes none leaves those.
LEMMA SwitchStep ==
    ASSUME Inv, Next, active' # active, Len(open') >= Len(open)
    PROVE  Cardinality(Resident') <= MaxResident
<1>1. Resident' = {u \in Ids : IsOpen(u)' /\ tab'[u].pages # {}}
  BY DEF Resident, OpenTabs
<1>2. PICK R : R = Resident'
  OBVIOUS
<1>3. /\ OpenOK /\ TabsOK /\ Len(open) \in Nat
      /\ tab \in [Ids -> TabState \union {NoTab}] /\ \A u \in Ids : IsOpen(u) => TabOK(tab[u])
  BY OpenFacts DEF Inv, TabsOK
<1>4. ASSUME NEW t, open' = open, tab' = Suspended(tab, t)
      PROVE  Cardinality(R) <= MaxResident
  <2>1. \A u \in R : IsOpen(u) /\ Suspended(tab, t)[u].pages # {}
    BY <1>1, <1>2, <1>4 DEF IsOpen
  <2> QED BY <1>1, <1>2, <1>3, <2>1, SwitchFew
<1>5. ASSUME NEW d \in Doc, OpenFromLibrary(d)
      PROVE  Cardinality(R) <= MaxResident
  <2>1. CASE \E t \in Ids : tab' = Suspended(tab, t) /\ open' = open
    BY <1>4, <2>1
  <2>2. CASE ~(\E t \in Ids : tab' = Suspended(tab, t) /\ open' = open)
    <3>1. /\ NextId \in Ids /\ open' = Append(open, NextId)
          /\ tab' = Suspended([tab EXCEPT ![NextId] = NewTab(d)], NextId)
      BY <1>5, <2>2 DEF OpenFromLibrary, OpenPdf
    <3>2. PICK n \in Ids : n = NextId
      BY <3>1
    <3>3. PICK q : q = [tab EXCEPT ![n] = NewTab(d)]
      OBVIOUS
    <3>4. TabOK(NewTab(d)) /\ NewTab(d) \in TabState
      BY NewTabOK DEF TabOK
    <3>5. /\ q \in [Ids -> TabState \union {NoTab}] /\ \A u \in Ids : IsOpen(u) => TabOK(q[u])
      BY <1>3, <3>3, <3>4
    <3>6. \A u : IsOpen(u)' => IsOpen(u) \/ u = n
      <4>1. /\ Len(open') = Len(open) + 1 /\ open'[Len(open) + 1] = n
            /\ \A i \in 1 .. Len(open) : open'[i] = open[i]
        <5>1. open \in Seq(Ids)
          <6>1. 1 .. lastId \subseteq Ids
            BY <1>3, SizesAssumption DEF OpenOK, Ids
          <6> QED BY <1>3, <6>1, SeqMonotonic DEF OpenOK
        <5> QED BY <3>1, <3>2, <5>1, AppendProperties
      <4> QED BY <1>3, <4>1 DEF IsOpen
    <3>7. \A u \in R : u = n \/ (IsOpen(u) /\ Suspended(q, n)[u].pages # {})
      <4>1. tab' = Suspended(q, n)
        BY <3>1, <3>2, <3>3
      <4> QED BY <1>1, <1>2, <3>6, <4>1
    <3> QED BY <1>1, <1>2, <1>3, <3>5, <3>7, SwitchFew
  <2> QED BY <2>1, <2>2
<1>6. ASSUME NEW t \in Ids, NEW s \in Tasks, ClickTab(t, s)
      PROVE  Cardinality(R) <= MaxResident
  BY <1>4, <1>6 DEF ClickTab
<1>7. ASSUME NEW t \in Ids, KeyTo(t)
      PROVE  Cardinality(R) <= MaxResident
  BY <1>4, <1>7 DEF KeyTo
<1>8. ASSUME NEW i \in 1 .. Len(open), CloseTab(i)
      PROVE  FALSE
  <2>1. Len(open') = Len(open) - 1
    BY <1>3, <1>8, Removed DEF CloseTab, OpenOK
  <2> QED BY <1>3, <2>1
<1>9. ASSUME NEW t \in Ids, CloseOthers(t)
      PROVE  FALSE
  BY <1>3, <1>9 DEF CloseOthers
<1>10. ASSUME NEW i \in 1 .. Len(open), CloseToRight(i)
       PROVE  FALSE
  <2>1. i \in Nat /\ 1 <= i /\ i < Len(open) /\ \A j \in 1 .. i : open[j] \in Ids
    BY <1>3, <1>10, OpenFacts DEF CloseToRight
  <2>2. Len(open') = IF 1 <= i THEN i - 1 + 1 ELSE 0
    BY <1>10, <2>1, SubSeqProperties DEF CloseToRight
  <2> QED BY <1>3, <2>1, <2>2
<1>11. CASE UserStep
  <2>1. ASSUME NEW i \in 1 .. Len(open), MenuClose(i) \/ \E s \in Tasks : CloseAndShow(i, s)
        PROVE  FALSE
    BY <1>8, <2>1 DEF MenuClose, CloseAndShow
  <2>2. ASSUME NEW t \in Ids, NEW s \in Tasks, NEW c \in AllPages, Scroll(t, c, s)
        PROVE  FALSE
    BY <2>2 DEF Scroll
  <2>3. ASSUME NEW d \in Doc, ReplaceFile(d)
        PROVE  FALSE
    BY <2>3 DEF ReplaceFile
  <2> QED BY <1>2, <1>5, <1>6, <1>7, <1>9, <1>10, <1>11, <2>1, <2>2, <2>3 DEF UserStep
<1>12. ASSUME NEW s \in Tasks, ViewerEffect(s) \/ TaskStep(s)
       PROVE  FALSE
  BY <1>12 DEF ViewerEffect, TaskStep, OpenCached, OpenMissed, OpenRendered, OpenFailed,
     ClickOpens, FirstWindow, MoreRendered, MoreFailed
<1> QED BY <1>11, <1>12 DEF Next

\* Whatever late renders had brought back, showing another tab leaves no more of them
\* with pages than the limit.
THEOREM SwitchLimit == Spec => SwitchKeepsLimit
<1>1. Inv /\ [Next]_vars =>
          [active' # active /\ Len(open') >= Len(open) => Cardinality(Resident') <= MaxResident]_vars
  BY SwitchStep DEF vars
<1> QED BY <1>1, InvHolds, PTL DEF Spec, SwitchKeepsLimit

=============================================================================
