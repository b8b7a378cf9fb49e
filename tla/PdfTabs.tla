------------------------------ MODULE PdfTabs ------------------------------
(***************************************************************************)
(* The PDF viewer's tabs and the disk cache of rendered pages.  The user   *)
(* opens, switches and closes tabs and scrolls; opening a document and     *)
(* rendering more of its pages run as tasks that end later, when the tab   *)
(* may have been suspended or closed and another may be shown.  What a     *)
(* task rendered goes into its tab and into the document's cache, which    *)
(* the next opening is served from.  A page is known by its document, its  *)
(* number and the version of the file it was rendered from; the zoom and   *)
(* the colour scheme, which the cache checks as it does the version, text, *)
(* links, search and passwords are left out.                               *)
(***************************************************************************)
EXTENDS Integers, SequencesExt

CONSTANTS
    Doc,            \* documents, by path
    PageCount,      \* document -> its number of pages
    Batch,          \* page_batch_size: pages an opening renders
    Radius,         \* PAGE_WINDOW_RADIUS
    MaxPages,       \* MAX_RESIDENT_PAGES
    MaxResident,    \* max_resident: tabs that keep their pages
    MaxTabs,        \* bound: tabs opened in all
    Replaceable,    \* bound: documents whose file may be replaced
    MaxVersions,    \* bound: versions of a file
    Tasks           \* bound: tasks at a time

ASSUME SizesAssumption ==
    /\ PageCount \in [Doc -> Nat \ {0}]
    /\ Batch \in Nat \ {0} /\ Radius \in Nat /\ MaxPages \in Nat
    /\ MaxResident \in Nat \ {0} /\ MaxTabs \in Nat /\ MaxVersions \in Nat \ {0}
    /\ 2 * Radius + 1 <= MaxPages /\ Batch <= MaxPages

VARIABLES
    open,       \* ids of the open tabs, from left to right
    active,     \* active_tab_id, 0: none
    tab,        \* id -> the tab
    lastId,     \* next_id: the last id given out
    task,       \* what each task is at
    meta,       \* document -> meta.json of its cache
    images,     \* document -> the page files of its cache
    file        \* document -> the version of the file on disk
vars == <<open, active, tab, lastId, task, meta, images, file>>

Ids == 1 .. MaxTabs
AllPages == UNION {0 .. PageCount[d] - 1 : d \in Doc}
IsOpen(t) == \E i \in 1 .. Len(open) : open[i] = t
Idle == [kind |-> "idle"]
NoTab == [doc |-> "none"]
NoMeta == [count |-> 0, version |-> 0]

\* PdfTab::new
NewTab(d) == [doc |-> d, count |-> 0, pages |-> {}, loading |-> TRUE, page |-> 0]

Init ==
    /\ open = << >> /\ active = 0 /\ lastId = 0
    /\ tab = [t \in Ids |-> NoTab]
    /\ task = [s \in Tasks |-> Idle]
    /\ meta = [d \in Doc |-> NoMeta]
    /\ images = [d \in Doc |-> {}]
    /\ file = [d \in Doc |-> 1]

----------------------------------------------------------------------------
(* Operators of the tab manager.                                           *)

NeedsRender(t) == tab[t].pages = {} /\ tab[t].count > 0

\* Mutant of ToSuspend: the tab that is shown is not counted.
ToSuspendOthers(n) == IF n > MaxResident THEN n - MaxResident ELSE 0

\* switch_to: how many of the n other tabs with pages have to give theirs up.
ToSuspend(n) == IF n >= MaxResident THEN n - (MaxResident - 1) ELSE 0

\* Those of S whose tab is to the left of u's.
LeftOf(u, S) ==
    {v \in S : \E i, j \in 1 .. Len(open) : open[i] = v /\ open[j] = u /\ i < j}

\* switch_to: the leftmost of them are suspended.
Suspended(tabs, t) ==
    LET resident == {u \in Ids : IsOpen(u) /\ u # t /\ tabs[u].pages # {}}
        gone == {u \in resident :
                    Cardinality(LeftOf(u, resident)) < ToSuspend(Cardinality(resident))}
    IN  [u \in Ids |-> IF u \in gone THEN [tabs[u] EXCEPT !.pages = {}] ELSE tabs[u]]

\* Pages of one extent replace those of the same number.
Extended(pages, more) == {g \in pages : \A m \in more : m.page # g.page} \union more

Missing(t, center) ==
    {n \in AllPages : n + Radius >= center /\ n <= center + Radius /\ n < tab[t].count}
        \ {g.page : g \in tab[t].pages}

\* Mutant of Evicted: the window is never applied.
EvictedNever(pages, center) == pages

\* evict_pages_outside_window: too many pages, so those around the centre stay.
Evicted(pages, center) ==
    IF Cardinality(pages) <= MaxPages THEN pages
    ELSE {g \in pages : g.page + Radius >= center /\ g.page <= center + Radius}

\* The pages among ns that d has, rendered now.
Rendered(d, ns) ==
    {[doc |-> d, page |-> n, version |-> file[d]] :
        n \in {m \in ns : m < PageCount[d]}}

\* save_pages_with, from the page count it is told.  It stamps the file's present mtime.
Save(d, count, pages) ==
    /\ images' = [images EXCEPT ![d] = Extended(@, pages)]
    /\ meta' = [meta EXCEPT ![d] = [count |-> count, version |-> file[d]]]

OpenTask(t) == [kind |-> "open", tab |-> t, doc |-> tab[t].doc, missed |-> FALSE]

MoreTask(t, center) ==
    [kind |-> "more", tab |-> t, doc |-> tab[t].doc,
     pages |-> Missing(t, center)]

Start(s, job) ==
    /\ task[s] = Idle
    /\ task' = [task EXCEPT ![s] = job]

----------------------------------------------------------------------------
(* The user.                                                               *)

\* Mutant of NextId: the id after those of the open tabs.
NextIdPastOpen == IF open = <<>> THEN 1 ELSE Max(ToSet(open)) + 1

NextId == lastId + 1

\* open_or_switch, and open_tab for a file that is picked.
OpenPdf(d) ==
    LET there == {t \in Ids : IsOpen(t) /\ tab[t].doc = d}
    IN  \/ \E t \in there :
               /\ active' = t
               /\ tab' = Suspended(tab, t)
               /\ UNCHANGED <<open, lastId>>
        \/ /\ there = {} /\ NextId \in Ids
           /\ lastId' = NextId
           /\ open' = Append(open, NextId)
           /\ active' = NextId
           /\ tab' = Suspended([tab EXCEPT ![NextId] = NewTab(d)], NextId)

OpenFromLibrary(d) == OpenPdf(d) /\ UNCHANGED <<task, meta, images, file>>

\* Next and previous tab by key: nothing but the switch.
KeyTo(t) ==
    /\ \E i, j \in 1 .. Len(open) : open[i] = active /\ open[j] = t /\ (j = i + 1 \/ i = j + 1)
    /\ active' = t
    /\ tab' = Suspended(tab, t)
    /\ UNCHANGED <<open, lastId, task, meta, images, file>>

\* A click on a tab starts a task that is to open its document again.
ClickTab(t, s) ==
    /\ IsOpen(t) /\ t # active
    /\ active' = t
    /\ tab' = Suspended(tab, t)
    /\ Start(s, [kind |-> "click", tab |-> t])
    /\ UNCHANGED <<open, lastId, meta, images, file>>

\* close_tab: what is shown when the i-th tab is closed.
Neighbour(i) ==
    IF active # open[i] THEN active
    ELSE IF i < Len(open) THEN open[i + 1]
    ELSE IF i > 1 THEN open[i - 1] ELSE 0

CloseTab(i) ==
    /\ active' = Neighbour(i)
    /\ open' = RemoveAt(open, i)
    /\ UNCHANGED <<lastId, meta, images, file>>

\* The menu's Close.
MenuClose(i) ==
    CloseTab(i) /\ tab' = [tab EXCEPT ![open[i]] = NoTab] /\ UNCHANGED task

\* The cross on a tab and the close command open what is shown next if need be.
CloseAndShow(i, s) ==
    /\ CloseTab(i)
    /\ LET next == Neighbour(i)
       IN  IF next # 0 /\ NeedsRender(next)
           THEN /\ tab' = [tab EXCEPT ![open[i]] = NoTab, ![next].loading = TRUE]
                /\ Start(s, OpenTask(next))
           ELSE /\ tab' = [tab EXCEPT ![open[i]] = NoTab]
                /\ UNCHANGED task

CloseOthers(t) ==
    /\ IsOpen(t) /\ Len(open) > 1
    /\ open' = <<t>> /\ active' = t
    /\ tab' = [u \in Ids |-> IF u = t THEN tab[t] ELSE NoTab]
    /\ UNCHANGED <<lastId, task, meta, images, file>>

\* Mutant of ShownAfterCut: what was shown stays shown.
ShownAfterCutSame(kept, t) == active

ShownAfterCut(kept, t) == IF active \in kept THEN active ELSE t

CloseToRight(i) ==
    LET kept == {open[j] : j \in 1 .. i}
    IN  /\ i < Len(open)
        /\ open' = SubSeq(open, 1, i)
        /\ active' = ShownAfterCut(kept, open[i])
        /\ tab' = [u \in Ids |-> IF u \in kept THEN tab[u] ELSE NoTab]
        /\ UNCHANGED <<lastId, task, meta, images, file>>

\* ensure_window_rendered: the centre is noted, and missing pages around it start to
\* be rendered.  The scroll handler calls it, and a click that restores the position;
\* both may find that the user has moved on to another tab, and the click passes the
\* page of the tab that is shown then, which t may not have.
Scroll(t, center, s) ==
    /\ IsOpen(t) /\ tab[t].count > 0
    /\ Missing(t, center) # {} \/ center # tab[t].page
    /\ tab' = [tab EXCEPT ![t].page = center]
    /\ IF Missing(t, center) = {} THEN UNCHANGED task
       ELSE Start(s, MoreTask(t, center))
    /\ UNCHANGED <<open, active, lastId, meta, images, file>>

\* A file in the library is replaced, by its user or by import_pdf.
ReplaceFile(d) ==
    /\ d \in Replaceable /\ file[d] < MaxVersions
    /\ images[d] # {}              \* bound: before, nothing tells the versions apart
    /\ \A t \in Ids : IsOpen(t) => tab[t].doc = d     \* bound: with no other one open
    /\ file' = [file EXCEPT ![d] = @ + 1]
    /\ UNCHANGED <<open, active, tab, lastId, task, meta, images>>

----------------------------------------------------------------------------
(* The viewer's effect and the tasks.                                      *)

\* The viewer opens the tab that is shown while it is loading and has no page; its
\* effect runs again, and may open it twice, whenever the tabs have changed.
ViewerEffect(s) ==
    /\ active # 0 /\ IsOpen(active)
    /\ tab[active].loading /\ tab[active].pages = {}
    /\ \A r \in Tasks : task[r] # OpenTask(active)     \* bound: twice only when apart
    /\ Start(s, OpenTask(active))
    /\ UNCHANGED <<open, active, tab, lastId, meta, images, file>>

\* The task of a click opens its tab again if the one shown by now has no pages, and it
\* is that one it marks as loading.
ClickOpens(s) ==
    LET t == task[s].tab
        needed == active # 0 /\ NeedsRender(active)
    IN  /\ task[s].kind = "click"
        /\ tab' = IF needed THEN [tab EXCEPT ![active].loading = TRUE] ELSE tab
        /\ task' = [task EXCEPT ![s] = IF needed /\ IsOpen(t) THEN OpenTask(t) ELSE Idle]
        /\ UNCHANGED <<open, active, lastId, meta, images, file>>

\* load_cached_with: the pages on disk, if the metadata say they are the file's.
Cached(d) ==
    IF meta[d].version = file[d] THEN {g \in images[d] : g.page < meta[d].count} ELSE {}

\* What an opening that succeeded leaves in its tab, if that is still there.
Opened(t, count, pages) ==
    IF ~IsOpen(t) THEN tab
    ELSE [tab EXCEPT ![t].count = count, ![t].pages = pages, ![t].loading = FALSE]

\* The cache has pages: those around the first are shown, and a task is to render
\* what is missing there if the cache is not complete.
OpenCached(s) ==
    LET j == task[s]
        pages == Cached(j.doc)
        count == meta[j.doc].count
    IN  /\ j.kind = "open" /\ ~j.missed /\ pages # {}
        /\ tab' = Opened(j.tab, count, Evicted(pages, 0))
        /\ task' = [task EXCEPT ![s] = IF Cardinality(pages) = count THEN Idle
                                       ELSE [kind |-> "window", tab |-> j.tab]]
        /\ UNCHANGED <<open, active, lastId, meta, images, file>>

FirstWindow(s) ==
    LET t == task[s].tab
        there == IsOpen(t) /\ tab[t].count > 0
    IN  /\ task[s].kind = "window"
        /\ tab' = IF there THEN [tab EXCEPT ![t].page = 0] ELSE tab
        /\ task' = [task EXCEPT ![s] = IF there /\ Missing(t, 0) # {} THEN MoreTask(t, 0)
                                       ELSE Idle]
        /\ UNCHANGED <<open, active, lastId, meta, images, file>>

OpenMissed(s) ==
    /\ task[s].kind = "open" /\ ~task[s].missed
    /\ Cached(task[s].doc) = {}
    /\ task' = [task EXCEPT ![s].missed = TRUE]
    /\ UNCHANGED <<open, active, tab, lastId, meta, images, file>>

\* The first pages are rendered, kept for the next opening and shown.
OpenRendered(s) ==
    LET j == task[s]
        pages == Rendered(j.doc, 0 .. Batch - 1)
    IN  /\ j.kind = "open" /\ j.missed
        /\ Save(j.doc, PageCount[j.doc], pages)
        /\ tab' = Opened(j.tab, PageCount[j.doc], pages)
        /\ task' = [task EXCEPT ![s] = Idle]
        /\ UNCHANGED <<open, active, lastId, file>>

Failed(t) == IF IsOpen(t) THEN [tab EXCEPT ![t].loading = FALSE] ELSE tab

OpenFailed(s) ==
    /\ task[s].kind = "open" /\ task[s].missed
    /\ tab' = Failed(task[s].tab)
    /\ task' = [task EXCEPT ![s] = Idle]
    /\ UNCHANGED <<open, active, lastId, meta, images, file>>

\* render_more_pages ends.  The page count it saves is the one of the tab shown now.
MoreRendered(s) ==
    LET j == task[s]
        pages == Rendered(j.doc, j.pages)
    IN  /\ j.kind = "more"
        /\ Save(j.doc, IF IsOpen(active) THEN tab[active].count ELSE 0, pages)
        /\ tab' = IF ~IsOpen(j.tab) THEN tab
                  ELSE [tab EXCEPT ![j.tab].pages =
                            Evicted(Extended(tab[j.tab].pages, pages), tab[j.tab].page)]
        /\ task' = [task EXCEPT ![s] = Idle]
        /\ UNCHANGED <<open, active, lastId, file>>

MoreFailed(s) ==
    /\ task[s].kind = "more"
    /\ task' = [task EXCEPT ![s] = Idle]
    /\ UNCHANGED <<open, active, tab, lastId, meta, images, file>>

TaskStep(s) ==
    \/ OpenCached(s) \/ OpenMissed(s) \/ OpenRendered(s) \/ OpenFailed(s)
    \/ ClickOpens(s) \/ FirstWindow(s) \/ MoreRendered(s) \/ MoreFailed(s)

UserStep ==
    \/ \E d \in Doc : OpenFromLibrary(d)
    \/ \E t \in Ids : KeyTo(t) \/ CloseOthers(t)
    \/ \E i \in 1 .. Len(open) : MenuClose(i) \/ CloseToRight(i)
    \/ \E t \in Ids, s \in Tasks : ClickTab(t, s)
    \/ \E i \in 1 .. Len(open), s \in Tasks : CloseAndShow(i, s)
    \/ \E t \in Ids, s \in Tasks : \E c \in AllPages : Scroll(t, c, s)
    \/ \E d \in Doc : ReplaceFile(d)

Next ==
    \/ UserStep
    \/ \E s \in Tasks : ViewerEffect(s)
    \/ \E s \in Tasks : TaskStep(s)

Spec == Init /\ [][Next]_vars

----------------------------------------------------------------------------
(* Properties.                                                             *)

Page == [doc : Doc, page : AllPages, version : 1 .. MaxVersions]
OpenTabs == {t \in Ids : IsOpen(t)}
Resident == {t \in OpenTabs : tab[t].pages # {}}

\* Tabs, tasks, the cache and its metadata have the shapes of their records, an id is
\* given out once, a tab is there exactly while its id is among the open ones, and one
\* of those is shown however tabs are closed.
TypeOK ==
    /\ open \in Seq(1 .. lastId) /\ \A i, j \in 1 .. Len(open) : open[i] = open[j] => i = j
    /\ IF open = << >> THEN active = 0 ELSE IsOpen(active)
    /\ \A t \in OpenTabs :
           tab[t] \in [doc : Doc, count : Nat,
                      pages : SUBSET Page, loading : BOOLEAN, page : AllPages]
    /\ \A t \in Ids \ OpenTabs : tab[t] = NoTab
    /\ \A s \in Tasks : \/ task[s] = Idle
                         \/ /\ task[s].kind \in {"click", "open", "window", "more"}
                            /\ task[s].tab \in Ids
    /\ meta \in [Doc -> [count : Nat, version : 0 .. MaxVersions]]
    /\ images \in [Doc -> SUBSET Page]
    /\ file \in [Doc -> 1 .. MaxVersions]

\* A tab shows its own document only and an image once, and so does the cache, though a
\* task ends long after its tab was closed and others were opened: an id names one tab
\* for good, since that is all a task remembers.
PagesBelongToTab ==
    /\ \A t \in OpenTabs : \A g, h \in tab[t].pages :
           g.doc = tab[t].doc /\ (g.page = h.page => g = h)
    /\ \A d \in Doc : \A g, h \in images[d] : g.doc = d /\ (g.page = h.page => g = h)

\* However the user scrolls and whatever the cache holds, a tab keeps no more than
\* MaxPages images (MAX_RESIDENT_PAGES).
ResidentPagesBounded == \A t \in OpenTabs : Cardinality(tab[t].pages) <= MaxPages

\* Showing another tab without closing one leaves at most MaxResident tabs with pages,
\* the one shown included, though renders that ended late may have brought back more.
SwitchKeepsLimit ==
    [][active' # active /\ Len(open') >= Len(open) => Cardinality(Resident') <= MaxResident]_vars

(* What does not hold.                                                     *)

\* What the cache takes for valid are images of the file as it is.
CacheValid == \A d \in Doc : \A g \in Cached(d) : g.version = file[d]

\* The metadata of a document's cache give its number of pages.
CachedCount == \A d \in Doc : meta[d].version # 0 => meta[d].count = PageCount[d]

\* No more than MaxResident tabs have pages at any time.
LimitHolds == Cardinality(Resident) <= MaxResident

\* Whoever shows a tab whose pages were given up opens it again, in a task or at once.
SwitchReopens ==
    [][active' # active /\ active' # 0 /\ NeedsRender(active)' =>
          \/ tab'[active'].loading
          \/ \E s \in Tasks : task'[s] = [kind |-> "click", tab |-> active']]_vars

=============================================================================
