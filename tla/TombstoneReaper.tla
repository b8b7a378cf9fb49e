-------------------------- MODULE TombstoneReaper --------------------------
(***************************************************************************)
(* What leaves the shared folder, and when.  Devices delete papers and     *)
(* add papers with a PDF; each runs the tick of app/sync_loop.rs: publish  *)
(* its rows, merge its peers', remove the tombstones every peer has seen,  *)
(* remove the shared PDFs that go with them, and copy the PDFs of live     *)
(* papers both ways.  Rows are those of LwwRow; a row's value is the hash  *)
(* of the paper's PDF, and a file is known by the hash of what is in it.   *)
(* RowSync has the file transport and its failures; here a published file  *)
(* is at once the one every peer reads.                                    *)
(***************************************************************************)
EXTENDS LwwRow, Integers, FiniteSets, FiniteSetsExt

CONSTANTS
    Paper,      \* ids of papers, none of them used before
    PathOf,     \* paper -> its pdf_path: year, title and author decide
    Additions,  \* <<device, paper, hash>>: what the users may add
    Missing,    \* no file there
    TTL,        \* TOMBSTONE_TTL_MS
    Interval,   \* REAP_INTERVAL_MS
    MaxAway,    \* the longest a device goes without a full tick
    MaxTime,    \* bound: the clock stops there
    LastAdd,    \* bound: the last moment at which a paper is added
    LastDelete, \* bound: the last moment at which a paper is deleted
    MaxFaults,  \* bound: failures and stops of the application, all devices together
    OncePerUnit \* bound: until it stops, a device starts one tick per unit of time

ASSUME TimesAssumption == /\ TTL \in Nat \ {0} /\ Interval \in Nat \ {0}
                          /\ MaxAway \in Nat \ {0} /\ MaxTime \in Nat \ {0}
                          /\ {LastAdd, LastDelete, MaxFaults} \subseteq Nat

VARIABLES
    now,        \* the wall clock, the same on every device
    rows,       \* device -> paper -> its row
    files,      \* device -> its snapshot in the shared folder
    lastReap,   \* device -> the tombstone_last_reap_ms flag, -1: none
    step,       \* device -> where its tick is
    todo,       \* device -> peers to read, or papers whose PDF to copy
    disk,       \* device -> path -> what the library's file holds
    blobs,      \* hash -> what the shared file of that name holds
    orphans,    \* device -> hashes it listed, whose shared files are still to go
    lastTick,   \* device -> when its last full tick ended
    history     \* faults so far and the hashes they touched, for the properties
vars == <<now, rows, files, lastReap, step, todo, disk, blobs, orphans, lastTick, history>>
listing == <<orphans, history>>

Path == {PathOf[p] : p \in Paper}
Peers(d) == Device \ {d}

Live(r) == r # NoRow /\ ~r.deleted
Dead(r) == r # NoRow /\ r.deleted

NoSnapshot == [at |-> -1, rows |-> [p \in Paper |-> NoRow]]

Init ==
    /\ now = 1
    /\ rows = [d \in Device |-> [p \in Paper |-> NoRow]]
    /\ files = [d \in Device |-> NoSnapshot]
    /\ lastReap = [d \in Device |-> -1]
    /\ step = [d \in Device |-> "export"]
    /\ todo = [d \in Device |-> {}]
    /\ disk = [d \in Device |-> [f \in Path |-> Missing]]
    /\ blobs = [h \in Value |-> Missing]
    /\ orphans = [d \in Device |-> {}]
    /\ history = [faults |-> 0, missed |-> [d \in Device |-> {}], lost |-> {}]
    /\ lastTick = [d \in Device |-> 0]

----------------------------------------------------------------------------
(* The user.                                                               *)

\* A PDF is copied into the library under a name free on this device's disk, and
\* a paper naming it, with an id nobody has seen, is inserted and stamped.
AddPaper(d, p, h) ==
    /\ now <= LastAdd /\ <<d, p, h>> \in Additions
    /\ \A e \in Device : rows[e][p] = NoRow /\ files[e].rows[p] = NoRow
    /\ disk[d][PathOf[p]] = Missing
    /\ disk' = [disk EXCEPT ![d][PathOf[p]] = h]
    /\ rows' = [rows EXCEPT ![d][p] = StampRow(Unstamped(h), now, d, FALSE)]
    /\ UNCHANGED <<now, files, lastReap, step, todo, blobs, lastTick, listing>>

\* delete_paper leaves the library's file where it is.
DeletePaper(d, p) ==
    /\ now <= LastDelete /\ Live(rows[d][p])
    /\ rows' = [rows EXCEPT ![d][p] = StampRow(@, now, d, TRUE)]
    /\ UNCHANGED <<now, files, lastReap, step, todo, disk, blobs, lastTick, listing>>

----------------------------------------------------------------------------
(* The tick.                                                               *)

\* Export (published at once, under a new generated_at) and the list of peers.
Export(d) ==
    /\ step[d] = "export"
    /\ OncePerUnit => (lastTick[d] < now \/ now = MaxTime)
    /\ files' = [files EXCEPT ![d] =
                    [at |-> now, rows |-> [p \in Paper |-> Published(rows[d][p])]]]
    /\ step' = [step EXCEPT ![d] = "import"]
    /\ todo' = [todo EXCEPT ![d] = Peers(d)]
    /\ UNCHANGED <<now, rows, lastReap, disk, blobs, lastTick, listing>>

\* A tombstone carries no hash: the one a row already here names stays, and a
\* column newer than this row's is taken into a dead row too.
MergePaper(local, incoming) ==
    LET won == MergeRow(local, incoming)
        named == IF local # NoRow /\ local.val # NoValue THEN local ELSE incoming
    IN  IF incoming = NoRow THEN local ELSE [won EXCEPT !.val = named.val]

\* One peer's snapshot is merged; there may be none yet.
ImportFrom(d, e) ==
    /\ step[d] = "import" /\ e \in todo[d]
    /\ rows' = [rows EXCEPT ![d] =
                    [p \in Paper |-> MergePaper(rows[d][p], files[e].rows[p])]]
    /\ todo' = [todo EXCEPT ![d] = @ \ {e}]
    /\ UNCHANGED <<now, files, lastReap, step, disk, blobs, lastTick, listing>>

\* PAPER_ORPHANED_PDF_HASHES: hashes dead papers name and no live one does.
Orphans(rs) ==
    {rs[p].val : p \in {q \in Paper : Dead(rs[q]) /\ rs[q].val # NoValue}}
        \ {rs[p].val : p \in {q \in Paper : Live(rs[q])}}

\* peer_horizon: the oldest generated_at among the peers' readable snapshots.
HeardFrom(d) == {e \in Peers(d) : files[e] # NoSnapshot}
PeerHorizon(d) == Min({files[e].at : e \in HeardFrom(d)})

\* Mutant of Cutoff: what a peer published after it is settled.
CutoffAtHorizon(d) == Min({PeerHorizon(d), now})

\* Both bounds, and a lifetime below the lower of them.
Cutoff(d) == Min({PeerHorizon(d), now - TTL}) - TTL

\* The statement removes the tombstones this device wrote.
Reapable(d) ==
    {p \in Paper : Dead(rows[d][p]) /\ rows[d][p].ua < Cutoff(d) /\ rows[d][p].ub = d}

ReapIsDue(d) == lastReap[d] = -1 \/ now - lastReap[d] >= Interval

\* Mutant of WithPdf: the list the library shows, which is capped.
WithPdfCapped(d) ==
    {p \in Paper : Live(rows[d][p]) /\ \A q \in Paper : Live(rows[d][q]) =>
                      rows[d][q].ub < rows[d][p].ub \/ q = p}

\* list_papers_with_pdfs: every live paper, whatever the library shows.
WithPdf(d) == {p \in Paper : Live(rows[d][p])}

Go(d, next) == step' = [step EXCEPT ![d] = next]
ReapingOnly == UNCHANGED <<now, files, disk, lastTick>>

\* The orphans are listed before the tombstones that name them go.
ListOrphans(d) ==
    /\ step[d] = "import" /\ todo[d] = {} /\ Go(d, "reap")
    /\ orphans' = [orphans EXCEPT ![d] = Orphans(rows[d])]
    /\ UNCHANGED <<rows, lastReap, todo, blobs, history>> /\ ReapingOnly

Forget(d, gone) == rows' = [rows EXCEPT ![d] = [p \in Paper |-> IF p \in gone THEN NoRow ELSE @[p]]]

\* What is listed is dropped only if something was reaped.
DropAfter(d, gone) == orphans' = [orphans EXCEPT ![d] = IF gone = {} THEN {} ELSE @]

\* Where a listing failed, the hashes it missed are lost with their tombstones.
LoseMissed(d, gone) ==
    history' = [history EXCEPT !.missed[d] = {},
                               !.lost = @ \union IF gone = {} THEN {} ELSE history.missed[d]]

Due(d) == HeardFrom(d) # {} /\ ReapIsDue(d)

\* Mutant of Reap: the orphans are listed when their tombstones are gone.
ReapThenList(d) ==
    LET gone == IF Due(d) THEN Reapable(d) ELSE {}
    IN  /\ step[d] = "reap" /\ Go(d, "drop")
        /\ Forget(d, gone) /\ LoseMissed(d, gone)
        /\ orphans' = [orphans EXCEPT ![d] = IF gone = {} THEN {} ELSE Orphans(rows'[d])]
        /\ lastReap' = IF Due(d) THEN [lastReap EXCEPT ![d] = now] ELSE lastReap
        /\ UNCHANGED <<todo, blobs>> /\ ReapingOnly

Reap(d) ==
    LET gone == IF Due(d) THEN Reapable(d) ELSE {}
    IN  /\ step[d] = "reap" /\ Go(d, "drop")
        /\ Forget(d, gone) /\ DropAfter(d, gone) /\ LoseMissed(d, gone)
        /\ lastReap' = IF Due(d) THEN [lastReap EXCEPT ![d] = now] ELSE lastReap
        /\ UNCHANGED <<todo, blobs>> /\ ReapingOnly

\* reap_shared_pdf, one listed hash after the other.
DropBlob(d, h) ==
    /\ step[d] = "drop" /\ h \in orphans[d]
    /\ blobs' = [blobs EXCEPT ![h] = Missing]
    /\ orphans' = [orphans EXCEPT ![d] = @ \ {h}]
    /\ UNCHANGED <<rows, lastReap, step, todo, history>> /\ ReapingOnly

ListPdfs(d) ==
    /\ step[d] = "drop" /\ orphans[d] = {} /\ Go(d, "pdfs")
    /\ todo' = [todo EXCEPT ![d] = WithPdf(d)]
    /\ UNCHANGED <<rows, lastReap, blobs, orphans, history>> /\ ReapingOnly

\* export_pdf: what is under the path is published under the hash, unless a
\* shared file has that name.
ExportPdf(here, h) ==
    IF here # Missing /\ blobs[h] = Missing THEN [blobs EXCEPT ![h] = here] ELSE blobs

\* import_pdf: a shared file that is what its name says replaces one that is not.
ImportPdf(here, shared, h) == IF here # h /\ shared = h THEN h ELSE here

\* One paper of the list, in any order, where the code takes the order of the rows.
TransferPdf(d, p) ==
    LET f == PathOf[p]  h == rows[d][p].val
    IN  /\ step[d] = "pdfs" /\ p \in todo[d] /\ rows[d][p] # NoRow
        /\ blobs' = ExportPdf(disk[d][f], h)
        /\ disk' = [disk EXCEPT ![d][f] = ImportPdf(@, blobs'[h], h)]
        /\ todo' = [todo EXCEPT ![d] = @ \ {p}]
        /\ UNCHANGED <<now, rows, files, lastReap, step, lastTick, listing>>

EndTick(d) ==
    /\ step[d] = "pdfs" /\ todo[d] = {}
    /\ step' = [step EXCEPT ![d] = "export"]
    /\ lastTick' = [lastTick EXCEPT ![d] = now]
    /\ UNCHANGED <<now, rows, files, lastReap, todo, disk, blobs, listing>>

TickStep(d) ==
    \/ Export(d)
    \/ \E e \in Peers(d) : ImportFrom(d, e)
    \/ ListOrphans(d)
    \/ Reap(d)
    \/ \E h \in Value : DropBlob(d, h)
    \/ ListPdfs(d)
    \/ \E p \in Paper : TransferPdf(d, p)
    \/ EndTick(d)

----------------------------------------------------------------------------
(* Failures.                                                               *)

\* A fault of d's; the hashes given are lost, those missed are not listed.
Fault(d, lost, missed) ==
    /\ history.faults < MaxFaults
    /\ history' = [faults |-> history.faults + 1, lost |-> history.lost \union lost,
                   missed |-> [history.missed EXCEPT ![d] = missed]]

\* The query fails; reaping goes on with an empty list.
ListingFails(d) ==
    /\ step[d] = "import" /\ todo[d] = {} /\ Go(d, "reap")
    /\ Fault(d, {}, Orphans(rows[d]))
    /\ UNCHANGED <<rows, lastReap, todo, blobs, orphans>> /\ ReapingOnly

\* reap_tombstones fails before or behind the papers' statement: the flag is not
\* written, and nothing is dropped.
ReapFails(d) ==
    \E gone \in {{}, IF Due(d) THEN Reapable(d) ELSE {}} :
        /\ step[d] = "reap" /\ Go(d, "drop")
        /\ Forget(d, gone)
        /\ Fault(d, IF gone = {} THEN {} ELSE orphans[d] \union history.missed[d], {})
        /\ orphans' = [orphans EXCEPT ![d] = {}]
        /\ UNCHANGED <<lastReap, todo, blobs>> /\ ReapingOnly

\* A shared file stays; the failure is logged.
DropFails(d, h) ==
    /\ step[d] = "drop" /\ h \in orphans[d]
    /\ Fault(d, {h}, {})
    /\ orphans' = [orphans EXCEPT ![d] = @ \ {h}]
    /\ UNCHANGED <<rows, lastReap, step, todo, blobs>> /\ ReapingOnly

\* The application stops in the middle of a tick and is started again.
StopApp(d) ==
    /\ step[d] # "export" /\ Go(d, "export")
    /\ Fault(d, IF step[d] = "drop" THEN orphans[d] ELSE {}, {})
    /\ todo' = [todo EXCEPT ![d] = {}]
    /\ orphans' = [orphans EXCEPT ![d] = {}]
    /\ UNCHANGED <<rows, lastReap, blobs>> /\ ReapingOnly

Fails(d) ==
    ListingFails(d) \/ ReapFails(d) \/ StopApp(d) \/ \E h \in Value : DropFails(d, h)

----------------------------------------------------------------------------

\* Time passes, but no device stays away longer than MaxAway.
Pass ==
    /\ now < MaxTime
    /\ \A d \in Device : now + 1 - lastTick[d] <= MaxAway
    /\ now' = now + 1
    /\ UNCHANGED <<rows, files, lastReap, step, todo, disk, blobs, lastTick, listing>>

Next ==
    \/ \E d \in Device, p \in Paper, h \in Value : AddPaper(d, p, h)
    \/ \E d \in Device, p \in Paper : DeletePaper(d, p)
    \/ \E d \in Device : TickStep(d) \/ Fails(d)
    \/ Pass

Spec == Init /\ [][Next]_vars

\* The tick runs every thirty seconds for as long as the application does, and a
\* device is opened again some day; time goes on.
FairSpec == Spec /\ WF_vars(Pass) /\ \A d \in Device : WF_vars(TickStep(d))

----------------------------------------------------------------------------
(* Properties.                                                             *)

\* Shape of the state.
TypeOK ==
    /\ now \in 1 .. MaxTime
    /\ rows \in [Device -> [Paper -> MaybeRow]]
    /\ files \in [Device -> [at : {-1} \union 1 .. MaxTime, rows : [Paper -> MaybeRow]]]
    /\ lastReap \in [Device -> {-1} \union 1 .. MaxTime]
    /\ step \in [Device -> {"export", "import", "reap", "drop", "pdfs"}]
    /\ todo \in [Device -> SUBSET (Device \union Paper)]
    /\ disk \in [Device -> [Path -> Value \union {Missing}]]
    /\ blobs \in [Value -> Value \union {Missing}]
    /\ orphans \in [Device -> SUBSET Value]
    /\ lastTick \in [Device -> 0 .. MaxTime]
    /\ history \in [faults : 0 .. MaxFaults, missed : [Device -> SUBSET Value], lost : SUBSET Value]

\* When a device forgets that it deleted a paper, no other device holds the paper
\* live, nor does the snapshot of one: there is nothing left it could come back
\* from.  Holds while a device ends three ticks within a tombstone's lifetime.
ReapedWasSeen ==
    [][\A d \in Device, p \in Paper :
          rows[d][p] # NoRow /\ rows'[d][p] = NoRow =>
             \A e \in Device \ {d} :
                ~Live(rows[e][p]) /\ ~Live(files[e].rows[p])]_vars

\* Somebody will remove the shared PDF when it is of no use: a device has a live paper
\* naming it, or a tombstone of its own that names it and takes it along when it is
\* reaped, or is about to remove it.
Kept(h) ==
    \/ \E d \in Device, p \in Paper :
          rows[d][p] # NoRow /\ rows[d][p].val = h /\ (rows[d][p].deleted => rows[d][p].ub = d)
    \/ \E d \in Device : step[d] = "drop" /\ h \in orphans[d]

\* A shared PDF is forgotten only where a tombstone naming it went in a tick that could
\* not list it, or was stopped or failed before the file was gone.
NoBlobForgotten == \A h \in Value : blobs[h] # Missing => Kept(h) \/ h \in history.lost

\* What the loop's comment on its order hopes for: the list made before the reaping
\* accounts for every shared PDF, whatever fails.
EveryBlobKept == \A h \in Value : blobs[h] # Missing => Kept(h)

\* What a test of file_sync.rs says: a file that is the PDF of a paper its device has
\* is not replaced by another's.
KeepsItsPdf ==
    [][\A d \in Device, p \in Paper :
          LET f == PathOf[p]
          IN  Live(rows[d][p]) /\ disk[d][f] = rows[d][p].val => disk'[d][f] = disk[d][f]]_vars

\* Again and again every device has the PDF of every paper it has.
PdfsArrive ==
    []<>(\A d \in Device, p \in Paper :
            Live(rows[d][p]) => disk[d][PathOf[p]] = rows[d][p].val)

\* What ReapStats says: a tombstone a device removed does not come back to it.
ReapedStaysReaped ==
    [][\A d \in Device, p \in Paper :
          rows[d][p] = NoRow /\ Dead(rows'[d][p]) => rows'[d][p].ub # d]_vars

\* What reap_shared_pdf says of its callers: no device still has a live paper
\* naming the shared file that is removed.
DroppedUnneeded ==
    [][\A h \in Value : blobs[h] # Missing /\ blobs'[h] = Missing =>
          \A d \in Device, p \in Paper : Live(rows[d][p]) => rows[d][p].val # h]_vars

=============================================================================
