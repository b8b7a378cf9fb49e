------------------------------ MODULE RowSync -------------------------------
(***************************************************************************)
(* The devices of one user and the folder they share.                      *)
(*                                                                         *)
(* Each device keeps its own copy of the row-level synced tables (every    *)
(* table of SYNCED_TABLES except papers) and runs the sync loop: export a  *)
(* snapshot of all rows with a checksum sidecar beside it, then merge      *)
(* every other device's snapshot, one row at a time.  The user edits rows  *)
(* while the loop is between two awaits.                                   *)
(*                                                                         *)
(* A cloud daemon carries the files between devices, each file on its own: *)
(* a reader is handed some snapshot the peer once wrote, or part of one,   *)
(* and some sidecar the peer once wrote, so files are late, reordered,     *)
(* duplicated, rolled back and torn.                                       *)
(*                                                                         *)
(* A device's clock is not a variable: a reading is any time at all, so    *)
(* clocks are skewed, stand still and jump backwards.                      *)
(***************************************************************************)
EXTENDS LwwRow, FiniteSets

CONSTANTS
    Key,        \* primary keys, numbered in the order a snapshot lists them
    Junction,   \* the keys of junction rows, which have no payload
    Bare,       \* the keys of rows a tombstone has no placeholders for
    NoFile,     \* there is no such file
    Torn,       \* the bytes of a partly downloaded file
    MaxTime,    \* bound: clock readings are 1 .. MaxTime
    MaxHeader,  \* bound: clock readings in a snapshot's header are 1 .. MaxHeader
    MaxWrites,  \* bound: local writes, all devices together
    MaxFaults   \* bound: crashes and failed statements, together

ASSUME KeyAssumption == Key \subseteq Nat /\ Junction \union Bare \subseteq Key
ASSUME BoundAssumption ==
    MaxTime \in Nat \ {0} /\ MaxHeader \in Nat \ {0} /\ MaxWrites \in Nat /\ MaxFaults \in Nat

Time == 1 .. MaxTime

HeaderTime == 1 .. MaxHeader

Rows == [Key -> MaybeRow]

Snapshot == [at : HeaderTime, rows : Rows]

ASSUME FileAssumption == {NoFile, Torn} \intersect Snapshot = {} /\ NoFile # Torn

File == Snapshot \union {NoFile, Torn}

\* SHA-256 of a file.  Distinct files have distinct digests, so a digest is
\* represented by the file it was taken of.
Checksum(file) == file

VARIABLES
    db,         \* db[d][k]: device d's row under key k
    unstamped,  \* unstamped[d]: rows d has written and not stamped yet
    snapshots,  \* snapshots[d]: every snapshot file d has written
    sidecars,   \* sidecars[d]: every sidecar d has written
    meta,       \* meta[d]: the sidecar d itself finds beside its snapshot
    sync,       \* sync[d]: where d's sync loop stands
    drafts,     \* <<k, ua, ub>>: clocks under which an unstamped write was visible
    writes, faults

folder == <<snapshots, sidecars, meta>>

vars == <<db, unstamped, folder, sync, drafts, writes, faults>>

Phase == {"reading", "snapped", "importing", "checking", "merging"}

SyncState == [pc : Phase, todo : SUBSET Key, peers : SUBSET Device, file : File]

EmptySnapshot == [at |-> 1, rows |-> [k \in Key |-> NoRow]]

\* Asleep between two ticks: about to read the first table.
Asleep == [pc |-> "reading", todo |-> Key, peers |-> {}, file |-> EmptySnapshot]

\* On to the first of the peers left, if any.
Importing(peers) ==
    IF peers = {}
    THEN Asleep
    ELSE [pc |-> "importing", todo |-> {}, peers |-> peers, file |-> NoFile]

Init ==
    /\ db = [d \in Device |-> [k \in Key |-> NoRow]]
    /\ unstamped = [d \in Device |-> {}]
    /\ snapshots = [d \in Device |-> {}]
    /\ sidecars = [d \in Device |-> {}]
    /\ meta = [d \in Device |-> NoFile]
    /\ sync = [d \in Device |-> Asleep]
    /\ drafts = {}
    /\ writes = 0
    /\ faults = 0

IsFirst(x, S) == x \in S /\ \A y \in S : x <= y

-----------------------------------------------------------------------------
(* Local writes.  A payload write and its stamp are two statements with an
   await between them, and no transaction around them. *)

CanWrite == writes < MaxWrites /\ writes' = writes + 1

SetRow(d, k, r) == db' = [db EXCEPT ![d][k] = r]

WrittenUnstamped(d, k, r) ==
    /\ SetRow(d, k, r)
    /\ unstamped' = [unstamped EXCEPT ![d] = @ \union {k}]
    /\ drafts' = drafts \union {<<k, r.ua, r.ub>>}

\* insert_note and its like: the id is a fresh uuid, so no device has it.
InsertRow(d, k, v) ==
    /\ CanWrite
    /\ k \notin Junction
    /\ \A e \in Device : db[e][k] = NoRow
    /\ WrittenUnstamped(d, k, Unstamped(v))
    /\ UNCHANGED <<folder, sync, faults>>

\* update_note and its like: UPDATE ... WHERE id = ?, live or dead.
\* Bound: one edit of a row is in flight on a device (k \notin unstamped[d]).
UpdateRow(d, k, v) ==
    /\ CanWrite
    /\ k \notin Junction \union unstamped[d]
    /\ db[d][k] # NoRow
    /\ WrittenUnstamped(d, k, [db[d][k] EXCEPT !.val = v])
    /\ UNCHANGED <<folder, sync, faults>>

\* The touch that follows either of them.
Touch(d, k, now) ==
    /\ k \in unstamped[d]
    /\ SetRow(d, k, StampRow(db[d][k], now, d, FALSE))
    /\ unstamped' = [unstamped EXCEPT ![d] = @ \ {k}]
    /\ UNCHANGED <<folder, sync, drafts, writes, faults>>

\* A deletion is one statement: stamp and flag together.
Tombstone(d, k, now) ==
    /\ CanWrite
    /\ db[d][k] # NoRow
    /\ SetRow(d, k, StampRow(db[d][k], now, d, TRUE))
    /\ UNCHANGED <<unstamped, folder, sync, drafts, faults>>

\* So is adding a membership, whether or not the row is there already.
AddMember(d, k, now) ==
    /\ CanWrite
    /\ k \in Junction
    /\ SetRow(d, k, UpsertJunction(db[d][k], now, d))
    /\ UNCHANGED <<unstamped, folder, sync, drafts, faults>>

-----------------------------------------------------------------------------
(* The export half of a tick. *)

SetSync(d, s) == sync' = [sync EXCEPT ![d] = s]

\* Every snapshot d sees except its own, by file name.
PeerFiles(d) == {p \in Device \ {d} : snapshots[p] # {}}

\* One table of write_snapshot; the next one is read after an await.
ReadTable(d, k) ==
    /\ sync[d].pc = "reading"
    /\ IsFirst(k, sync[d].todo)
    /\ SetSync(d, [sync[d] EXCEPT !.todo = @ \ {k},
                                  !.file.rows[k] = Published(db[d][k])])
    /\ UNCHANGED <<db, unstamped, folder, drafts, writes, faults>>

\* Stamp the header, compare with the sidecar, write the snapshot if it differs.
WriteSnapshot(d, now) ==
    LET file == [sync[d].file EXCEPT !.at = now] IN
    /\ sync[d].pc = "reading"
    /\ sync[d].todo = {}
    /\ IF meta[d] = Checksum(file)
       THEN SetSync(d, Importing(PeerFiles(d))) /\ UNCHANGED snapshots
       ELSE /\ snapshots' = [snapshots EXCEPT ![d] = @ \union {file}]
            /\ SetSync(d, [sync[d] EXCEPT !.pc = "snapped", !.file = file])
    /\ UNCHANGED <<db, unstamped, sidecars, meta, drafts, writes, faults>>

WriteMeta(d) ==
    /\ sync[d].pc = "snapped"
    /\ sidecars' = [sidecars EXCEPT ![d] = @ \union {Checksum(sync[d].file)}]
    /\ meta' = [meta EXCEPT ![d] = Checksum(sync[d].file)]
    /\ SetSync(d, Importing(PeerFiles(d)))
    /\ UNCHANGED <<db, unstamped, snapshots, drafts, writes, faults>>

-----------------------------------------------------------------------------
(* The import half: peers in file-name order, rows in file order. *)

DonePeer(d, p) == SetSync(d, Importing(sync[d].peers \ {p}))

\* The rows of a file still to merge; with none left the peer is done.
Merging(d, p, todo) ==
    IF todo = {}
    THEN DonePeer(d, p)
    ELSE SetSync(d, [sync[d] EXCEPT !.pc = "merging", !.todo = todo])

ReadPeer(d, p, file) ==
    /\ sync[d].pc = "importing"
    /\ IsFirst(p, sync[d].peers)
    /\ SetSync(d, [sync[d] EXCEPT !.pc = "checking", !.file = file])
    /\ UNCHANGED <<db, unstamped, folder, drafts, writes, faults>>

\* The sidecar is read after the snapshot; a mismatch skips the peer this tick.
CheckPeer(d, p, sidecar) ==
    /\ sync[d].pc = "checking"
    /\ IsFirst(p, sync[d].peers)
    /\ LET file == sync[d].file IN
       IF file # Torn /\ sidecar = Checksum(file)
       THEN Merging(d, p, {k \in Key : file.rows[k] # NoRow})
       ELSE DonePeer(d, p)
    /\ UNCHANGED <<db, unstamped, folder, drafts, writes, faults>>

\* Mutant of CannotLand: a tombstone is refused whether or not its row is here.
CannotLandDead(d, k) ==
    k \in Bare /\ sync[d].file.rows[k].deleted

\* A tombstone of a bare row lacks the columns its table insists on, so it cannot
\* be inserted: not_null_skeleton has nothing for concepts, claims, edges, stubs.
CannotLand(d, k) ==
    k \in Bare /\ db[d][k] = NoRow /\ sync[d].file.rows[k].deleted

\* The row an upsert would leave if it wins: a bare tombstone keeps the payload.
Landing(d, k) ==
    LET incoming == sync[d].file.rows[k] IN
    IF k \in Bare /\ db[d][k] # NoRow /\ incoming.deleted
    THEN [incoming EXCEPT !.val = db[d][k].val] ELSE incoming

MergePeerRow(d, p, k) ==
    /\ sync[d].pc = "merging"
    /\ IsFirst(p, sync[d].peers)
    /\ IsFirst(k, sync[d].todo)
    /\ ~CannotLand(d, k)
    /\ SetRow(d, k, MergeRow(db[d][k], Landing(d, k)))
    /\ Merging(d, p, sync[d].todo \ {k})
    /\ UNCHANGED <<unstamped, folder, drafts, writes, faults>>

\* The constraint fails: the rest of the file is dropped, on this tick and the next.
RejectPeerRow(d, p, k) ==
    /\ sync[d].pc = "merging"
    /\ IsFirst(p, sync[d].peers)
    /\ IsFirst(k, sync[d].todo)
    /\ CannotLand(d, k)
    /\ DonePeer(d, p)
    /\ UNCHANGED <<db, unstamped, folder, drafts, writes, faults>>

-----------------------------------------------------------------------------
(* What can go wrong. *)

CanFail == faults < MaxFaults /\ faults' = faults + 1

\* The app dies: both files and the database stay as they are, the rest is lost.
Crash(d) ==
    /\ CanFail
    /\ SetSync(d, Asleep)
    /\ unstamped' = [unstamped EXCEPT ![d] = {}]
    /\ UNCHANGED <<db, folder, drafts, writes>>

\* The stamping statement returns an error after the payload write went through.
TouchFails(d, k) ==
    /\ CanFail
    /\ k \in unstamped[d]
    /\ unstamped' = [unstamped EXCEPT ![d] = @ \ {k}]
    /\ UNCHANGED <<db, folder, sync, drafts, writes>>

\* export_changes returns an error: logged, and the tick goes on to import.
ExportFails(d) ==
    /\ CanFail
    /\ sync[d].pc \in {"reading", "snapped"}
    /\ SetSync(d, Importing(PeerFiles(d)))
    /\ UNCHANGED <<db, unstamped, folder, drafts, writes>>

\* A row fails to apply: the rest of the file is dropped, applied rows stay.
MergeFails(d, p) ==
    /\ CanFail
    /\ sync[d].pc = "merging"
    /\ IsFirst(p, sync[d].peers)
    /\ DonePeer(d, p)
    /\ UNCHANGED <<db, unstamped, folder, drafts, writes>>

-----------------------------------------------------------------------------
Edit(d) ==
    \E k \in Key :
        \/ \E v \in Value : InsertRow(d, k, v) \/ UpdateRow(d, k, v)
        \/ \E now \in Time : Tombstone(d, k, now) \/ AddMember(d, k, now)

Stamp(d) == \E k \in unstamped[d], now \in Time : Touch(d, k, now)

Export(d) ==
    \/ \E k \in Key : ReadTable(d, k)
    \/ \E now \in HeaderTime : WriteSnapshot(d, now)
    \/ WriteMeta(d)

Import(d) ==
    \/ \E p \in Device :
        \/ \E file \in snapshots[p] \union {Torn} : ReadPeer(d, p, file)
        \/ \E sidecar \in sidecars[p] \union {NoFile} : CheckPeer(d, p, sidecar)
        \/ \E k \in Key : MergePeerRow(d, p, k) \/ RejectPeerRow(d, p, k)

Fault(d) ==
    \/ \E p \in Device : MergeFails(d, p)
    \/ \E k \in Key : TouchFails(d, k)
    \/ Crash(d)
    \/ ExportFails(d)

Next ==
    \E d \in Device :
        Edit(d) \/ Stamp(d) \/ Export(d) \/ Import(d) \/ Fault(d)

Spec == Init /\ [][Next]_vars

-----------------------------------------------------------------------------
(* What must hold. *)

Files ==
    (UNION {snapshots[d] : d \in Device})
        \union ({sync[d].file : d \in Device} \ {NoFile, Torn})

\* Every copy of row k there is: in the databases, in files, in a loop's hands.
Copies(k) ==
    ({Published(db[d][k]) : d \in Device} \union {f.rows[k] : f \in Files}) \ {NoRow}

\* The types of the variables: what each table, file and loop can hold.
TypeOK ==
    /\ db \in [Device -> Rows]
    /\ unstamped \in [Device -> SUBSET Key]
    /\ snapshots \in [Device -> SUBSET Snapshot]
    /\ sidecars \in [Device -> SUBSET Snapshot]
    /\ meta \in [Device -> Snapshot \union {NoFile}]
    /\ sync \in [Device -> SyncState]
    /\ drafts \subseteq Key \X Nat \X (Device \union {Nobody})
    /\ writes \in 0 .. MaxWrites
    /\ faults \in 0 .. MaxFaults

\* A clock names one version: two copies of a row under the same clock, wherever
\* they are, have the same content and flag.  The merge relies on it when it
\* ignores a copy that ties.  Only a clock some payload write was visible under
\* before its stamp is exempt.
SameClockSameVersion ==
    \A k \in Key : \A a, b \in Copies(k) :
        SameClock(a, b) /\ <<k, a.ua, a.ub>> \notin drafts => a = b

\* A device's own edit never comes back to it from the future: whatever copy a
\* device stamped, its own row carries that clock or a later one.  This is why
\* merge_snapshot may skip the device's own file without losing anything, and
\* why the next stamp it makes is new everywhere.
AuthorLeads ==
    \A k \in Key : \A a \in Copies(k) :
        a.ub # Nobody => db[a.ub][k] # NoRow /\ a.ua <= db[a.ub][k].ua

\* What a device is merging, its publisher still has or has moved past: no row in
\* the file is newer than the publisher's own, however late the file is.
FileTrailsPublisher ==
    \A p \in Device : \A file \in snapshots[p], k \in Key :
        file.rows[k] # NoRow =>
            db[p][k] # NoRow /\ ~Newer(file.rows[k], db[p][k])

\* No step takes a row back: a row never disappears, its clock never falls, and
\* what it holds changes under an unchanged clock only when the device itself
\* has just written it and owes it a stamp.
RowsOnlyAdvance ==
    [][\A d \in Device, k \in Key :
         LET old == db[d][k]  new == db'[d][k] IN
         old # NoRow /\ new # old =>
             /\ new # NoRow
             /\ \/ Newer(new, old)
                \/ SameClock(new, old) /\ k \in unstamped'[d] \ unstamped[d]]_vars

\* When a merge ends and neither the app nor a statement has failed, each row of the
\* file is in the device's database, as in the file or newer: all but those from a
\* tombstone on that has no placeholders and whose row this device never had.
MergeLandsWhole ==
    [][\A d \in Device :
         LET file == sync[d].file IN
         sync[d].pc = "merging" /\ sync'[d].pc # "merging" /\ UNCHANGED faults =>
             \A k \in Key : file.rows[k] # NoRow =>
                 \/ db'[d][k] # NoRow /\ ~Newer(file.rows[k], db'[d][k])
                 \/ \E j \in sync[d].todo \intersect Bare :
                        j <= k /\ db[d][j] = NoRow /\ file.rows[j].deleted]_vars

\* The rows of the devices, the stamps they owe, and the copies in databases, files
\* and loops, as last-writer-wins registers.
Registers == INSTANCE LastWriterWins WITH
    row <- db, owed <- unstamped, circulating <- [k \in Key |-> Copies(k)]

\* Every step of the detailed system is a step of those registers: no merge,
\* however late, torn or interleaved, puts on a device a version nobody wrote,
\* a mixture of two, or one its own copy had already passed.
ImplementsRegisters == Registers!LwwSpec

-----------------------------------------------------------------------------
(* Convergence.  The loop and the stamp of a started write keep running, and
   a device that keeps looking at a peer's files is at last handed the pair
   that carries the peer's current rows. *)

ReadCurrent(d, p) ==
    \E file \in sidecars[p] :
        file.rows = meta[p].rows /\ ReadPeer(d, p, file)

PassCurrent(d, p) ==
    \E file \in sidecars[p] :
        /\ sync[d].file = file
        /\ file.rows = meta[p].rows
        /\ CheckPeer(d, p, Checksum(file))

Fairness ==
    \A d \in Device :
        /\ WF_vars(Stamp(d))
        /\ WF_vars(Export(d))
        /\ WF_vars(Import(d))
        /\ \A p \in Device \ {d} :
              SF_vars(ReadCurrent(d, p)) /\ SF_vars(PassCurrent(d, p))

FairSpec == Spec /\ Fairness

IsDraft(k, r) == r # NoRow /\ <<k, r.ua, r.ub>> \in drafts

\* Once the writes stop, the devices come to hold the same clock for every row
\* and stay there, and the same content with it unless the last payload write
\* of the row was never stamped.
Converges ==
    <>[](\A k \in Key : \A d, e \in Device :
           LET r == db[d][k]  s == db[e][k] IN
           \/ Published(r) = Published(s)
           \/ r # NoRow /\ s # NoRow /\ SameClock(r, s) /\ IsDraft(k, r))

-----------------------------------------------------------------------------
(* What the comments say and the code does not do. *)

\* file_sync.rs: which copy of a row wins is decided by its clock, identically
\* on every device; so with every write over, devices that have the same clock
\* for a row have the same row.
ClockDecidesIdentically ==
    (\A d \in Device : unstamped[d] = {}) =>
        \A k \in Key : \A d, e \in Device :
            LET r == db[d][k]  s == db[e][k] IN
            r # NoRow /\ s # NoRow /\ SameClock(r, s) => Published(r) = Published(s)

\* snapshot.rs: nothing ever reads the placeholders a tombstone lands with,
\* because the row is dead; so a live row never holds them.
PlaceholdersStayDead ==
    \A d \in Device, k \in Key \ Junction :
        db[d][k] # NoRow /\ db[d][k].val = NoValue => db[d][k].deleted

\* snapshot.rs: a tombstone for a row never seen here lands with placeholders; so no
\* merge leaves a row behind unless the app or a statement fails.
NoRowLeftBehind ==
    [][\A d \in Device :
         LET file == sync[d].file IN
         sync[d].pc = "merging" /\ sync'[d].pc # "merging" /\ UNCHANGED faults =>
             \A k \in Key : file.rows[k] # NoRow =>
                 db'[d][k] # NoRow /\ ~Newer(file.rows[k], db'[d][k])]_vars

\* file_sync.rs: the export writes nothing when nothing changed since the last
\* one; so a snapshot written over a published one differs from it in some row.
QuietExportSkipped ==
    [][\A d \in Device :
         sync'[d].pc = "snapped" /\ snapshots'[d] # snapshots[d] /\ meta[d] # NoFile
             => sync'[d].file.rows # meta[d].rows]_vars

=============================================================================
