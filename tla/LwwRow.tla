------------------------------- MODULE LwwRow -------------------------------
(***************************************************************************)
(* One row of a synced table and everything the merge does to it: the      *)
(* clock (updated_at, updated_by) it carries, how a local write stamps it, *)
(* what of it a snapshot publishes and which of two copies survives.       *)
(* The statements are generated by crates/rotero-db/src/sync_sql.rs and    *)
(* run by clock.rs (local writes) and snapshot.rs (merges).                *)
(***************************************************************************)
EXTENDS Naturals

CONSTANTS
    Device,   \* device ids; updated_by compares them as text, here as numbers
    Value,    \* what a row's payload columns can hold together
    NoValue,  \* the not-null skeleton a tombstone lands with; a junction's "payload"
    NoRow     \* the table holds no row under that key

ASSUME DeviceAssumption == Device \subseteq Nat \ {0}
ASSUME ValueAssumption == NoValue \notin Value

\* Value stands for the columns a row must have: a merged tombstone overwrites
\* those with placeholders and leaves the nullable ones, which nobody reads until
\* some later write brings the row back under a clock of its own.

\* The default of updated_by in a row no statement has stamped yet ('').
Nobody == 0

Content == Value \union {NoValue}

Row == [ua : Nat, ub : Device \union {Nobody}, deleted : BOOLEAN, val : Content]

ASSUME NoRowAssumption == NoRow \notin Row

MaybeRow == Row \union {NoRow}

\* Mutants of Newer: no tie-break; the device compared before the time.
NewerNoTieBreak(a, b) == a.ua > b.ua

NewerByDevice(a, b) ==
    \/ a.ub > b.ub
    \/ a.ub = b.ub /\ a.ua > b.ua

\* The tuple comparison of the merge: newest first, the device id breaks ties.
Newer(a, b) ==
    \/ a.ua > b.ua
    \/ a.ua = b.ua /\ a.ub > b.ub

SameClock(a, b) == a.ua = b.ua /\ a.ub = b.ub

\* Mutant of Clamp: the wall clock is taken as it reads.
ClampWallClock(now, ua) == now

\* The clamp of every stamping statement: MAX(now, updated_at + 1).
Clamp(now, ua) == IF now > ua THEN now ELSE ua + 1

\* A row as an INSERT leaves it: the sync columns still at their defaults.
Unstamped(v) == [ua |-> 0, ub |-> Nobody, deleted |-> FALSE, val |-> v]

\* stamp_row: touch when dead is FALSE (and then also a revival), tombstone otherwise.
StampRow(r, now, d, dead) ==
    [r EXCEPT !.ua = Clamp(now, r.ua), !.ub = d, !.deleted = dead]

\* Mutant of UpsertJunction: a revival is stamped with the bare clock reading.
UpsertJunctionUnclamped(r, now, d) ==
    [ua |-> now, ub |-> d, deleted |-> FALSE, val |-> NoValue]

\* upsert_junction: insert a membership at `now`, or revive it past its stamp.
UpsertJunction(r, now, d) ==
    IF r = NoRow
    THEN [ua |-> now, ub |-> d, deleted |-> FALSE, val |-> NoValue]
    ELSE StampRow(r, now, d, FALSE)

\* Mutants of Published: the not-null skeleton is forgotten; the _live view is read.
PublishedBare(r) ==
    IF r # NoRow /\ r.deleted THEN [r EXCEPT !.val = NoRow] ELSE r

PublishedLive(r) ==
    IF r # NoRow /\ r.deleted THEN NoRow ELSE r

\* What read_table puts in a snapshot: a tombstone ships its key and clock only.
Published(r) ==
    IF r # NoRow /\ r.deleted THEN [r EXCEPT !.val = NoValue] ELSE r

\* Mutants of MergeRow: no WHERE on the upsert; INSERT OR IGNORE; a payload merged
\* apart from its clock.
MergeLastArrived(local, incoming) == incoming

MergeIgnore(local, incoming) == IF local = NoRow THEN incoming ELSE local

MergeClockApart(local, incoming) ==
    IF local = NoRow \/ Newer(incoming, local)
    THEN incoming ELSE [local EXCEPT !.val = incoming.val]

\* merge_row: the incoming copy lands whole if it is new here or its clock wins.
MergeRow(local, incoming) ==
    IF local = NoRow \/ Newer(incoming, local) THEN incoming ELSE local

=============================================================================
