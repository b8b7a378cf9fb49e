--------------------------- MODULE RowSync_proofs ---------------------------
(***************************************************************************)
(* Proofs about RowSync, for any set of devices, keys and values and any   *)
(* bounds.                                                                 *)
(***************************************************************************)
EXTENDS RowSync, LwwRow_proofs

-----------------------------------------------------------------------------
(* Types.  What a loop has in hand depends on its phase. *)

FileInHand ==
    \A d \in Device :
        /\ sync[d].pc \in {"reading", "snapped", "merging"} => sync[d].file \in Snapshot
        /\ sync[d].pc = "checking" => sync[d].file \in Snapshot \union {Torn}
        /\ sync[d].pc = "merging" => \A k \in sync[d].todo : sync[d].file.rows[k] # NoRow

\* A row waiting for its stamp is there to be stamped.
UnstampedExist == \A d \in Device : \A k \in unstamped[d] : db[d][k] # NoRow

Types == TypeOK /\ FileInHand /\ UnstampedExist

\* The file an export starts from is a snapshot, with no row in it.
LEMMA EmptySnapshotType == EmptySnapshot \in Snapshot
BY BoundAssumption DEF EmptySnapshot, Snapshot, HeaderTime, Rows, MaybeRow

\* A loop that goes on to importing has nothing, or the empty file, in hand.
LEMMA ImportingType ==
    ASSUME NEW peers \in SUBSET Device
    PROVE  /\ Importing(peers) \in SyncState
           /\ Importing(peers).pc \in {"reading", "importing"}
           /\ Importing(peers).pc = "reading" => Importing(peers).file \in Snapshot
BY EmptySnapshotType DEF Importing, Asleep, SyncState, Phase, File

\* Putting a well-typed state in the place of a device's keeps FileInHand.
LEMMA SetSyncType ==
    ASSUME Types, NEW d \in Device, NEW s \in SyncState,
           SetSync(d, s),
           s.pc \in {"reading", "snapped", "merging"} => s.file \in Snapshot,
           s.pc = "checking" => s.file \in Snapshot \union {Torn},
           s.pc = "merging" => \A k \in s.todo : s.file.rows[k] # NoRow
    PROVE  sync' \in [Device -> SyncState] /\ FileInHand'
BY DEF Types, TypeOK, FileInHand, SetSync

\* Putting a row in a device's table keeps the tables well typed.
LEMMA SetRowType ==
    ASSUME TypeOK, NEW d \in Device, NEW k \in Key, NEW r \in MaybeRow, SetRow(d, k, r)
    PROVE  db' \in [Device -> Rows]
BY DEF TypeOK, SetRow, Rows

\* Finishing a peer, or going on with the rows left of its file.
LEMMA MergingType ==
    ASSUME Types, NEW d \in Device, NEW p, NEW todo \in SUBSET Key,
           sync[d].file \in Snapshot, Merging(d, p, todo),
           \A k \in todo : sync[d].file.rows[k] # NoRow
    PROVE  sync' \in [Device -> SyncState] /\ FileInHand'
<1>1. CASE todo = {}
  <2>1. sync[d].peers \ {p} \in SUBSET Device
    BY DEF Types, TypeOK, SyncState
  <2>2. SetSync(d, Importing(sync[d].peers \ {p}))
    BY <1>1 DEF Merging, DonePeer
  <2> QED BY <2>1, <2>2, ImportingType, SetSyncType
<1>2. CASE todo # {}
  <2> DEFINE s == [sync[d] EXCEPT !.pc = "merging", !.todo = todo]
  <2>0. sync[d] \in SyncState
    BY DEF Types, TypeOK
  <2>1. s \in SyncState /\ s.pc = "merging" /\ s.file = sync[d].file /\ s.todo = todo
    BY <2>0 DEF SyncState, Phase
  <2>2. SetSync(d, s)
    BY <1>2 DEF Merging
  <2> HIDE DEF s
  <2> QED BY <2>1, <2>2, SetSyncType
<1> QED BY <1>1, <1>2

\* What a merge puts in place is a row, as far as it is published the incoming one.
LEMMA LandingType ==
    ASSUME Types, NEW d \in Device, NEW k \in Key, sync[d].pc = "merging", k \in sync[d].todo
    PROVE  /\ sync[d].file \in Snapshot /\ sync[d].file.rows[k] \in Row
           /\ Landing(d, k) \in Row
           /\ SameClock(Landing(d, k), sync[d].file.rows[k])
           /\ Published(Landing(d, k)) = Published(sync[d].file.rows[k])
<1> DEFINE in == sync[d].file.rows[k]
<1>1. sync[d].file \in Snapshot /\ in \in Row
  BY DEF Types, FileInHand, Snapshot, Rows, MaybeRow
<1>2. CASE k \in Bare /\ db[d][k] # NoRow /\ in.deleted
  <2>1. db[d][k] \in Row
    BY <1>2 DEF Types, TypeOK, Rows, MaybeRow
  <2>2. Landing(d, k) = [in EXCEPT !.val = db[d][k].val]
    BY <1>2 DEF Landing
  <2>3. Landing(d, k) \in Row /\ SameClock(Landing(d, k), in) /\ Landing(d, k).deleted
    BY <1>1, <1>2, <2>1, <2>2 DEF Row, SameClock
  <2>4. [Landing(d, k) EXCEPT !.val = NoValue] = [in EXCEPT !.val = NoValue]
    BY <1>1, <2>2 DEF Row
  <2> QED BY <1>1, <1>2, <2>3, <2>4, NoRowAssumption DEF Published
<1>3. CASE ~(k \in Bare /\ db[d][k] # NoRow /\ in.deleted)
  BY <1>1, <1>3 DEF Landing, SameClock
<1> QED BY <1>1, <1>2, <1>3

\* The types hold of empty databases and an empty folder.
THEOREM InitTypes == Init => Types
<1> SUFFICES ASSUME Init PROVE Types
  OBVIOUS
<1>1. Asleep \in SyncState /\ Asleep.pc = "reading" /\ Asleep.file \in Snapshot
  BY EmptySnapshotType DEF Asleep, SyncState, Phase, File
<1>2. FileInHand
  BY <1>1 DEF Init, FileInHand
<1>3. TypeOK
  BY <1>1, BoundAssumption DEF Init, TypeOK, Rows, MaybeRow
<1>4. UnstampedExist
  BY DEF Init, UnstampedExist
<1> QED BY <1>2, <1>3, <1>4 DEF Types

\* Every step keeps the types.
THEOREM NextTypes == Types /\ [Next]_vars => Types'
<1> SUFFICES ASSUME Types, [Next]_vars PROVE Types'
  OBVIOUS
<1> USE DEF folder
<1> USE BoundAssumption
<1>0. TypeOK /\ FileInHand /\ UnstampedExist
  BY DEF Types
<1>t. Time \subseteq Nat
  BY DEF Time
<1>w. ASSUME CanWrite PROVE writes' \in 0 .. MaxWrites
  BY <1>w, <1>0 DEF CanWrite, TypeOK
<1>f. ASSUME CanFail PROVE faults' \in 0 .. MaxFaults
  BY <1>f, <1>0 DEF CanFail, TypeOK
<1>r. ASSUME NEW d \in Device, NEW k \in Key, db[d][k] # NoRow
      PROVE  db[d][k] \in Row
  BY <1>r, <1>0 DEF TypeOK, Rows, MaybeRow
\* A step that puts a row in place leaves every row waiting for its stamp in place.
<1>u. ASSUME NEW d \in Device, NEW k \in Key, NEW r \in Row, SetRow(d, k, r),
             unstamped' = unstamped
      PROVE  db' \in [Device -> Rows] /\ UnstampedExist'
  <2>1. db' \in [Device -> Rows]
    BY <1>u, <1>0, SetRowType DEF MaybeRow
  <2>2. UnstampedExist'
    BY <1>u, <1>0, NoRowAssumption DEF SetRow, TypeOK, Rows, UnstampedExist
  <2> QED BY <2>1, <2>2
<1>d. ASSUME NEW d \in Device, NEW k \in Key, NEW r \in Row, WrittenUnstamped(d, k, r)
      PROVE  /\ db' \in [Device -> Rows]
             /\ unstamped' \in [Device -> SUBSET Key]
             /\ drafts' \subseteq Key \X Nat \X (Device \union {Nobody})
             /\ UnstampedExist'
  <2>1. db' \in [Device -> Rows]
    BY <1>d, <1>0, SetRowType DEF WrittenUnstamped, MaybeRow
  <2>2. unstamped' \in [Device -> SUBSET Key]
    BY <1>d, <1>0 DEF WrittenUnstamped, TypeOK
  <2>3. drafts' \subseteq Key \X Nat \X (Device \union {Nobody})
    BY <1>d, <1>0 DEF WrittenUnstamped, TypeOK, Row
  <2>4. UnstampedExist'
    BY <1>d, <1>0, NoRowAssumption DEF WrittenUnstamped, SetRow, TypeOK, Rows, UnstampedExist
  <2> QED BY <2>1, <2>2, <2>3, <2>4
<1>1. ASSUME NEW d \in Device, NEW k \in Key, NEW v \in Value, InsertRow(d, k, v)
      PROVE  Types'
  <2>1. Unstamped(v) \in Row
    BY DEF Unstamped, Row, Content
  <2> QED BY <1>1, <1>0, <1>w, <1>d, <2>1 DEF InsertRow, Types, TypeOK, FileInHand
<1>2. ASSUME NEW d \in Device, NEW k \in Key, NEW v \in Value, UpdateRow(d, k, v)
      PROVE  Types'
  <2>1. [db[d][k] EXCEPT !.val = v] \in Row
    BY <1>2, <1>r DEF UpdateRow, Row, Content
  <2> QED BY <1>2, <1>0, <1>w, <1>d, <2>1 DEF UpdateRow, Types, TypeOK, FileInHand
<1>3. ASSUME NEW d \in Device, NEW k \in unstamped[d], NEW now \in Time, Touch(d, k, now)
      PROVE  Types'
  <2>1. k \in Key /\ db[d][k] # NoRow
    BY <1>0 DEF TypeOK, UnstampedExist
  <2>2. StampRow(db[d][k], now, d, FALSE) \in Row
    BY <2>1, <1>r, <1>t, StampRowAdvances
  <2>3. db' \in [Device -> Rows]
    BY <1>3, <1>0, <2>1, <2>2, SetRowType DEF Touch, MaybeRow
  <2>4. UnstampedExist'
    BY <1>3, <1>0, <2>1, <2>2, NoRowAssumption
    DEF Touch, SetRow, TypeOK, Rows, UnstampedExist
  <2> QED BY <1>3, <1>0, <2>3, <2>4 DEF Touch, Types, TypeOK, FileInHand
<1>4. ASSUME NEW d \in Device, NEW k \in Key, NEW now \in Time, Tombstone(d, k, now)
      PROVE  Types'
  <2>1. StampRow(db[d][k], now, d, TRUE) \in Row
    BY <1>4, <1>r, <1>t, StampRowAdvances DEF Tombstone
  <2>2. db' \in [Device -> Rows] /\ UnstampedExist'
    BY <1>4, <2>1, <1>u DEF Tombstone
  <2> QED BY <1>4, <1>0, <1>w, <2>2 DEF Tombstone, Types, TypeOK, FileInHand
<1>5. ASSUME NEW d \in Device, NEW k \in Key, NEW now \in Time, AddMember(d, k, now)
      PROVE  Types'
  <2>1. UpsertJunction(db[d][k], now, d) \in Row
    <3>1. db[d][k] \in MaybeRow
      BY <1>0 DEF TypeOK, Rows
    <3> QED BY <1>t, <3>1, UpsertJunctionAdvances
  <2>2. db' \in [Device -> Rows] /\ UnstampedExist'
    BY <1>5, <2>1, <1>u DEF AddMember
  <2> QED BY <1>5, <1>0, <1>w, <2>2 DEF AddMember, Types, TypeOK, FileInHand
<1>q. ASSUME UNCHANGED <<db, unstamped>> PROVE UnstampedExist'
  BY <1>q, <1>0 DEF UnstampedExist
<1>6. ASSUME NEW d \in Device, NEW k \in Key, ReadTable(d, k)
      PROVE  Types'
  <2> DEFINE s == [sync[d] EXCEPT !.todo = @ \ {k},
                                  !.file.rows[k] = Published(db[d][k])]
  <2>1. Published(db[d][k]) \in MaybeRow
    BY <1>0, PublishedKeepsClock DEF TypeOK, Rows
  <2>2. sync[d].file \in Snapshot /\ sync[d] \in SyncState
    BY <1>6, <1>0 DEF ReadTable, FileInHand, TypeOK
  <2>3. s.file \in Snapshot
    BY <2>1, <2>2 DEF Snapshot, Rows, SyncState
  <2>4. s \in SyncState /\ s.pc = "reading"
    BY <1>6, <2>2, <2>3 DEF ReadTable, SyncState, File
  <2>5. SetSync(d, s)
    BY <1>6 DEF ReadTable
  <2> HIDE DEF s
  <2>6. sync' \in [Device -> SyncState] /\ FileInHand'
    BY <2>3, <2>4, <2>5, SetSyncType
  <2> QED BY <1>6, <1>0, <1>q, <2>6 DEF ReadTable, Types, TypeOK
<1>7. ASSUME NEW d \in Device, NEW now \in HeaderTime, WriteSnapshot(d, now)
      PROVE  Types'
  <2> DEFINE file == [sync[d].file EXCEPT !.at = now]
             s == [sync[d] EXCEPT !.pc = "snapped", !.file = file]
  <2>1. sync[d].file \in Snapshot /\ sync[d] \in SyncState
    BY <1>7, <1>0 DEF WriteSnapshot, FileInHand, TypeOK
  <2>2. file \in Snapshot
    BY <2>1 DEF Snapshot
  <2>3. s \in SyncState /\ s.pc = "snapped" /\ s.file = file
    BY <2>1, <2>2 DEF SyncState, Phase, File
  <2>4. CASE meta[d] = Checksum(file)
    <3>1. SetSync(d, Importing(PeerFiles(d))) /\ UNCHANGED snapshots
      BY <1>7, <2>4 DEF WriteSnapshot
    <3>2. sync' \in [Device -> SyncState] /\ FileInHand'
      BY <3>1, ImportingType, SetSyncType DEF PeerFiles
    <3> QED BY <1>7, <1>0, <1>q, <3>1, <3>2 DEF WriteSnapshot, Types, TypeOK
  <2>5. CASE meta[d] # Checksum(file)
    <3>1. SetSync(d, s) /\ snapshots' = [snapshots EXCEPT ![d] = @ \union {file}]
      BY <1>7, <2>5 DEF WriteSnapshot
    <3> HIDE DEF s
    <3>2. sync' \in [Device -> SyncState] /\ FileInHand'
      BY <2>2, <2>3, <3>1, SetSyncType
    <3>3. snapshots' \in [Device -> SUBSET Snapshot]
      BY <1>0, <2>2, <3>1 DEF TypeOK
    <3> QED BY <1>7, <1>0, <1>q, <3>2, <3>3 DEF WriteSnapshot, Types, TypeOK
  <2> QED BY <2>4, <2>5
<1>8. ASSUME NEW d \in Device, WriteMeta(d)
      PROVE  Types'
  <2>1. sync[d].file \in Snapshot
    BY <1>8, <1>0 DEF WriteMeta, FileInHand
  <2>2. sync' \in [Device -> SyncState] /\ FileInHand'
    BY <1>8, ImportingType, SetSyncType DEF WriteMeta, PeerFiles
  <2> QED BY <1>8, <1>0, <1>q, <2>1, <2>2 DEF WriteMeta, Checksum, Types, TypeOK
<1>9. ASSUME NEW d \in Device, NEW p \in Device, NEW file \in snapshots[p] \union {Torn},
             ReadPeer(d, p, file)
      PROVE  Types'
  <2> DEFINE s == [sync[d] EXCEPT !.pc = "checking", !.file = file]
  <2>1. file \in Snapshot \union {Torn} /\ sync[d] \in SyncState
    BY <1>0 DEF TypeOK
  <2>2. s \in SyncState /\ s.pc = "checking" /\ s.file = file
    BY <2>1 DEF SyncState, Phase, File
  <2>3. SetSync(d, s)
    BY <1>9 DEF ReadPeer
  <2> HIDE DEF s
  <2>4. sync' \in [Device -> SyncState] /\ FileInHand'
    BY <2>1, <2>2, <2>3, SetSyncType
  <2> QED BY <1>9, <1>0, <1>q, <2>4 DEF ReadPeer, Types, TypeOK
<1>10. ASSUME NEW d \in Device, NEW p \in Device, NEW sidecar \in sidecars[p] \union {NoFile},
              CheckPeer(d, p, sidecar)
       PROVE  Types'
  <2>1. sync[d].file \in Snapshot \union {Torn} /\ sync[d] \in SyncState
    BY <1>10, <1>0 DEF CheckPeer, FileInHand, TypeOK
  <2>2. CASE sync[d].file # Torn /\ sidecar = Checksum(sync[d].file)
    <3>1. Merging(d, p, {k \in Key : sync[d].file.rows[k] # NoRow})
      BY <1>10, <2>2 DEF CheckPeer
    <3>2. sync' \in [Device -> SyncState] /\ FileInHand'
      BY <2>1, <2>2, <3>1, MergingType
    <3> QED BY <1>10, <1>0, <1>q, <3>2 DEF CheckPeer, Types, TypeOK
  <2>3. CASE ~(sync[d].file # Torn /\ sidecar = Checksum(sync[d].file))
    <3>1. SetSync(d, Importing(sync[d].peers \ {p}))
      BY <1>10, <2>3 DEF CheckPeer, DonePeer
    <3>2. sync[d].peers \ {p} \in SUBSET Device
      BY <2>1 DEF SyncState
    <3>3. sync' \in [Device -> SyncState] /\ FileInHand'
      BY <3>1, <3>2, ImportingType, SetSyncType
    <3> QED BY <1>10, <1>0, <1>q, <3>3 DEF CheckPeer, Types, TypeOK
  <2> QED BY <2>2, <2>3
<1>11. ASSUME NEW d \in Device, NEW p \in Device, NEW k \in Key, MergePeerRow(d, p, k)
       PROVE  Types'
  <2>1. sync[d].file \in Snapshot /\ sync[d] \in SyncState
    BY <1>11, <1>0 DEF MergePeerRow, FileInHand, TypeOK
  <2> DEFINE r == MergeRow(db[d][k], Landing(d, k))
  <2>2. Landing(d, k) \in Row /\ db[d][k] \in MaybeRow
    BY <1>11, <1>0, LandingType DEF MergePeerRow, IsFirst, Rows, TypeOK
  <2>3. r \in Row
    BY <2>2, MergeRowAdvances DEF MaybeRow
  <2>4. db' \in [Device -> Rows] /\ UnstampedExist'
    BY <1>11, <1>u, <2>3 DEF MergePeerRow
  <2>5. sync' \in [Device -> SyncState] /\ FileInHand'
    <3>1. sync[d].todo \ {k} \in SUBSET Key
      BY <2>1 DEF SyncState
    <3>2. \A j \in sync[d].todo \ {k} : sync[d].file.rows[j] # NoRow
      BY <1>11, <1>0 DEF MergePeerRow, FileInHand
    <3> QED BY <1>11, <2>1, <3>1, <3>2, MergingType DEF MergePeerRow
  <2> QED BY <1>11, <1>0, <2>4, <2>5 DEF MergePeerRow, Types, TypeOK
<1>12. ASSUME NEW d \in Device, NEW s \in {Asleep, Importing(PeerFiles(d))},
              SetSync(d, s)
       PROVE  sync' \in [Device -> SyncState] /\ FileInHand'
  <2>1. Importing({}) = Asleep
    BY DEF Importing
  <2>2. PICK peers \in SUBSET Device : s = Importing(peers)
    BY <2>1 DEF PeerFiles
  <2> QED BY <1>12, <2>2, ImportingType, SetSyncType
<1>13. ASSUME NEW d \in Device, Crash(d)
       PROVE  Types'
  <2>1. UnstampedExist' /\ unstamped' \in [Device -> SUBSET Key]
    BY <1>13, <1>0 DEF Crash, UnstampedExist, TypeOK
  <2> QED BY <1>13, <1>0, <1>12, <1>f, <2>1 DEF Crash, Types, TypeOK
<1>14. ASSUME NEW d \in Device, NEW k \in Key, TouchFails(d, k)
       PROVE  Types'
  <2>1. UnstampedExist' /\ unstamped' \in [Device -> SUBSET Key]
    BY <1>14, <1>0 DEF TouchFails, UnstampedExist, TypeOK
  <2> QED BY <1>14, <1>0, <1>f, <2>1 DEF TouchFails, Types, TypeOK, FileInHand
<1>15. ASSUME NEW d \in Device, ExportFails(d)
       PROVE  Types'
  BY <1>15, <1>0, <1>12, <1>f, <1>q DEF ExportFails, Types, TypeOK
<1>x. ASSUME NEW d \in Device, NEW p, DonePeer(d, p)
      PROVE  sync' \in [Device -> SyncState] /\ FileInHand'
  <2>1. sync[d].peers \ {p} \in SUBSET Device
    BY <1>0 DEF TypeOK, SyncState
  <2> QED BY <1>x, <2>1, ImportingType, SetSyncType DEF DonePeer
<1>16. ASSUME NEW d \in Device, NEW p \in Device, MergeFails(d, p)
       PROVE  Types'
  BY <1>16, <1>0, <1>f, <1>q, <1>x DEF MergeFails, Types, TypeOK
<1>18. ASSUME NEW d \in Device, NEW p \in Device, NEW k \in Key, RejectPeerRow(d, p, k)
       PROVE  Types'
  BY <1>18, <1>0, <1>q, <1>x DEF RejectPeerRow, Types, TypeOK
<1>17. CASE UNCHANGED vars
  BY <1>17, <1>0 DEF vars, Types, TypeOK, FileInHand, UnstampedExist
<1> QED
  BY <1>1, <1>2, <1>3, <1>4, <1>5, <1>6, <1>7, <1>8, <1>9, <1>10, <1>11,
     <1>13, <1>14, <1>15, <1>16, <1>17, <1>18
  DEF Next, Edit, Stamp, Export, Import, Fault

\* In every reachable state each table, file and loop holds what its type says:
\* the type invariant of the run, for every value of the constants.
THEOREM TypesHold == Spec => []Types
<1> QED BY InitTypes, NextTypes, PTL DEF Spec

\* The type invariant of the run: tables, files, sidecars and loops hold what the
\* code puts in them, in any phase and after any failure.
THEOREM TypeCorrect == Spec => []TypeOK
<1>1. Types => TypeOK
  BY DEF Types
<1> QED BY <1>1, TypesHold, PTL

-----------------------------------------------------------------------------
(* Copies.  A file only ever holds rows that are circulating already. *)

\* Every row a file holds is a copy some database, file or loop has.
Sourced(f) == \A k \in Key : f.rows[k] = NoRow \/ f.rows[k] \in Copies(k)

\* What is in the folder or in a loop's hands is a whole snapshot.
LEMMA FilesAreSnapshots == ASSUME Types PROVE Files \subseteq Snapshot
BY DEF Types, TypeOK, Files, SyncState, File

\* Copies are rows, and each device's row has its copy among them.
LEMMA CopiesAreRows ==
    ASSUME Types, NEW k \in Key
    PROVE  /\ Copies(k) \subseteq Row
           /\ \A d \in Device : db[d][k] # NoRow => Published(db[d][k]) \in Copies(k)
<1>1. \A d \in Device : db[d][k] \in MaybeRow
  BY DEF Types, TypeOK, Rows
<1>2. \A f \in Files : f.rows[k] \in MaybeRow
  BY FilesAreSnapshots DEF Snapshot, Rows
<1>3. \A d \in Device : Published(db[d][k]) \in MaybeRow
                        /\ (db[d][k] # NoRow => Published(db[d][k]) # NoRow)
  BY <1>1, PublishedKeepsClock
<1> QED BY <1>2, <1>3 DEF Copies, MaybeRow

\* By definition: the rows of a file are copies themselves.
LEMMA FilesAreSourced == \A f \in Files : Sourced(f)
BY DEF Sourced, Copies

\* The empty file has no row that would need a source.
LEMMA EmptySnapshotSourced == Sourced(EmptySnapshot)
BY DEF EmptySnapshot, Sourced

\* If every file after a step was one before, or is made of copies there were
\* before, the step brings into circulation only what the databases now hold.
LEMMA CopiesFromDatabases ==
    ASSUME Types', \A f \in Files' : Sourced(f), NEW k \in Key
    PROVE  Copies(k)' \subseteq Copies(k) \union {Published(db'[d][k]) : d \in Device}
BY DEF Copies, Sourced

\* Circulating copies are published ones: a dead copy has no payload.
TombstonesBare == \A k \in Key : \A a \in Copies(k) : Published(a) = a

\* A loop that takes a sourced file in hand leaves every file sourced.
LEMMA SetSyncSourced ==
    ASSUME Types, NEW d \in Device, NEW s, SetSync(d, s), UNCHANGED snapshots,
           s.file \in {NoFile, Torn} \/ Sourced(s.file)
    PROVE  \A f \in Files' : Sourced(f)
<1> SUFFICES ASSUME NEW f \in Files' PROVE Sourced(f)
  OBVIOUS
<1>1. CASE \E e \in Device : f \in snapshots[e]
  BY <1>1, FilesAreSourced DEF Files
<1>2. CASE f \notin {NoFile, Torn} /\ \E e \in Device : f = sync'[e].file
  <2>1. PICK e \in Device : f = sync'[e].file
    BY <1>2
  <2>2. CASE e = d
    BY <1>2, <2>1, <2>2 DEF SetSync, Types, TypeOK
  <2>3. CASE e # d
    <3>1. f = sync[e].file
      BY <2>1, <2>3 DEF SetSync, Types, TypeOK
    <3> QED BY <1>2, <3>1, FilesAreSourced DEF Files
  <2> QED BY <2>2, <2>3
<1> QED BY <1>1, <1>2 DEF Files

\* Going on to import leaves nothing in hand but the empty file.
LEMMA ImportingSourced ==
    ASSUME NEW peers PROVE Importing(peers).file = NoFile \/ Sourced(Importing(peers).file)
BY EmptySnapshotSourced DEF Importing, Asleep

\* No step brings a row into circulation that no database holds.
LEMMA StepSourced ==
    ASSUME Types, [Next]_vars
    PROVE  \A f \in Files' : Sourced(f)
<1> USE DEF folder
<1>0. Types'
  BY NextTypes
<1>1. ASSUME UNCHANGED <<snapshots, sync>> PROVE \A f \in Files' : Sourced(f)
  BY <1>1, FilesAreSourced DEF Files
<1>2. ASSUME NEW d \in Device, NEW peers, SetSync(d, Importing(peers)), UNCHANGED snapshots
      PROVE  \A f \in Files' : Sourced(f)
  BY <1>2, ImportingSourced, SetSyncSourced
<1>3. ASSUME NEW d \in Device, sync[d].file \in Snapshot
      PROVE  Sourced(sync[d].file)
  <2>1. sync[d].file \in Files
    BY <1>3, FileAssumption DEF Files
  <2> QED BY <2>1, FilesAreSourced
<1>4. ASSUME NEW d \in Device, NEW p, NEW todo, sync[d].file \in Snapshot,
             Merging(d, p, todo), UNCHANGED snapshots
      PROVE  \A f \in Files' : Sourced(f)
  <2>1. CASE todo = {}
    BY <1>4, <1>2, <2>1 DEF Merging, DonePeer
  <2>2. CASE todo # {}
    <3> DEFINE s == [sync[d] EXCEPT !.pc = "merging", !.todo = todo]
    <3>1. s.file = sync[d].file
      BY DEF Types, TypeOK, SyncState
    <3>2. SetSync(d, s)
      BY <1>4, <2>2 DEF Merging
    <3> HIDE DEF s
    <3> QED BY <1>3, <1>4, <3>1, <3>2, SetSyncSourced
  <2> QED BY <2>1, <2>2
<1>5. ASSUME NEW d \in Device, NEW k \in Key, ReadTable(d, k)
      PROVE  \A f \in Files' : Sourced(f)
  <2> DEFINE s == [sync[d] EXCEPT !.todo = @ \ {k},
                                  !.file.rows[k] = Published(db[d][k])]
  <2>1. sync[d].file \in Snapshot /\ sync[d] \in SyncState
    BY <1>5 DEF ReadTable, Types, FileInHand, TypeOK
  <2>2. \A j \in Key : s.file.rows[j] =
            IF j = k THEN Published(db[d][k]) ELSE sync[d].file.rows[j]
    BY <2>1 DEF Snapshot, Rows, SyncState
  <2>3. Published(db[d][k]) = NoRow \/ Published(db[d][k]) \in Copies(k)
    BY DEF Copies
  <2>4. SetSync(d, s)
    BY <1>5 DEF ReadTable
  <2>5. Sourced(s.file)
    BY <1>3, <2>1, <2>2, <2>3 DEF Sourced
  <2> HIDE DEF s
  <2> QED BY <1>5, <2>4, <2>5, SetSyncSourced DEF ReadTable
<1>6. ASSUME NEW d \in Device, NEW now \in HeaderTime, WriteSnapshot(d, now)
      PROVE  \A f \in Files' : Sourced(f)
  <2> DEFINE file == [sync[d].file EXCEPT !.at = now]
             s == [sync[d] EXCEPT !.pc = "snapped", !.file = file]
  <2>1. CASE meta[d] = Checksum(file)
    BY <1>6, <2>1, <1>2 DEF WriteSnapshot
  <2>2. CASE meta[d] # Checksum(file)
    <3>1. sync[d].file \in Snapshot /\ sync[d] \in SyncState
      BY <1>6 DEF WriteSnapshot, Types, FileInHand, TypeOK
    <3>2. Sourced(file)
      BY <3>1, <1>3 DEF Snapshot, Sourced
    <3>3. s.file = file
      BY <3>1 DEF SyncState
    <3>4. SetSync(d, s) /\ snapshots' = [snapshots EXCEPT ![d] = @ \union {file}]
      BY <1>6, <2>2 DEF WriteSnapshot
    <3> HIDE DEF s, file
    <3>5. \A e \in Device : \A f \in snapshots'[e] : Sourced(f)
      BY <3>2, <3>4, FilesAreSourced DEF Types, TypeOK, Files
    <3>6. \A e \in Device : sync'[e].file \in {NoFile, Torn} \/ Sourced(sync'[e].file)
      <4>1. \A e \in Device : sync[e].file \in {NoFile, Torn} \/ Sourced(sync[e].file)
        BY FilesAreSourced DEF Files
      <4> QED BY <3>2, <3>3, <3>4, <4>1 DEF SetSync, Types, TypeOK
    <3> QED BY <3>5, <3>6 DEF Files
  <2> QED BY <2>1, <2>2
<1>7. ASSUME NEW d \in Device, NEW p \in Device, NEW file \in snapshots[p] \union {Torn},
             ReadPeer(d, p, file)
      PROVE  \A f \in Files' : Sourced(f)
  <2> DEFINE s == [sync[d] EXCEPT !.pc = "checking", !.file = file]
  <2>1. s.file = file
    BY DEF Types, TypeOK, SyncState
  <2>2. file = Torn \/ Sourced(file)
    BY FilesAreSourced DEF Files
  <2>3. SetSync(d, s)
    BY <1>7 DEF ReadPeer
  <2> HIDE DEF s
  <2> QED BY <1>7, <2>1, <2>2, <2>3, SetSyncSourced DEF ReadPeer
<1>8. ASSUME NEW d \in Device, NEW p \in Device, NEW sidecar, CheckPeer(d, p, sidecar)
      PROVE  \A f \in Files' : Sourced(f)
  <2>1. CASE sync[d].file # Torn /\ sidecar = Checksum(sync[d].file)
    <3>1. sync[d].file \in Snapshot
      BY <1>8, <2>1 DEF CheckPeer, Types, FileInHand
    <3> QED BY <1>8, <2>1, <3>1, <1>4 DEF CheckPeer
  <2>2. CASE ~(sync[d].file # Torn /\ sidecar = Checksum(sync[d].file))
    BY <1>8, <2>2, <1>2 DEF CheckPeer, DonePeer
  <2> QED BY <2>1, <2>2
<1>9. ASSUME NEW d \in Device, NEW p \in Device, NEW k \in Key, MergePeerRow(d, p, k)
      PROVE  \A f \in Files' : Sourced(f)
  <2>1. sync[d].file \in Snapshot
    BY <1>9 DEF MergePeerRow, Types, FileInHand
  <2> QED BY <1>9, <2>1, <1>4 DEF MergePeerRow
<1>10. Asleep = Importing({})
  BY DEF Importing
<1>11. ASSUME NEW d \in Device, Edit(d) \/ Stamp(d) PROVE \A f \in Files' : Sourced(f)
  BY <1>1, <1>11 DEF Edit, Stamp, InsertRow, UpdateRow, Touch, Tombstone, AddMember
<1>12. ASSUME NEW d \in Device, Export(d) PROVE \A f \in Files' : Sourced(f)
  BY <1>2, <1>5, <1>6, <1>12 DEF Export, WriteMeta
<1>13. ASSUME NEW d \in Device, Import(d) PROVE \A f \in Files' : Sourced(f)
  BY <1>2, <1>7, <1>8, <1>9, <1>13 DEF Import, RejectPeerRow, DonePeer
<1>14. ASSUME NEW d \in Device, Fault(d) PROVE \A f \in Files' : Sourced(f)
  BY <1>1, <1>2, <1>10, <1>14 DEF Fault, Crash, TouchFails, ExportFails, MergeFails, DonePeer
<1> QED BY <1>1, <1>11, <1>12, <1>13, <1>14 DEF Next, vars

\* A step's new copies of a row are rows that databases hold after it.
LEMMA StepCopies ==
    ASSUME Types, [Next]_vars, NEW k \in Key
    PROVE  Copies(k)' \subseteq Copies(k) \union {Published(db'[d][k]) : d \in Device}
BY NextTypes, StepSourced, CopiesFromDatabases

-----------------------------------------------------------------------------
(* Rows.  The three ways a device's row k changes in a step. *)

OnlyRow(d, k) == db' = [db EXCEPT ![d][k] = db'[d][k]]

\* A payload write the device has yet to stamp; its clock is a draft's.
Drafted(d, k) ==
    LET old == db[d][k]  new == db'[d][k] IN
    /\ new \in Row
    /\ <<k, new.ua, new.ub>> \in drafts'
    /\ k \notin unstamped[d]
    /\ unstamped' = [unstamped EXCEPT ![d] = @ \union {k}]
    /\ IF old = NoRow THEN new.ub = Nobody
                      ELSE SameClock(new, old) /\ new.deleted = old.deleted

Stamped(d, k) ==
    LET old == db[d][k]  new == db'[d][k] IN
    /\ new \in Row
    /\ new.ub = d
    /\ old # NoRow => new.ua > old.ua

Merged(d, k) ==
    LET old == db[d][k]  new == db'[d][k] IN
    /\ new \in Row
    /\ \E c \in Copies(k) : Published(new) = Published(c)
    /\ old # NoRow => Newer(new, old)

\* No device owes a stamp it did not owe before.
NothingOwed == \A d \in Device : unstamped'[d] \subseteq unstamped[d]

RowChange(d, k) ==
    /\ OnlyRow(d, k)
    /\ \/ Drafted(d, k)
       \/ NothingOwed /\ (Stamped(d, k) \/ Merged(d, k))

\* SetRow changes one row of one device.
LEMMA SetRowOnly ==
    ASSUME TypeOK, NEW d \in Device, NEW k \in Key, NEW r, SetRow(d, k, r)
    PROVE  OnlyRow(d, k) /\ db'[d][k] = r
BY DEF TypeOK, Rows, SetRow, OnlyRow

\* In a step at most one row of one device changes, in one of the three ways.
LEMMA StepRows ==
    ASSUME Types, [Next]_vars
    PROVE  /\ drafts \subseteq drafts'
           /\ \/ db' = db /\ NothingOwed
              \/ \E d \in Device, k \in Key : RowChange(d, k)
<1> USE DEF folder
<1>0. TypeOK
  BY DEF Types
<1>1. ASSUME NEW d \in Device, NEW k \in Key, db[d][k] # NoRow PROVE db[d][k] \in Row
  BY <1>1, <1>0 DEF TypeOK, Rows, MaybeRow
<1>t. Time \subseteq Nat
  BY DEF Time
<1>2. ASSUME NEW d \in Device, NEW k \in Key, NEW v \in Value, InsertRow(d, k, v)
      PROVE  drafts \subseteq drafts' /\ RowChange(d, k)
  <2>1. Unstamped(v) \in Row /\ Unstamped(v).ub = Nobody
    BY DEF Unstamped, Row, Content
  <2>2. OnlyRow(d, k) /\ db'[d][k] = Unstamped(v) /\ db[d][k] = NoRow
    BY <1>0, <1>2, SetRowOnly DEF InsertRow, WrittenUnstamped
  <2>3. drafts' = drafts \union {<<k, Unstamped(v).ua, Unstamped(v).ub>>}
    BY <1>2 DEF InsertRow, WrittenUnstamped
  <2>4. k \notin unstamped[d] /\ unstamped' = [unstamped EXCEPT ![d] = @ \union {k}]
    BY <1>2, <2>2 DEF InsertRow, WrittenUnstamped, Types, UnstampedExist
  <2> QED BY <2>1, <2>2, <2>3, <2>4 DEF RowChange, Drafted
<1>3. ASSUME NEW d \in Device, NEW k \in Key, NEW v \in Value, UpdateRow(d, k, v)
      PROVE  drafts \subseteq drafts' /\ RowChange(d, k)
  <2> DEFINE r == [db[d][k] EXCEPT !.val = v]
  <2>1. db[d][k] # NoRow /\ db[d][k] \in Row
    BY <1>1, <1>3 DEF UpdateRow
  <2>2. r \in Row /\ SameClock(r, db[d][k]) /\ r.deleted = db[d][k].deleted
    BY <2>1 DEF Row, Content, SameClock
  <2>3. WrittenUnstamped(d, k, r) /\ k \notin unstamped[d]
    BY <1>3 DEF UpdateRow
  <2> HIDE DEF r
  <2>4. OnlyRow(d, k) /\ db'[d][k] = r
    BY <1>0, <2>3, SetRowOnly DEF WrittenUnstamped
  <2>5. k \notin unstamped[d] /\ unstamped' = [unstamped EXCEPT ![d] = @ \union {k}]
    BY <2>3 DEF WrittenUnstamped
  <2>6. drafts' = drafts \union {<<k, r.ua, r.ub>>}
    BY <2>3 DEF WrittenUnstamped
  <2> QED BY <2>1, <2>2, <2>4, <2>5, <2>6 DEF RowChange, Drafted
<1>4. ASSUME NEW d \in Device, NEW k \in Key, NEW now \in Nat, NEW dead \in BOOLEAN,
             db[d][k] # NoRow, SetRow(d, k, StampRow(db[d][k], now, d, dead)), NothingOwed
      PROVE  RowChange(d, k)
  <2>1. db[d][k] \in Row
    BY <1>1, <1>4
  <2> QED BY <1>0, <1>4, <2>1, SetRowOnly, StampRowAdvances DEF RowChange, Stamped
<1>5. ASSUME NEW d \in Device, NEW k \in unstamped[d], NEW now \in Time, Touch(d, k, now)
      PROVE  drafts' = drafts /\ k \in Key /\ RowChange(d, k)
  <2>1. k \in Key /\ db[d][k] # NoRow
    BY DEF Types, TypeOK, UnstampedExist
  <2>2. NothingOwed
    BY <1>0, <1>5 DEF Touch, NothingOwed, TypeOK
  <2> QED BY <1>t, <1>4, <1>5, <2>1, <2>2 DEF Touch
<1>6. ASSUME NEW d \in Device, NEW k \in Key, NEW now \in Time, Tombstone(d, k, now)
      PROVE  drafts' = drafts /\ RowChange(d, k)
  BY <1>t, <1>4, <1>6 DEF Tombstone, NothingOwed
<1>7. ASSUME NEW d \in Device, NEW k \in Key, NEW now \in Time, AddMember(d, k, now)
      PROVE  drafts' = drafts /\ RowChange(d, k)
  <2>1. db[d][k] \in MaybeRow
    BY <1>0 DEF TypeOK, Rows
  <2>2. SetRow(d, k, UpsertJunction(db[d][k], now, d)) /\ UNCHANGED <<drafts, unstamped>>
    BY <1>7 DEF AddMember
  <2> QED BY <1>0, <1>t, <2>1, <2>2, SetRowOnly, UpsertJunctionAdvances
          DEF RowChange, Stamped, NothingOwed
<1>8. ASSUME NEW d \in Device, NEW p \in Device, NEW k \in Key, MergePeerRow(d, p, k)
      PROVE  UNCHANGED <<drafts, unstamped>> /\ (db' = db \/ RowChange(d, k))
  <2> DEFINE in == Landing(d, k)
             r == MergeRow(db[d][k], in)
  <2>1. in \in Row /\ db[d][k] \in MaybeRow
    BY <1>0, <1>8, LandingType DEF MergePeerRow, IsFirst, TypeOK, Rows
  <2>2. \E c \in Copies(k) : Published(in) = Published(c)
    <3>1. /\ sync[d].file \in Snapshot /\ sync[d].file.rows[k] \in Row
          /\ Published(in) = Published(sync[d].file.rows[k])
      BY <1>8, LandingType DEF MergePeerRow, IsFirst
    <3>2. sync[d].file.rows[k] \in Copies(k)
      BY <3>1, FileAssumption, NoRowAssumption DEF Copies, Files
    <3> QED BY <3>1, <3>2
  <2>4. OnlyRow(d, k) /\ db'[d][k] = r
    BY <1>0, <1>8, SetRowOnly DEF MergePeerRow
  <2>5. r \in {db[d][k], in} \ {NoRow}
    BY <2>1, MergeRowAdvances
  <2>6. db[d][k] # NoRow /\ r # db[d][k] => Newer(r, db[d][k])
    BY <2>1, MergeRowAdvances
  <2>7. CASE r = db[d][k]
    BY <1>0, <1>8, <2>4, <2>7 DEF OnlyRow, MergePeerRow, TypeOK, Rows
  <2>8. CASE r # db[d][k]
    <3>1. r = in
      BY <2>5, <2>8
    <3>2. Merged(d, k)
      BY <2>1, <2>2, <2>4, <2>6, <2>8, <3>1 DEF Merged
    <3> QED BY <1>8, <2>4, <3>2 DEF RowChange, MergePeerRow, NothingOwed
  <2> QED BY <2>7, <2>8
<1>9. ASSUME NEW d \in Device, Import(d)
      PROVE  UNCHANGED <<drafts, unstamped>> /\ (db' = db \/ \E k \in Key : RowChange(d, k))
  <2>1. ASSUME NEW p \in Device, NEW file, ReadPeer(d, p, file) \/ CheckPeer(d, p, file)
        PROVE  UNCHANGED <<db, drafts, unstamped>>
    BY <2>1 DEF ReadPeer, CheckPeer
  <2>2. ASSUME NEW p \in Device, NEW k \in Key, RejectPeerRow(d, p, k)
        PROVE  UNCHANGED <<db, drafts, unstamped>>
    BY <2>2 DEF RejectPeerRow
  <2> QED BY <1>8, <1>9, <2>1, <2>2 DEF Import
<1>10. ASSUME NEW d \in Device, Export(d) \/ Fault(d)
       PROVE  UNCHANGED <<db, drafts>> /\ NothingOwed
  BY <1>0, <1>10 DEF NothingOwed, TypeOK, Export, Fault, ReadTable, WriteSnapshot, WriteMeta,
               Crash, TouchFails, ExportFails, MergeFails
<1> QED
  BY <1>2, <1>3, <1>5, <1>6, <1>7, <1>9, <1>10 DEF Next, Edit, Stamp, vars, NothingOwed

-----------------------------------------------------------------------------
(* Clocks.  Which clocks there are, and who made them. *)

\* A copy whose clock has no owner was written and never stamped.
UnownedAreDrafts ==
    \A k \in Key : \A a \in Copies(k) : a.ub = Nobody => <<k, a.ua, a.ub>> \in drafts

\* The inductive invariant: what makes a stamp new wherever copies are is that
\* the stamping device is ahead of every copy it ever stamped.
Clocks ==
    Types /\ TombstonesBare /\ UnownedAreDrafts /\ AuthorLeads /\ SameClockSameVersion

\* d is the device that has written row k in this step, stamped or not.
Wrote(d, k) == OnlyRow(d, k) /\ (Drafted(d, k) \/ Stamped(d, k))

\* Whatever a step does to a row it had, the row stays and its time does not fall.
LEMMA RowsStay ==
    ASSUME Types, [Next]_vars, NEW d \in Device, NEW k \in Key, db[d][k] # NoRow
    PROVE  db'[d][k] # NoRow /\ db'[d][k].ua >= db[d][k].ua
<1>0. db[d][k] \in Row
  BY DEF Types, TypeOK, Rows, MaybeRow
<1>1. CASE db' = db
  BY <1>0, <1>1 DEF Row
<1>2. ASSUME NEW e \in Device, NEW j \in Key, RowChange(e, j)
      PROVE  db'[d][k] # NoRow /\ db'[d][k].ua >= db[d][k].ua
  <2>1. CASE e = d /\ j = k
    <3>1. db'[d][k] \in Row
      BY <1>2, <2>1, CopiesAreRows DEF RowChange, Drafted, Stamped, Merged
    <3>2. db'[d][k].ua >= db[d][k].ua
      BY <1>0, <1>2, <2>1, <3>1 DEF RowChange, Drafted, Stamped, Merged, Newer, SameClock, Row
    <3> QED BY <3>1, <3>2, NoRowAssumption
  <2>2. CASE ~(e = d /\ j = k)
    <3>1. db'[d][k] = db[d][k]
      BY <1>2, <2>2 DEF RowChange, OnlyRow, Types, TypeOK, Rows
    <3> QED BY <1>0, <3>1 DEF Row
  <2> QED BY <2>1, <2>2
<1> QED BY <1>1, <1>2, StepRows

\* The copies of a row after a step are the ones before it, and at most one
\* more: what some device has just written.
LEMMA StepNewCopy ==
    ASSUME Types, TombstonesBare, [Next]_vars, NEW k \in Key
    PROVE  \/ Copies(k)' \subseteq Copies(k)
           \/ \E d \in Device :
                 /\ Wrote(d, k)
                 /\ Copies(k)' \subseteq Copies(k) \union {Published(db'[d][k])}
<1>0. Types' /\ Copies(k)' \subseteq Copies(k) \union {Published(db'[d][k]) : d \in Device}
  BY NextTypes, StepCopies
<1>1. NoRow \notin Copies(k)'
  BY DEF Copies
<1>2. ASSUME NEW e \in Device, db'[e][k] = db[e][k]
      PROVE  Published(db'[e][k]) \in Copies(k) \union {NoRow}
  BY <1>2 DEF Copies
<1>3. CASE db' = db
  BY <1>0, <1>1, <1>2, <1>3
<1>4. ASSUME NEW d \in Device, NEW j \in Key, RowChange(d, j)
      PROVE  \/ Copies(k)' \subseteq Copies(k)
             \/ /\ Wrote(d, k)
                /\ Copies(k)' \subseteq Copies(k) \union {Published(db'[d][k])}
  <2>1. \A e \in Device : e # d \/ j # k => db'[e][k] = db[e][k]
    BY <1>4 DEF RowChange, OnlyRow, Types, TypeOK, Rows
  <2>2. CASE j # k
    BY <1>0, <1>1, <1>2, <2>1, <2>2
  <2>3. CASE j = k
    <3>1. Copies(k)' \subseteq Copies(k) \union {Published(db'[d][k])}
      BY <1>0, <1>1, <1>2, <2>1
    <3>2. CASE Merged(d, k)
      <4>1. Published(db'[d][k]) \in Copies(k)
        BY <3>2 DEF Merged, TombstonesBare
      <4> QED BY <3>1, <4>1
    <3>3. CASE Drafted(d, k) \/ Stamped(d, k)
      BY <1>4, <2>3, <3>1, <3>3 DEF RowChange, Wrote
    <3> QED BY <1>4, <2>3, <3>2, <3>3 DEF RowChange
  <2> QED BY <2>2, <2>3
<1> QED BY <1>3, <1>4, StepRows

\* A stamp is new: no copy anywhere carries the clock a device stamps.
LEMMA StampIsNew ==
    ASSUME Clocks, NEW d \in Device, NEW k \in Key, Stamped(d, k), NEW c \in Copies(k)
    PROVE  ~SameClock(c, db'[d][k])
<1> SUFFICES ASSUME SameClock(c, db'[d][k]) PROVE FALSE
  OBVIOUS
<1>1. c \in Row /\ c.ub = d /\ c.ua = db'[d][k].ua /\ db'[d][k] \in Row
  BY CopiesAreRows DEF SameClock, Stamped, Clocks
<1>2. d # Nobody
  BY DeviceAssumption DEF Nobody
<1>3. db[d][k] # NoRow /\ c.ua <= db[d][k].ua
  BY <1>1, <1>2 DEF Clocks, AuthorLeads
<1>4. db[d][k] \in Row /\ db'[d][k].ua > db[d][k].ua
  BY <1>3 DEF Stamped, Clocks, Types, TypeOK, Rows, MaybeRow
<1> QED BY <1>1, <1>3, <1>4 DEF Row

\* Before anything is written there is no copy of any row.
LEMMA InitNoCopies == ASSUME Init, NEW k \in Key PROVE Copies(k) = {}
<1>1. \A f \in Files : f = EmptySnapshot
  BY DEF Init, Files, Asleep
<1>2. \A d \in Device : Published(db[d][k]) = NoRow
  BY DEF Init, Published
<1> QED BY <1>1, <1>2 DEF Copies, EmptySnapshot

\* The invariant holds when there is no copy of anything.
LEMMA InitClocks == Init => Clocks
BY InitTypes, InitNoCopies
DEF Clocks, TombstonesBare, UnownedAreDrafts, AuthorLeads, SameClockSameVersion

\* Every step keeps the invariant.
LEMMA NextClocks == Clocks /\ [Next]_vars => Clocks'
<1> SUFFICES ASSUME Clocks, [Next]_vars PROVE Clocks'
  OBVIOUS
<1>0. Types /\ TombstonesBare /\ UnownedAreDrafts /\ AuthorLeads /\ SameClockSameVersion
  BY DEF Clocks
<1>1. Types'
  BY <1>0, NextTypes
<1>2. drafts \subseteq drafts'
  BY <1>0, StepRows
<1>3. \A k \in Key : Copies(k) \subseteq Row
  BY <1>0, CopiesAreRows
<1>n. Nobody \notin Device
  BY DeviceAssumption DEF Nobody
\* What a device has written goes into circulation under the clock it has there.
<1>4. ASSUME NEW d \in Device, NEW k \in Key, Wrote(d, k)
      PROVE  /\ db'[d][k] \in Row
             /\ SameClock(Published(db'[d][k]), db'[d][k])
             /\ Published(Published(db'[d][k])) = Published(db'[d][k])
  BY <1>4, NoRowAssumption, PublishedKeepsClock DEF Wrote, Drafted, Stamped, MaybeRow
<1>5. TombstonesBare'
  <2> SUFFICES ASSUME NEW k \in Key, NEW a \in Copies(k)' PROVE Published(a) = a
    BY DEF TombstonesBare
  <2>1. CASE a \in Copies(k)
    BY <1>0, <2>1 DEF TombstonesBare
  <2>2. ASSUME NEW d \in Device, Wrote(d, k), a = Published(db'[d][k])
        PROVE  Published(a) = a
    BY <1>4, <2>2
  <2> QED BY <1>0, <2>1, <2>2, StepNewCopy
<1>6. UnownedAreDrafts'
  <2> SUFFICES ASSUME NEW k \in Key, NEW a \in Copies(k)', a.ub = Nobody
               PROVE  <<k, a.ua, a.ub>> \in drafts'
    BY DEF UnownedAreDrafts
  <2>1. CASE a \in Copies(k)
    BY <1>0, <1>2, <2>1 DEF UnownedAreDrafts
  <2>2. ASSUME NEW d \in Device, Wrote(d, k), a = Published(db'[d][k])
        PROVE  <<k, a.ua, a.ub>> \in drafts'
    BY <1>4, <1>n, <2>2 DEF Wrote, Drafted, Stamped, SameClock
  <2> QED BY <1>0, <2>1, <2>2, StepNewCopy
\* A copy the author was ahead of before the step, the author is still ahead of.
<1>7. ASSUME NEW k \in Key, NEW a \in Copies(k), a.ub # Nobody
      PROVE  db'[a.ub][k] # NoRow /\ a.ua <= db'[a.ub][k].ua
  <2>1. a \in Row /\ a.ub \in Device
    BY <1>3, <1>7 DEF Row
  <2>2. db[a.ub][k] # NoRow /\ a.ua <= db[a.ub][k].ua
    BY <1>0, <1>7 DEF AuthorLeads
  <2>3. db'[a.ub][k] # NoRow /\ db'[a.ub][k].ua >= db[a.ub][k].ua
    BY <1>0, <2>1, <2>2, RowsStay
  <2>4. db[a.ub][k] \in Row /\ db'[a.ub][k] \in Row
    BY <1>0, <1>1, <2>1, <2>2, <2>3 DEF Types, TypeOK, Rows, MaybeRow
  <2> QED BY <2>1, <2>2, <2>3, <2>4 DEF Row
<1>8. AuthorLeads'
  <2> SUFFICES ASSUME NEW k \in Key, NEW a \in Copies(k)', a.ub # Nobody
               PROVE  db'[a.ub][k] # NoRow /\ a.ua <= db'[a.ub][k].ua
    BY DEF AuthorLeads
  <2>1. CASE a \in Copies(k)
    BY <1>7, <2>1
  <2>2. ASSUME NEW d \in Device, Wrote(d, k), a = Published(db'[d][k])
        PROVE  db'[a.ub][k] # NoRow /\ a.ua <= db'[a.ub][k].ua
    <3>1. a.ua = db'[d][k].ua /\ a.ub = db'[d][k].ub /\ db'[d][k] \in Row
      BY <1>4, <2>2 DEF SameClock
    <3>2. CASE Stamped(d, k)
      BY <3>1, <3>2, NoRowAssumption DEF Stamped, Row
    <3>3. CASE Drafted(d, k)
      <4>1. db[d][k] # NoRow /\ SameClock(db'[d][k], db[d][k])
        BY <2>2, <3>1, <3>3 DEF Drafted
      <4>2. db[d][k] \in MaybeRow
        BY <1>0 DEF Types, TypeOK, Rows
      <4>3. Published(db[d][k]) \in Copies(k) /\ SameClock(Published(db[d][k]), db[d][k])
        BY <1>0, <4>1, <4>2, CopiesAreRows, PublishedKeepsClock
      <4>4. Published(db[d][k]).ub = a.ub /\ Published(db[d][k]).ua = a.ua
        BY <3>1, <4>1, <4>3 DEF SameClock
      <4> QED BY <1>7, <2>2, <4>3, <4>4
    <3> QED BY <2>2, <3>2, <3>3 DEF Wrote
  <2> QED BY <1>0, <2>1, <2>2, StepNewCopy
<1>9. SameClockSameVersion'
  <2> SUFFICES ASSUME NEW k \in Key, NEW a \in Copies(k)', NEW b \in Copies(k)',
                      SameClock(a, b), <<k, a.ua, a.ub>> \notin drafts'
               PROVE  a = b
    BY DEF SameClockSameVersion
  <2>1. CASE a \in Copies(k) /\ b \in Copies(k)
    BY <1>0, <1>2, <2>1 DEF SameClockSameVersion
  <2>2. ASSUME NEW d \in Device, Wrote(d, k),
               Copies(k)' \subseteq Copies(k) \union {Published(db'[d][k])},
               ~(a \in Copies(k) /\ b \in Copies(k))
        PROVE  a = b
    <3> DEFINE new == Published(db'[d][k])
    <3>1. SameClock(a, new) /\ SameClock(b, new)
      BY <2>2 DEF SameClock
    <3>2. Stamped(d, k)
      BY <1>4, <2>2, <3>1 DEF Wrote, Drafted, SameClock
    <3>3. \A c \in Copies(k) : ~SameClock(c, new)
      BY <1>4, <2>2, <3>2, StampIsNew DEF SameClock
    <3> QED BY <2>2, <3>1, <3>3
  <2> QED BY <1>0, <2>1, <2>2, StepNewCopy
<1> QED BY <1>1, <1>5, <1>6, <1>8, <1>9 DEF Clocks

\* In every reachable state the clocks of all copies are in order.
THEOREM ClocksHold == Spec => []Clocks
<1> QED BY InitClocks, NextClocks, PTL DEF Spec

\* Copies under one stamped clock are the same version, on any devices, in any
\* files: merge_row may ignore a copy that ties (sync_sql.rs merge_row).
THEOREM ClockNamesVersion == Spec => []SameClockSameVersion
<1>1. Clocks => SameClockSameVersion
  BY DEF Clocks
<1> QED BY <1>1, ClocksHold, PTL

\* No device ever meets a copy it stamped that is ahead of its own row.
THEOREM AuthorIsAhead == Spec => []AuthorLeads
<1>1. Clocks => AuthorLeads
  BY DEF Clocks
<1> QED BY <1>1, ClocksHold, PTL

\* No step takes a row back, on any device (local stamps and merges alike).
THEOREM RowsNeverGoBack == Spec => RowsOnlyAdvance
<1>1. Types /\ [Next]_vars =>
        [\A d \in Device, k \in Key :
           LET old == db[d][k]  new == db'[d][k] IN
           old # NoRow /\ new # old =>
               /\ new # NoRow
               /\ \/ Newer(new, old)
                  \/ SameClock(new, old) /\ k \in unstamped'[d] \ unstamped[d]]_vars
  <2> SUFFICES ASSUME Types, [Next]_vars, NEW d \in Device, NEW k \in Key,
                      db[d][k] # NoRow, db'[d][k] # db[d][k]
               PROVE  /\ db'[d][k] # NoRow
                      /\ \/ Newer(db'[d][k], db[d][k])
                         \/ /\ SameClock(db'[d][k], db[d][k])
                            /\ k \in unstamped'[d] \ unstamped[d]
    OBVIOUS
  <2>1. db'[d][k] # NoRow
    BY RowsStay
  <2>2. PICK e \in Device, j \in Key : RowChange(e, j)
    BY StepRows
  <2>3. e = d /\ j = k
    BY <2>2 DEF RowChange, OnlyRow, Types, TypeOK, Rows
  <2> QED BY <2>1, <2>2, <2>3 DEF RowChange, Drafted, Stamped, Merged, Newer, Types, TypeOK
<1> QED BY <1>1, TypesHold, PTL DEF Spec, RowsOnlyAdvance

-----------------------------------------------------------------------------
(* The sync engine implements last-writer-wins registers. *)

\* Nothing is circulating at first.
LEMMA InitRegisters == Init => Registers!LwwInit
<1> SUFFICES ASSUME Init PROVE Registers!LwwInit
  OBVIOUS
<1>1. \A d \in Device, k \in Key : Published(db[d][k]) = NoRow
  BY DEF Init, Published
<1>2. \A k \in Key : Copies(k) = {Published(db[d][k]) : d \in Device} \ {NoRow}
  BY <1>1, InitNoCopies
<1>3. \A d, e \in Device : db[d] = db[e]
  BY DEF Init
<1> QED BY <1>2, <1>3 DEF Init, Registers!LwwInit, Registers!Published, Published

\* Every step of a device, of a loop or of a failure is a step of the registers:
\* a payload write drafts, a stamp or a deletion writes, a merge adopts, and
\* whatever else the loop does changes no row.
LEMMA StepRegisters ==
    Clocks /\ [Next]_vars => [Registers!LwwNext]_(Registers!lwwVars)
<1> SUFFICES ASSUME Clocks, [Next]_vars PROVE Registers!LwwNext
  OBVIOUS
<1>0. Types /\ TypeOK
  BY DEF Clocks, Types
<1>1. Registers!NothingInvented
  BY <1>0, StepCopies DEF Registers!NothingInvented, Registers!Published, Published
<1> SUFFICES ASSUME NEW d \in Device, NEW k \in Key
             PROVE  \/ Registers!Begin(d, k)
                    \/ Registers!Draft(d, k)
                    \/ /\ Registers!NothingOwed(d, k)
                       /\ \/ Registers!Write(d, k)
                          \/ Registers!Adopt(d, k)
                          \/ db'[d][k] = db[d][k]
  BY <1>1 DEF Registers!LwwNext
<1>2. CASE db' = db /\ NothingOwed
  BY <1>2 DEF NothingOwed, Registers!NothingOwed
<1>3. ASSUME NEW e \in Device, NEW j \in Key, RowChange(e, j), <<e, j>> # <<d, k>>
      PROVE  Registers!NothingOwed(d, k) /\ db'[d][k] = db[d][k]
  <2>1. db'[d][k] = db[d][k]
    BY <1>0, <1>3 DEF RowChange, OnlyRow, TypeOK, Rows
  <2>2. Registers!NothingOwed(d, k)
    BY <1>0, <1>3 DEF RowChange, Drafted, NothingOwed, Registers!NothingOwed, TypeOK
  <2> QED BY <2>1, <2>2
<1>4. CASE OnlyRow(d, k) /\ Drafted(d, k)
  <2>1. k \in unstamped'[d] \ unstamped[d]
    BY <1>0, <1>4 DEF Drafted, TypeOK
  <2>2. db'[d][k] # NoRow
    BY <1>4, NoRowAssumption DEF Drafted
  <2> QED
    BY <1>4, <2>1, <2>2
       DEF Drafted, Registers!Begin, Registers!Draft, SameClock, Registers!SameClock,
           Nobody, Registers!Nobody
<1>5. CASE NothingOwed /\ Stamped(d, k)
  <2>1. db'[d][k] # NoRow /\ (db[d][k] # NoRow => Newer(db'[d][k], db[d][k]))
    BY <1>5, NoRowAssumption DEF Stamped, Newer
  <2>2. \A c \in Copies(k) : ~SameClock(c, db'[d][k])
    BY <1>5, StampIsNew
  <2>3. Registers!Write(d, k)
    BY <1>5, <2>1, <2>2
       DEF Stamped, Registers!Write, Newer, Registers!Newer, SameClock, Registers!SameClock
  <2> QED BY <1>5, <2>3 DEF NothingOwed, Registers!NothingOwed
<1>6. CASE NothingOwed /\ Merged(d, k)
  <2>1. Published(db'[d][k]) \in Copies(k)
    BY <1>6 DEF Merged, Clocks, TombstonesBare
  <2>2. Registers!Adopt(d, k)
    BY <1>6, <2>1, NoRowAssumption
       DEF Merged, Registers!Adopt, Newer, Registers!Newer, Published, Registers!Published
  <2> QED BY <1>6, <2>2 DEF NothingOwed, Registers!NothingOwed
<1> QED BY <1>0, <1>2, <1>3, <1>4, <1>5, <1>6, StepRows DEF RowChange

\* Merging snapshots row by row implements last-writer-wins registers, however
\* the cloud folder delays, repeats, reorders, rolls back or tears files, and
\* wherever a device crashes or a statement fails.
THEOREM Refinement == Spec => ImplementsRegisters
<1> QED BY InitRegisters, StepRegisters, ClocksHold, PTL
        DEF Spec, ImplementsRegisters, Registers!LwwSpec

-----------------------------------------------------------------------------
(* Files and their publisher. *)

\* Row k of file f, if it has one, is in p's database as in the file or newer; so are
\* all rows of f.
Has(p, f, k) == f.rows[k] # NoRow => db[p][k] # NoRow /\ ~Newer(f.rows[k], db[p][k])

Trails(p, f) == \A k \in Key : Has(p, f, k)

\* A snapshot trails its publisher once it is written because it does while it is
\* put together, table by table, from rows that only move on.
OwnFilesTrail ==
    \A p \in Device :
        /\ \A f \in snapshots[p] : Trails(p, f)
        /\ sync[p].pc \in {"reading", "snapped"} => Trails(p, sync[p].file)

\* A row that a device has from a file, it has for ever.
LEMMA HasStays ==
    ASSUME Types, [Next]_vars, NEW p \in Device, NEW f \in Snapshot, NEW k \in Key, Has(p, f, k)
    PROVE  Has(p, f, k)'
<1> SUFFICES ASSUME f.rows[k] # NoRow
             PROVE  db'[p][k] # NoRow /\ ~Newer(f.rows[k], db'[p][k])
  BY DEF Has
<1>1. db[p][k] # NoRow /\ ~Newer(f.rows[k], db[p][k])
  BY DEF Has
<1>2. db'[p][k] # NoRow
  BY <1>1, RowsStay
<1>3. f.rows[k] \in Row /\ db[p][k] \in Row /\ db'[p][k] \in Row
  BY <1>1, <1>2, NextTypes DEF Types, TypeOK, Rows, MaybeRow, Snapshot
<1>4. db'[p][k] = db[p][k] \/ SameClock(db'[p][k], db[p][k]) \/ Newer(db'[p][k], db[p][k])
  <2>1. CASE db' = db
    BY <2>1
  <2>2. ASSUME NEW d \in Device, NEW j \in Key, RowChange(d, j), ~(d = p /\ j = k)
        PROVE  db'[p][k] = db[p][k]
    BY <2>2 DEF RowChange, OnlyRow, Types, TypeOK, Rows
  <2>3. CASE RowChange(p, k)
    BY <1>1, <2>3 DEF RowChange, Drafted, Stamped, Merged, Newer
  <2> QED BY <2>1, <2>2, <2>3, StepRows
<1>5. \A x \in Device \union {Nobody} : x \in Nat
  BY DeviceAssumption DEF Nobody
<1>6. f.rows[k].ub \in Nat /\ db[p][k].ub \in Nat /\ db'[p][k].ub \in Nat
  BY <1>3, <1>5 DEF Row
<1>7. f.rows[k].ua \in Nat /\ db[p][k].ua \in Nat /\ db'[p][k].ua \in Nat
  BY <1>3 DEF Row
<1> QED BY <1>1, <1>2, <1>4, <1>6, <1>7 DEF Newer, SameClock

\* A file that trails its publisher trails it for ever.
LEMMA TrailsStay ==
    ASSUME Types, [Next]_vars, NEW p \in Device, NEW f \in Snapshot, Trails(p, f)
    PROVE  Trails(p, f)'
BY HasStays DEF Trails

\* The empty file trails anyone.
LEMMA EmptySnapshotTrails == ASSUME NEW p \in Device PROVE Trails(p, EmptySnapshot)
BY DEF Trails, Has, EmptySnapshot

\* At first there is no file but the empty ones in the loops' hands.
LEMMA InitOwnFiles == Init => OwnFilesTrail
<1>1. ASSUME Init, NEW p \in Device
      PROVE  snapshots[p] = {} /\ sync[p].file = EmptySnapshot
  BY <1>1 DEF Init, Asleep
<1> QED BY <1>1, EmptySnapshotTrails DEF OwnFilesTrail

\* Every step keeps it: rows advance, and a step puts into a device's own file
\* nothing but what the device has.
LEMMA NextOwnFiles == Types /\ OwnFilesTrail /\ [Next]_vars => OwnFilesTrail'
<1> SUFFICES ASSUME Types, OwnFilesTrail, [Next]_vars, NEW p \in Device
             PROVE  /\ \A f \in snapshots'[p] : Trails(p, f)'
                    /\ sync'[p].pc \in {"reading", "snapped"} => Trails(p, sync[p].file)'
  BY DEF OwnFilesTrail
<1> USE DEF folder
<1>0. TypeOK /\ FileInHand
  BY DEF Types
<1>1. \A f \in snapshots[p] : Trails(p, f)'
  BY <1>0, TrailsStay DEF OwnFilesTrail, TypeOK
<1>2. ASSUME sync[p].pc \in {"reading", "snapped"} PROVE Trails(p, sync[p].file)
  BY <1>2 DEF OwnFilesTrail
<1>3. EmptySnapshot \in Snapshot /\ Trails(p, EmptySnapshot)'
  BY EmptySnapshotType, EmptySnapshotTrails, TrailsStay
\* The steps that leave p's snapshots and p's loop alone.
<1>4. ASSUME snapshots'[p] = snapshots[p], sync'[p] = sync[p]
      PROVE  /\ \A f \in snapshots'[p] : Trails(p, f)'
             /\ sync'[p].pc \in {"reading", "snapped"} => Trails(p, sync[p].file)'
  <2> SUFFICES ASSUME sync[p].pc \in {"reading", "snapped"} PROVE Trails(p, sync[p].file)'
    BY <1>1, <1>4
  <2>1. sync[p].file \in Snapshot /\ Trails(p, sync[p].file)
    BY <1>0, <1>2 DEF FileInHand
  <2>2. Trails(p, sync[p].file) => \A k \in Key : sync'[p].file.rows[k] = sync[p].file.rows[k]
    BY <1>4
  <2> DEFINE f == sync[p].file
  <2>3. \A g \in Snapshot : Trails(p, g) => Trails(p, g)'
    BY TrailsStay
  <2> QED BY <1>4, <2>1, <2>3 DEF Trails, Has
\* The steps that leave p's snapshots alone and take p's loop out of an export.
<1>5. ASSUME snapshots'[p] = snapshots[p],
             sync'[p].pc \in {"importing", "checking", "merging"} \/ sync'[p].file = EmptySnapshot
      PROVE  /\ \A f \in snapshots'[p] : Trails(p, f)'
             /\ sync'[p].pc \in {"reading", "snapped"} => Trails(p, sync[p].file)'
  BY <1>1, <1>3, <1>5 DEF Trails, Has
<1>6. ASSUME NEW peers, SetSync(p, Importing(peers)), UNCHANGED snapshots
      PROVE  /\ \A f \in snapshots'[p] : Trails(p, f)'
             /\ sync'[p].pc \in {"reading", "snapped"} => Trails(p, sync[p].file)'
  <2>1. sync'[p] = Importing(peers)
    BY <1>0, <1>6 DEF SetSync, TypeOK
  <2> QED BY <1>5, <1>6, <2>1 DEF Importing, Asleep
<1>7. ASSUME NEW k \in Key, ReadTable(p, k)
      PROVE  /\ \A f \in snapshots'[p] : Trails(p, f)'
             /\ sync'[p].pc \in {"reading", "snapped"} => Trails(p, sync[p].file)'
  <2>1. sync[p].file \in Snapshot /\ sync[p] \in SyncState /\ Trails(p, sync[p].file)
    BY <1>0, <1>2, <1>7 DEF ReadTable, FileInHand, TypeOK
  <2>2. sync'[p].file.rows = [sync[p].file.rows EXCEPT ![k] = Published(db[p][k])]
    BY <1>0, <1>7, <2>1 DEF ReadTable, SetSync, TypeOK, SyncState, Snapshot
  <2>3. db[p][k] \in MaybeRow /\ db' = db /\ snapshots' = snapshots
    BY <1>0, <1>7 DEF ReadTable, TypeOK, Rows
  <2>4. Published(db[p][k]) # NoRow =>
            db[p][k] # NoRow /\ SameClock(Published(db[p][k]), db[p][k])
    BY <2>3, PublishedKeepsClock
  <2>5. db[p][k] # NoRow => db[p][k].ua \in Nat /\ db[p][k].ub \in Nat
    BY <2>3, DeviceAssumption DEF MaybeRow, Row, Nobody
  <2>6. Published(db[p][k]) # NoRow => db[p][k] # NoRow /\ ~Newer(Published(db[p][k]), db[p][k])
    BY <2>4, <2>5 DEF SameClock, Newer
  <2>7. \A j \in Key : sync'[p].file.rows[j] =
            IF j = k THEN Published(db[p][k]) ELSE sync[p].file.rows[j]
    BY <2>1, <2>2 DEF Snapshot, Rows
  <2> QED BY <1>1, <2>1, <2>3, <2>6, <2>7 DEF Trails, Has
<1>8. ASSUME NEW now \in HeaderTime, WriteSnapshot(p, now)
      PROVE  /\ \A f \in snapshots'[p] : Trails(p, f)'
             /\ sync'[p].pc \in {"reading", "snapped"} => Trails(p, sync[p].file)'
  <2> DEFINE file == [sync[p].file EXCEPT !.at = now]
  <2>1. CASE meta[p] = Checksum(file)
    BY <1>6, <1>8, <2>1 DEF WriteSnapshot
  <2>2. CASE meta[p] # Checksum(file)
    <3>1. sync[p].file \in Snapshot /\ sync[p] \in SyncState /\ Trails(p, sync[p].file)
      BY <1>0, <1>2, <1>8 DEF WriteSnapshot, FileInHand, TypeOK
    <3>2. file.rows = sync[p].file.rows
      BY <3>1 DEF Snapshot
    <3>3. /\ snapshots' = [snapshots EXCEPT ![p] = @ \union {file}]
          /\ SetSync(p, [sync[p] EXCEPT !.pc = "snapped", !.file = file])
          /\ db' = db
      BY <1>8, <2>2 DEF WriteSnapshot
    <3>4. sync'[p].file = file /\ snapshots'[p] = snapshots[p] \union {file}
      BY <1>0, <3>1, <3>3 DEF SetSync, TypeOK, SyncState
    <3> HIDE DEF file
    <3> QED BY <1>1, <3>1, <3>2, <3>3, <3>4 DEF Trails, Has
  <2> QED BY <2>1, <2>2
<1>9. ASSUME NEW q, NEW todo, Merging(p, q, todo), UNCHANGED snapshots
      PROVE  /\ \A f \in snapshots'[p] : Trails(p, f)'
             /\ sync'[p].pc \in {"reading", "snapped"} => Trails(p, sync[p].file)'
  <2>1. CASE todo = {}
    BY <1>6, <1>9, <2>1 DEF Merging, DonePeer
  <2>2. CASE todo # {}
    <3>1. SetSync(p, [sync[p] EXCEPT !.pc = "merging", !.todo = todo])
      BY <1>9, <2>2 DEF Merging
    <3>2. sync'[p].pc = "merging"
      BY <1>0, <3>1 DEF SetSync, TypeOK, SyncState
    <3> QED BY <1>5, <1>9, <3>2
  <2> QED BY <2>1, <2>2
<1>10. ASSUME NEW q, NEW file, ReadPeer(p, q, file)
       PROVE  /\ \A f \in snapshots'[p] : Trails(p, f)'
              /\ sync'[p].pc \in {"reading", "snapped"} => Trails(p, sync[p].file)'
  <2>1. sync'[p].pc = "checking" /\ snapshots' = snapshots
    BY <1>0, <1>10 DEF ReadPeer, SetSync, TypeOK, SyncState
  <2> QED BY <1>5, <2>1
\* A step of another device's loop.
<1>11. ASSUME NEW d \in Device \ {p}, Export(d) \/ Import(d) \/ Crash(d) \/ ExportFails(d)
                                      \/ \E q \in Device : MergeFails(d, q)
       PROVE  snapshots'[p] = snapshots[p] /\ sync'[p] = sync[p]
  BY <1>0, <1>11
  DEF Export, Import, ReadTable, WriteSnapshot, WriteMeta, ReadPeer, CheckPeer, MergePeerRow,
      RejectPeerRow, Merging, DonePeer, Crash, ExportFails, MergeFails, SetSync, TypeOK
<1>12. CASE Export(p)
  BY <1>6, <1>7, <1>8, <1>12 DEF Export, WriteMeta
<1>13. CASE Import(p)
  BY <1>6, <1>9, <1>10, <1>13 DEF Import, CheckPeer, MergePeerRow, RejectPeerRow, DonePeer
<1>14. CASE Crash(p) \/ ExportFails(p) \/ \E q \in Device : MergeFails(p, q)
  <2>1. Asleep = Importing({})
    BY DEF Importing
  <2> QED BY <1>6, <1>14, <2>1 DEF Crash, ExportFails, MergeFails, DonePeer
<1>15. ASSUME NEW d \in Device, Edit(d) \/ Stamp(d) \/ \E k \in Key : TouchFails(d, k)
       PROVE  UNCHANGED <<snapshots, sync>>
  BY <1>15 DEF Edit, Stamp, InsertRow, UpdateRow, Touch, Tombstone, AddMember, TouchFails
<1>16. CASE UNCHANGED vars
  BY <1>4, <1>16 DEF vars
<1>17. ASSUME NEW d \in Device, Edit(d) \/ Stamp(d) \/ Export(d) \/ Import(d) \/ Fault(d)
       PROVE  /\ \A f \in snapshots'[p] : Trails(p, f)'
              /\ sync'[p].pc \in {"reading", "snapped"} => Trails(p, sync[p].file)'
  <2>1. CASE d = p
    BY <1>4, <1>12, <1>13, <1>14, <1>15, <1>17, <2>1 DEF Fault
  <2>2. CASE d # p
    BY <1>4, <1>11, <1>15, <1>17, <2>2 DEF Fault
  <2> QED BY <2>1, <2>2
<1> QED BY <1>16, <1>17 DEF Next

\* However late a file is merged, its publisher has its rows or later ones.
THEOREM FilesTrail == Spec => []FileTrailsPublisher
<1>1. OwnFilesTrail => FileTrailsPublisher
  BY DEF OwnFilesTrail, Trails, Has, FileTrailsPublisher
<1> QED BY <1>1, InitOwnFiles, NextOwnFiles, TypesHold, PTL DEF Spec

-----------------------------------------------------------------------------
(* Merging a file to its end. *)

\* What a merge has been through of its file, the device has.
MergedSoFar ==
    \A d \in Device : sync[d].pc = "merging" =>
        \A k \in Key \ sync[d].todo : Has(d, sync[d].file, k)

\* A merged row is in the database, its own or the newer one that was there.
LEMMA RowLands ==
    ASSUME Types, [Next]_vars, MergedSoFar, NEW d \in Device, NEW p, NEW k \in Key,
           MergePeerRow(d, p, k), NEW f \in Snapshot, f = sync[d].file
    PROVE  \A j \in Key \ (sync[d].todo \ {k}) : Has(d, f, j)'
<1>1. sync[d].pc = "merging" /\ k \in sync[d].todo /\ db[d][k] \in MaybeRow
  BY DEF MergePeerRow, IsFirst, Types, TypeOK, Rows
<1>2. \A j \in Key \ sync[d].todo : Has(d, f, j)'
  BY <1>1, HasStays DEF MergedSoFar
<1>3. Has(d, f, k)'
  <2>1. PICK in \in Row : in = Landing(d, k)
    BY <1>1, LandingType
  <2>2. SameClock(in, f.rows[k]) /\ f.rows[k] \in Row
    BY <1>1, <2>1, LandingType
  <2>3. db'[d][k] = MergeRow(db[d][k], in)
    BY <2>1, SetRowOnly DEF MergePeerRow, Types
  <2>4. ~Newer(in, in)
    BY <2>1, NewerOrders DEF SameClock
  <2>5. db'[d][k] # NoRow /\ ~Newer(in, db'[d][k])
    BY <1>1, <2>1, <2>3, <2>4, NoRowAssumption DEF MergeRow
  <2>6. db'[d][k] \in Row
    BY <1>1, <2>1, <2>3, <2>5, MergeRowAdvances DEF MaybeRow
  <2>7. ~Newer(f.rows[k], db'[d][k])
    BY <2>1, <2>2, <2>5, <2>6, NewerOrders
  <2> QED BY <2>5, <2>7 DEF Has
<1> QED BY <1>2, <1>3

\* How the loop of one device moves in a step, as far as a merge goes.
LEMMA MergeMoves ==
    ASSUME Types, [Next]_vars, NEW d \in Device
    PROVE  \/ sync'[d] = sync[d]
           \/ sync[d].pc # "merging" /\ sync'[d].pc # "merging"
           \/ /\ sync[d].pc = "checking" /\ sync'[d].file = sync[d].file
              /\ sync'[d].todo = {k \in Key : sync[d].file.rows[k] # NoRow}
           \/ \E p \in Device, k \in Key :
                  /\ MergePeerRow(d, p, k)
                  /\ \/ sync'[d].pc # "merging" /\ sync[d].todo \ {k} = {}
                     \/ /\ sync'[d].pc = "merging" /\ sync'[d].file = sync[d].file
                        /\ sync'[d].todo = sync[d].todo \ {k}
           \/ /\ sync[d].pc = "merging" /\ sync'[d].pc # "merging"
              /\ \/ faults' # faults
                 \/ \E k \in Key : IsFirst(k, sync[d].todo) /\ CannotLand(d, k)
<1> USE DEF folder
<1>0. TypeOK /\ sync[d] \in SyncState /\ faults \in Nat /\ DOMAIN sync = Device
  BY DEF Types, TypeOK
<1>1. ASSUME NEW s, SetSync(d, s) PROVE sync'[d] = s
  BY <1>0, <1>1 DEF SetSync
<1>2. ASSUME NEW peers, SetSync(d, Importing(peers)) PROVE sync'[d].pc # "merging"
  BY <1>1, <1>2 DEF Importing, Asleep
<1>3. ASSUME NEW p, NEW todo, todo # {}, Merging(d, p, todo)
      PROVE  sync'[d].pc = "merging" /\ sync'[d].file = sync[d].file /\ sync'[d].todo = todo
  BY <1>0, <1>1, <1>3 DEF Merging, SyncState
<1>4. ASSUME NEW p, Merging(d, p, {}) PROVE sync'[d].pc # "merging"
  BY <1>2, <1>4 DEF Merging, DonePeer
<1>5. CASE Export(d)
  <2>1. sync[d].pc # "merging"
    BY <1>5 DEF Export, ReadTable, WriteSnapshot, WriteMeta
  <2>2. ASSUME NEW k \in Key, ReadTable(d, k) PROVE sync'[d].pc # "merging"
    BY <1>0, <1>1, <2>2 DEF ReadTable, SyncState
  <2>3. ASSUME NEW now \in HeaderTime, WriteSnapshot(d, now) PROVE sync'[d].pc # "merging"
    BY <1>0, <1>1, <1>2, <2>3 DEF WriteSnapshot, SyncState
  <2>4. WriteMeta(d) => sync'[d].pc # "merging"
    BY <1>2 DEF WriteMeta
  <2> QED BY <1>5, <2>1, <2>2, <2>3, <2>4 DEF Export
<1>6. CASE Import(d)
  <2>1. ASSUME NEW p, NEW file, ReadPeer(d, p, file)
        PROVE  sync[d].pc # "merging" /\ sync'[d].pc # "merging"
    BY <1>0, <1>1, <2>1 DEF ReadPeer, SyncState
  <2>2. ASSUME NEW p, NEW sidecar, CheckPeer(d, p, sidecar)
        PROVE  \/ sync[d].pc # "merging" /\ sync'[d].pc # "merging"
               \/ /\ sync[d].pc = "checking" /\ sync'[d].file = sync[d].file
                  /\ sync'[d].todo = {k \in Key : sync[d].file.rows[k] # NoRow}
    BY <1>2, <1>3, <1>4, <2>2 DEF CheckPeer, DonePeer
  <2>3. ASSUME NEW p \in Device, NEW k \in Key, MergePeerRow(d, p, k)
        PROVE  \/ sync'[d].pc # "merging" /\ sync[d].todo \ {k} = {}
               \/ /\ sync'[d].pc = "merging" /\ sync'[d].file = sync[d].file
                  /\ sync'[d].todo = sync[d].todo \ {k}
    BY <1>3, <1>4, <2>3 DEF MergePeerRow
  <2>4. ASSUME NEW p, NEW k, RejectPeerRow(d, p, k)
        PROVE  /\ sync[d].pc = "merging" /\ sync'[d].pc # "merging"
               /\ IsFirst(k, sync[d].todo) /\ CannotLand(d, k)
    BY <1>2, <2>4 DEF RejectPeerRow, DonePeer
  <2> QED BY <1>6, <2>1, <2>2, <2>3, <2>4 DEF Import
<1>7. CASE Fault(d)
  <2>1. faults' # faults
    BY <1>0, <1>7 DEF Fault, Crash, TouchFails, ExportFails, MergeFails, CanFail
  <2>2. Asleep = Importing({})
    BY DEF Importing
  <2>3. sync'[d] = sync[d] \/ sync'[d].pc # "merging"
    BY <1>2, <1>7, <2>2 DEF Fault, Crash, TouchFails, ExportFails, MergeFails, DonePeer
  <2> QED BY <2>1, <2>3
<1>8. CASE Edit(d) \/ Stamp(d)
  BY <1>8 DEF Edit, Stamp, InsertRow, UpdateRow, Touch, Tombstone, AddMember
<1>9. ASSUME NEW e \in Device \ {d}, Edit(e) \/ Stamp(e) \/ Export(e) \/ Import(e) \/ Fault(e)
      PROVE  sync'[d] = sync[d]
  BY <1>0, <1>9
  DEF Edit, Stamp, InsertRow, UpdateRow, Touch, Tombstone, AddMember, Export, Import, ReadTable,
      WriteSnapshot, WriteMeta, ReadPeer, CheckPeer, MergePeerRow, RejectPeerRow, Merging,
      DonePeer, Fault, TouchFails, Crash, ExportFails, MergeFails, SetSync
<1>10. CASE UNCHANGED vars
  BY <1>10 DEF vars
<1> QED BY <1>5, <1>6, <1>7, <1>8, <1>9, <1>10 DEF Next

LEMMA InitMerged == Init => MergedSoFar
BY DEF Init, MergedSoFar, Asleep

LEMMA NextMerged == Types /\ MergedSoFar /\ [Next]_vars => MergedSoFar'
<1> SUFFICES ASSUME Types, MergedSoFar, [Next]_vars, NEW d \in Device, sync'[d].pc = "merging",
                    NEW k \in Key, k \notin sync'[d].todo
             PROVE  Has(d, sync[d].file, k)'
  BY DEF MergedSoFar
<1>1. PICK f : f = sync'[d].file
  OBVIOUS
<1>2. SUFFICES Has(d, f, k)'
  BY <1>1 DEF Has
<1>3. ASSUME sync[d].pc = "merging", f = sync[d].file, k \notin sync[d].todo
      PROVE  Has(d, f, k)'
  BY <1>3, HasStays DEF MergedSoFar, Types, FileInHand
<1>4. CASE sync[d].pc = "checking" /\ f.rows[k] = NoRow
  BY <1>4 DEF Has
<1>5. ASSUME NEW p \in Device, NEW j \in Key, MergePeerRow(d, p, j),
             f = sync[d].file, k \notin sync[d].todo \ {j}
      PROVE  Has(d, f, k)'
  <2>1. f \in Snapshot
    BY <1>5 DEF MergePeerRow, Types, FileInHand
  <2> QED BY <1>5, <2>1, RowLands
<1> QED BY <1>1, <1>3, <1>4, <1>5, MergeMoves

\* A merge without a fault leaves no row of its file behind, whatever is written
\* meanwhile: none but those from a tombstone on that its table cannot take.
THEOREM MergesLandWhole == Spec => MergeLandsWhole
<1>1. Types /\ MergedSoFar /\ [Next]_vars =>
        [\A d \in Device :
           LET file == sync[d].file IN
           sync[d].pc = "merging" /\ sync'[d].pc # "merging" /\ UNCHANGED faults =>
               \A k \in Key : file.rows[k] # NoRow =>
                   \/ db'[d][k] # NoRow /\ ~Newer(file.rows[k], db'[d][k])
                   \/ \E j \in sync[d].todo \intersect Bare :
                          j <= k /\ db[d][j] = NoRow /\ file.rows[j].deleted]_vars
  <2> SUFFICES ASSUME Types, MergedSoFar, [Next]_vars, NEW d \in Device,
                      sync[d].pc = "merging", sync'[d].pc # "merging", UNCHANGED faults,
                      NEW k \in Key, sync[d].file.rows[k] # NoRow,
                      ~ \E j \in sync[d].todo \intersect Bare :
                            /\ j <= k /\ db[d][j] = NoRow
                            /\ sync[d].file.rows[j].deleted
               PROVE  db'[d][k] # NoRow /\ ~Newer(sync[d].file.rows[k], db'[d][k])
    OBVIOUS
  <2>1. PICK f \in Snapshot : f = sync[d].file
    BY DEF Types, FileInHand
  <2>2. Has(d, f, k)'
    <3>1. ASSUME NEW p \in Device, NEW j \in Key, MergePeerRow(d, p, j), sync[d].todo \ {j} = {}
          PROVE  Has(d, f, k)'
      BY <2>1, <3>1, RowLands
    <3>2. ASSUME NEW j \in Key, IsFirst(j, sync[d].todo), CannotLand(d, j)
          PROVE  Has(d, f, k)'
      <4>1. k \notin sync[d].todo
        BY <3>2 DEF IsFirst, CannotLand
      <4> QED BY <2>1, <4>1, HasStays DEF MergedSoFar
    <3> QED BY <3>1, <3>2, MergeMoves
  <2> QED BY <2>1, <2>2 DEF Has
<1>2. Types /\ MergedSoFar /\ [Next]_vars => MergedSoFar'
  BY NextMerged
<1> QED BY <1>1, <1>2, InitMerged, TypesHold, PTL DEF Spec, MergeLandsWhole

=============================================================================
