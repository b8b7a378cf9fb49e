---------------------------- MODULE PaperColumns ----------------------------
(***************************************************************************)
(* One paper, whose columns are merged each on its own clock.              *)
(*                                                                         *)
(* A paper is the sync columns of its row, which have no payload, and one  *)
(* clocked value per synced column.  An edit is three statements with      *)
(* awaits in between: the payload, the row's stamp, the columns' stamps.   *)
(* What the devices' files do on their way is RowSync's matter; here a     *)
(* device merges the file another device has published, or an older one.   *)
(***************************************************************************)
EXTENDS LwwRow, FiniteSets

CONSTANTS
    Col,       \* the synced columns of papers
    Flag,      \* stands for the row's own updated_at, updated_by, deleted
    Older,     \* devices that still run the version without column clocks
    Before,    \* what an earlier sync may have brought to every device
    MaxTime,   \* bound: clock readings are 1 .. MaxTime
    MaxWrites, \* bound: local writes, all devices together
    MaxCopies, \* bound: how many of one device's files may be around
    MaxFaults  \* bound: crashes and failed statements, together

ASSUME ColumnAssumption == Flag \notin Col
ASSUME OlderAssumption == Older \subseteq Device
ASSUME BoundAssumption ==
    MaxTime \in Nat \ {0} /\ MaxWrites \in Nat /\ MaxCopies \in Nat \ {0} /\ MaxFaults \in Nat

Time == 1 .. MaxTime

\* What is clocked, and so wins or loses, on its own.
Part == Col \union {Flag}

Paper == [Part -> MaybeRow]

NoPaper == [q \in Part |-> NoRow]

\* A paper in a snapshot; an older device sends no column clocks.
Copy == [parts : Paper, clocked : BOOLEAN]

\* A started edit: the columns it has written, and whether the row is stamped.
EditState == [cols : SUBSET Col, stamped : BOOLEAN]

\* A live paper whose last edit was stamped, the row and every column of it.
Settled(x) ==
    /\ x \in [Part -> Row]
    /\ \A q \in Part : x[q].ub # Nobody /\ ~x[q].deleted
    /\ \A q \in Part : x[q].val = NoValue <=> q = Flag

ASSUME BeforeAssumption == \A x \in Before : x = NoPaper \/ Settled(x)

VARIABLES
    paper,    \* paper[d]: the paper in device d's database
    edits,    \* edits[d]: d's edits whose stamps are still to come
    copies,   \* copies[d]: d's file, and older ones a peer may still be shown
    drafts,   \* <<part, ua, ub>>: clocks under which an unstamped write was visible
    under,    \* under[d][q]: the row's time when d last edited column q
    writes, faults

vars == <<paper, edits, copies, drafts, under, writes, faults>>

Exists(d) == paper[d][Flag] # NoRow

SetPaper(d, x) == paper' = [paper EXCEPT ![d] = x]

-----------------------------------------------------------------------------
(* Local writes. *)

CanWrite == writes < MaxWrites /\ writes' = writes + 1

\* The payload statement of an edit of columns C; its stamps come later.
Written(d, C, x) ==
    /\ SetPaper(d, x)
    /\ edits' = [edits EXCEPT ![d] = @ \union {[cols |-> C, stamped |-> FALSE]}]
    /\ drafts' = drafts \union {<<q, x[q].ua, x[q].ub>> : q \in C}

\* The id is a fresh uuid, so no device has it.
InsertPaper(d, v) ==
    /\ CanWrite
    /\ \A e \in Device : ~Exists(e)
    /\ Written(d, Col, [q \in Part |-> Unstamped(IF q = Flag THEN NoValue ELSE v)])
    /\ UNCHANGED <<copies, under, faults>>

\* update_paper_title and its like: UPDATE ... WHERE id = ?, live or dead.
UpdatePaper(d, C, v) ==
    /\ CanWrite
    /\ Exists(d)
    /\ \A e \in edits[d] : C \intersect e.cols = {}   \* bound: one edit of a column
    /\ Written(d, C, [q \in Part |-> IF q \in C THEN [paper[d][q] EXCEPT !.val = v]
                                               ELSE paper[d][q]])
    /\ UNCHANGED <<copies, under, faults>>

\* The first half of touch_columns: the row's stamp, which also revives it.
TouchRow(d, e, now) ==
    /\ e \in edits[d] /\ ~e.stamped
    /\ SetPaper(d, [paper[d] EXCEPT ![Flag] = StampRow(@, now, d, FALSE)])
    /\ edits' = [edits EXCEPT ![d] = (@ \ {e}) \union
            (IF d \in Older THEN {} ELSE {[e EXCEPT !.stamped = TRUE]})]
    /\ under' = [under EXCEPT ![d] = [q \in Col |->
            IF q \in e.cols THEN paper'[d][Flag].ua ELSE @[q]]]
    /\ UNCHANGED <<copies, drafts, writes, faults>>

\* The second half: the written columns' stamps, at a clock reading of their own.
TouchColumns(d, e, now) ==
    /\ e \in edits[d] /\ e.stamped
    /\ SetPaper(d, [q \in Part |->
            IF q \in e.cols THEN StampRow(paper[d][q], now, d, FALSE) ELSE paper[d][q]])
    /\ edits' = [edits EXCEPT ![d] = @ \ {e}]
    /\ UNCHANGED <<copies, drafts, under, writes, faults>>

\* The paper's part of delete_paper: stamp and flag in one statement.
DeletePaper(d, now) ==
    /\ CanWrite
    /\ Exists(d)
    /\ SetPaper(d, [paper[d] EXCEPT ![Flag] = StampRow(@, now, d, TRUE)])
    /\ UNCHANGED <<edits, copies, drafts, under, faults>>

-----------------------------------------------------------------------------
(* Publishing and merging. *)

\* A tombstone carries the row's clock and no column.
PublishedPaper(x) ==
    [q \in Part |-> IF q # Flag /\ x[Flag].deleted THEN NoRow ELSE x[q]]

\* The copy d's file would hold now.
CurrentCopy(d) == [parts |-> PublishedPaper(paper[d]), clocked |-> d \notin Older]

\* No paper, or one every device has and has in its file.
Init ==
    /\ \E x \in Before : paper = [d \in Device |-> x]
    /\ copies = [d \in Device |-> IF Exists(d) THEN {CurrentCopy(d)} ELSE {}]
    /\ edits = [d \in Device |-> {}]
    /\ drafts = {}
    /\ under = [d \in Device |-> [q \in Col |-> 0]]
    /\ writes = 0
    /\ faults = 0

\* The file is replaced; where the folder is slow, peers go on seeing older ones.
Publish(d) ==
    /\ Exists(d)
    /\ \E kept \in SUBSET copies[d] :
        /\ Cardinality(kept \union {CurrentCopy(d)}) <= MaxCopies
        /\ copies' = [copies EXCEPT ![d] = kept \union {CurrentCopy(d)}]
    /\ UNCHANGED <<paper, edits, drafts, under, writes, faults>>

\* Mutant of ColumnClocks: a missing clock is read as zero.
ColumnClocksZero(copy) ==
    IF copy.clocked THEN copy.parts
    ELSE [q \in Part |-> IF q = Flag \/ copy.parts[q] = NoRow THEN copy.parts[q]
                         ELSE Unstamped(copy.parts[q].val)]

\* column_clock: a column that comes without a clock has the row's.
ColumnClocks(copy) ==
    LET x == copy.parts IN
    IF copy.clocked THEN x
    ELSE [q \in Part |-> IF x[q] = NoRow THEN NoRow
                         ELSE [x[q] EXCEPT !.ua = x[Flag].ua, !.ub = x[Flag].ub]]

\* Mutant of MergePaper: placeholders are graded like values, on the row's clock.
MergePaperGraded(local, incoming) ==
    [q \in Part |->
        MergeRow(local[q], IF incoming[q] = NoRow
                           THEN [incoming[Flag] EXCEPT !.val = NoValue, !.deleted = FALSE]
                           ELSE incoming[q])]

\* Mutant of MergePaper: the columns a row must have are left out.
MergePaperBare(local, incoming) ==
    [q \in Part |-> IF incoming[q] # NoRow THEN MergeRow(local[q], incoming[q]) ELSE local[q]]

\* Mutant of MergePaper: the row's clock gates every column.
MergePaperGated(local, incoming) ==
    IF local[Flag] = NoRow \/ Newer(incoming[Flag], local[Flag])
    THEN [q \in Part |-> IF incoming[q] # NoRow THEN incoming[q]
                         ELSE IF local[q] = NoRow THEN Unstamped(NoValue) ELSE local[q]]
    ELSE local

\* merge_row_per_column: each part is judged by its own clock.  A column the copy
\* lacks gets a placeholder if the paper is new here, and is never judged.
MergePaper(local, incoming) ==
    [q \in Part |->
        IF incoming[q] # NoRow THEN MergeRow(local[q], incoming[q])
        ELSE IF local[q] = NoRow THEN Unstamped(NoValue) ELSE local[q]]

Merge(d, p, copy) ==
    /\ d \notin Older
    /\ SetPaper(d, MergePaper(paper[d], ColumnClocks(copy)))
    /\ UNCHANGED <<edits, copies, drafts, under, writes, faults>>

\* An older device merges the paper whole, by the row's clock.
MergeOlder(d, p, copy) ==
    /\ d \in Older
    /\ SetPaper(d,
          IF Exists(d) /\ ~Newer(copy.parts[Flag], paper[d][Flag]) THEN paper[d]
          ELSE [q \in Part |-> IF copy.parts[q] = NoRow THEN Unstamped(NoValue)
                                                       ELSE copy.parts[q]])
    /\ UNCHANGED <<edits, copies, drafts, under, writes, faults>>

-----------------------------------------------------------------------------
(* What can go wrong. *)

CanFail == faults < MaxFaults /\ faults' = faults + 1

\* The app dies: the stamps still to come never do.
Crash(d) ==
    /\ CanFail
    /\ edits' = [edits EXCEPT ![d] = {}]
    /\ UNCHANGED <<paper, copies, drafts, under, writes>>

\* A stamping statement returns an error, and the edit ends there.
TouchFails(d, e) ==
    /\ CanFail
    /\ e \in edits[d]
    /\ edits' = [edits EXCEPT ![d] = @ \ {e}]
    /\ UNCHANGED <<paper, copies, drafts, under, writes>>

-----------------------------------------------------------------------------
Edit(d) ==
    \/ \E v \in Value :
        \/ InsertPaper(d, v)
        \/ \E C \in SUBSET Col \ {{}} : UpdatePaper(d, C, v)
    \/ \E now \in Time : DeletePaper(d, now)

Stamp(d) ==
    \E e \in edits[d], now \in Time : TouchRow(d, e, now) \/ TouchColumns(d, e, now)

Import(d, p) == \E copy \in copies[p] : Merge(d, p, copy) \/ MergeOlder(d, p, copy)

Fault(d) == Crash(d) \/ \E e \in edits[d] : TouchFails(d, e)

Next ==
    \E d \in Device :
        \/ Edit(d) \/ Stamp(d) \/ Publish(d) \/ Fault(d)
        \/ \E p \in Device \ {d} : Import(d, p)

Spec == Init /\ [][Next]_vars

-----------------------------------------------------------------------------
(* What must hold. *)

\* The types of the variables, and that a paper exists whole or not at all.
TypeOK ==
    /\ paper \in [Device -> Paper]
    /\ edits \in [Device -> SUBSET EditState]
    /\ copies \in [Device -> SUBSET Copy]
    /\ drafts \subseteq Part \X Nat \X (Device \union {Nobody})
    /\ under \in [Device -> [Col -> Nat]]
    /\ writes \in 0 .. MaxWrites
    /\ faults \in 0 .. MaxFaults
    /\ \A d \in Device, q \in Part : paper[d][q] = NoRow <=> ~Exists(d)

AllCopies == UNION {copies[d] : d \in Device}

\* Every version of a part there is, in the databases and in copies.
Versions(q) ==
    ({paper[d][q] : d \in Device} \union {c.parts[q] : c \in AllCopies}) \ {NoRow}

\* A clock names one version of a column, or of the row's life and death, wherever
\* it is; only a clock some payload write was visible under is exempt.
SameClockSameVersion ==
    \A q \in Part : \A a, b \in Versions(q) :
        SameClock(a, b) /\ <<q, a.ua, a.ub>> \notin drafts /\ a.ub # Nobody => a = b

\* Placeholders may create a paper; they never replace a value a device has.
PlaceholdersNeverWin ==
    [][\A d \in Device, q \in Col :
         paper[d][q] # NoRow /\ paper[d][q].val # NoValue => paper'[d][q].val # NoValue]_vars

\* The order two copies are read in does not matter, whoever reads them and
\* whatever it has: what a device ends up with depends on the clocks alone.
MergesCommute ==
    \A d \in Device : \A a, b \in AllCopies :
        LET ab == MergePaper(MergePaper(paper[d], ColumnClocks(a)), ColumnClocks(b))
            ba == MergePaper(MergePaper(paper[d], ColumnClocks(b)), ColumnClocks(a))
        IN \A q \in Part :
             ab[q] = ba[q] \/ ab[q].ub = Nobody \/ <<q, ab[q].ua, ab[q].ub>> \in drafts

\* A device without column clocks is still heard: what it sends, if it is newer than
\* all a device has of the paper, is taken over whole.
OlderIsHeard ==
    [][\A d \in Device, p \in Older : \A copy \in copies[p] :
         /\ Merge(d, p, copy) /\ Exists(d)
         /\ \A q \in Part : Newer(copy.parts[Flag], paper[d][q])
         => \A q \in Part : copy.parts[q] # NoRow => paper'[d][q].val = copy.parts[q].val]_vars

\* The columns and the row's own clock behave as last-writer-wins registers, each
\* for itself: an edit of one column takes no other column with it.
Registers == INSTANCE LastWriterWins WITH
    Key <- Part,
    row <- paper,
    owed <- [d \in Device |-> UNION {e.cols : e \in edits[d]}],
    circulating <- [q \in Part |-> Versions(q)]

\* Every step of an edit, a merge or a fault is a step of those registers.
ImplementsRegisters == Registers!LwwSpec

-----------------------------------------------------------------------------
(* Convergence: started stamps go on, a device goes on publishing, and each is
   at last handed the other's current copy. *)

MergeCurrent(d, p) ==
    Exists(p) /\ CurrentCopy(p) \in copies[p] /\ Merge(d, p, CurrentCopy(p))

Fairness ==
    \A d \in Device :
        /\ WF_vars(Stamp(d)) /\ WF_vars(Publish(d))
        /\ \A p \in Device \ {d} : SF_vars(MergeCurrent(d, p))

FairSpec == Spec /\ Fairness

\* Once the writes stop, a paper one device has gets to all of them, and they come to
\* agree: on whether it lives and, if it does, on every column, unless the column's
\* last write was never stamped.
Converges ==
    <>[](\A d, e \in Device : Exists(d) =>
           /\ Exists(e)
           /\ \A q \in Part :
                LET r == PublishedPaper(paper[d])[q]  s == PublishedPaper(paper[e])[q] IN
                \/ r = s
                \/ r # NoRow /\ s # NoRow /\ SameClock(r, s) /\ <<q, r.ua, r.ub>> \in drafts)

-----------------------------------------------------------------------------
(* What a test says and the code does not do. *)

\* migration_v20_test.rs: a row from a device without column clocks competes on the
\* terms row-level merging used, and loses when it is older; so it takes back no
\* column a device has edited under a later row clock than the one it comes with.
OlderRowLoses ==
    [][\A d \in Device, p \in Older : \A copy \in copies[p] :
         Merge(d, p, copy) /\ Exists(d) /\ edits[d] = {} =>
             \A q \in Col : paper[d][q].ub = d /\ copy.parts[Flag].ua < under[d][q] =>
                 paper'[d][q] = paper[d][q]]_vars

=============================================================================
