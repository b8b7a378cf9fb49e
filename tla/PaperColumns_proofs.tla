------------------------ MODULE PaperColumns_proofs ------------------------
(***************************************************************************)
(* Proofs about PaperColumns, for any sets of devices, columns and values  *)
(* and any bounds.                                                         *)
(***************************************************************************)
EXTENDS PaperColumns, LwwRow_proofs

-----------------------------------------------------------------------------
(* Types, with any number of older devices. *)

\* Only a paper that is there has edits open, and every file that lists it has its row.
EditsHavePaper == \A d \in Device : edits[d] # {} => Exists(d)

CopiesHaveRow == \A c \in AllCopies : c.parts[Flag] # NoRow

\* What an older device publishes comes without column clocks.
OlderUnclocked == \A p \in Older : \A c \in copies[p] : ~c.clocked

Types == TypeOK /\ EditsHavePaper /\ CopiesHaveRow /\ OlderUnclocked

\* A paper that is there has a row in every part.
LEMMA WholePaper ==
    ASSUME Types, NEW d \in Device, Exists(d)
    PROVE  paper[d] \in [Part -> Row]
<1>1. paper[d] \in [Part -> MaybeRow] /\ \A q \in Part : paper[d][q] # NoRow
  BY DEF Types, TypeOK, Paper
<1> QED BY <1>1 DEF MaybeRow

\* Putting a whole paper in place changes one device's and keeps all of them whole.
LEMMA SetPaperType ==
    ASSUME Types, NEW d \in Device, NEW x \in [Part -> Row], SetPaper(d, x)
    PROVE  /\ paper' \in [Device -> Paper]
           /\ \A e \in Device, q \in Part : paper'[e][q] = NoRow <=> ~Exists(e)'
           /\ \A e \in Device : Exists(e) => Exists(e)'
           /\ Exists(d)'
           /\ paper'[d] = x
           /\ \A e \in Device \ {d} : paper'[e] = paper[e]
<1>1. x \in Paper /\ \A q \in Part : x[q] # NoRow
  BY NoRowAssumption DEF Paper, MaybeRow
<1>2. Flag \in Part
  BY DEF Part
<1> QED BY <1>1, <1>2 DEF Types, TypeOK, SetPaper, Exists

\* The edit's payload statement leaves whole papers, typed edits and typed drafts.
LEMMA WrittenType ==
    ASSUME Types, NEW d \in Device, NEW C \in SUBSET Col, NEW x \in [Part -> Row],
           Written(d, C, x)
    PROVE  /\ edits' \in [Device -> SUBSET EditState]
           /\ drafts' \subseteq Part \X Nat \X (Device \union {Nobody})
           /\ EditsHavePaper'
<1>1. edits' = [edits EXCEPT ![d] = @ \union {[cols |-> C, stamped |-> FALSE]}]
  BY DEF Written
<1>e. [cols |-> C, stamped |-> FALSE] \in EditState
  BY DEF EditState
<1>2. edits' \in [Device -> SUBSET EditState]
  BY <1>1, <1>e DEF Types, TypeOK
<1>3. \A q \in C : <<q, x[q].ua, x[q].ub>> \in Part \X Nat \X (Device \union {Nobody})
  BY DEF Part, Row
<1>4. drafts' \subseteq Part \X Nat \X (Device \union {Nobody})
  BY <1>3 DEF Written, Types, TypeOK
<1>5. Exists(d)' /\ \A e \in Device : Exists(e) => Exists(e)'
  BY SetPaperType DEF Written
<1>6. \A e \in Device \ {d} : edits'[e] = edits[e]
  BY <1>1 DEF Types, TypeOK
<1>7. EditsHavePaper'
  BY <1>5, <1>6 DEF Types, EditsHavePaper
<1> QED BY <1>2, <1>4, <1>7

\* Reading a copy's clocks leaves a paper, with the same parts in it.
LEMMA ColumnClocksType ==
    ASSUME NEW c \in Copy, c.parts[Flag] # NoRow
    PROVE  /\ ColumnClocks(c) \in Paper
           /\ \A q \in Part : ColumnClocks(c)[q] = NoRow <=> c.parts[q] = NoRow
           /\ ColumnClocks(c)[Flag] = c.parts[Flag]
<1>1. Flag \in Part /\ c.parts \in [Part -> MaybeRow]
  BY DEF Copy, Paper, Part
<1>2. c.parts[Flag] \in Row
  BY <1>1 DEF MaybeRow
<1>3. \A q \in Part : c.parts[q] # NoRow =>
        [c.parts[q] EXCEPT !.ua = c.parts[Flag].ua, !.ub = c.parts[Flag].ub] \in Row
  BY <1>1, <1>2 DEF MaybeRow, Row
<1>4. [c.parts[Flag] EXCEPT !.ua = c.parts[Flag].ua, !.ub = c.parts[Flag].ub] = c.parts[Flag]
  BY <1>2 DEF Row
<1> QED BY <1>1, <1>2, <1>3, <1>4, NoRowAssumption DEF ColumnClocks, Paper, MaybeRow

\* A placeholder is a row, the oldest there is.
LEMMA PlaceholderType ==
    Unstamped(NoValue) \in Row /\ \A r \in Row : ~Newer(Unstamped(NoValue), r)
<1>1. Unstamped(NoValue) \in Row
  BY DEF Unstamped, Row, Content
<1>2. Device \union {Nobody} \subseteq Nat
  BY DeviceAssumption DEF Nobody
<1>3. \A r \in Row : r.ua \in Nat /\ r.ub \in Nat
  BY <1>2 DEF Row
<1> QED BY <1>1, <1>3 DEF Unstamped, Newer, Nobody

\* A merge leaves a whole paper.
LEMMA MergePaperType ==
    ASSUME NEW local \in Paper, NEW incoming \in Paper,
           \A q \in Part : local[q] = NoRow <=> local[Flag] = NoRow,
           incoming[Flag] # NoRow
    PROVE  MergePaper(local, incoming) \in [Part -> Row]
<1> SUFFICES ASSUME NEW q \in Part
             PROVE  (IF incoming[q] # NoRow THEN MergeRow(local[q], incoming[q])
                     ELSE IF local[q] = NoRow THEN Unstamped(NoValue) ELSE local[q]) \in Row
  BY DEF MergePaper
<1>1. local[q] \in MaybeRow /\ incoming[q] \in MaybeRow
  BY DEF Paper
<1>2. CASE incoming[q] # NoRow
  <2>1. MergeRow(local[q], incoming[q]) \in {local[q], incoming[q]} \ {NoRow}
    BY <1>1, <1>2, MergeRowAdvances DEF MaybeRow
  <2> QED BY <1>1, <1>2, <2>1 DEF MaybeRow
<1>3. CASE incoming[q] = NoRow
  BY <1>1, <1>3, PlaceholderType DEF MaybeRow
<1> QED BY <1>2, <1>3

\* A file that was published before, or is now, is typed and has the paper's row.
LEMMA PublishType ==
    ASSUME Types, NEW d \in Device, Publish(d)
    PROVE  /\ copies' \in [Device -> SUBSET Copy]
           /\ CopiesHaveRow' /\ OlderUnclocked'
<1>1. PICK kept \in SUBSET copies[d] :
        copies' = [copies EXCEPT ![d] = kept \union {CurrentCopy(d)}]
  BY DEF Publish
<1>2. CurrentCopy(d) \in Copy
  BY DEF CurrentCopy, Copy, PublishedPaper, Types, TypeOK, Paper, MaybeRow
<1>3. CurrentCopy(d).parts[Flag] # NoRow /\ CurrentCopy(d).clocked = (d \notin Older)
  BY DEF CurrentCopy, PublishedPaper, Publish, Exists, Part
<1>4. copies' \in [Device -> SUBSET Copy]
  BY <1>1, <1>2 DEF Types, TypeOK
<1>5. \A p \in Device : \A c \in copies'[p] :
        c \in copies[p] \/ (p = d /\ c = CurrentCopy(d))
  BY <1>1, <1>4 DEF Types, TypeOK
<1>6. CopiesHaveRow'
  <2> SUFFICES ASSUME NEW p \in Device, NEW c \in copies'[p] PROVE c.parts[Flag] # NoRow
    BY DEF CopiesHaveRow, AllCopies
  <2>1. c \in copies[p] => c \in AllCopies
    BY DEF AllCopies
  <2> QED BY <1>3, <1>5, <2>1 DEF Types, CopiesHaveRow
<1>7. OlderUnclocked'
  BY <1>3, <1>5, OlderAssumption DEF Types, OlderUnclocked
<1> QED BY <1>4, <1>6, <1>7

\* At first every device has the same paper or none, and that paper is in every file.
LEMMA InitPaper ==
    ASSUME Init
    PROVE  \E x \in Paper :
             /\ paper = [d \in Device |-> x]
             /\ \A q \in Part : x[q] = NoRow <=> x[Flag] = NoRow
             /\ x[Flag] # NoRow => Settled(x)
             /\ \A d \in Device : \A c \in copies[d] :
                   /\ x[Flag] # NoRow /\ c \in Copy
                   /\ c.parts = x /\ c.clocked = (d \notin Older)
<1>1. PICK x \in Before : paper = [d \in Device |-> x]
  BY DEF Init
<1>2. Flag \in Part
  BY DEF Part
<1>3. CASE x = NoPaper
  <2>1. NoPaper \in Paper /\ \A q \in Part : NoPaper[q] = NoRow
    BY DEF NoPaper, Paper, MaybeRow
  <2>2. \A d \in Device : copies[d] = {}
    BY <1>1, <1>2, <1>3, <2>1 DEF Init, Exists
  <2> QED BY <1>1, <1>2, <1>3, <2>1, <2>2
<1>4. CASE Settled(x)
  <2>1. x \in [Part -> Row] /\ \A q \in Part : x[q] # NoRow /\ ~x[q].deleted
    BY <1>4, NoRowAssumption DEF Settled
  <2>2. x \in Paper
    BY <2>1 DEF Paper, MaybeRow
  <2>3. \A d \in Device : CurrentCopy(d) = [parts |-> x, clocked |-> d \notin Older]
    <3>1. PublishedPaper(x) = [q \in Part |-> x[q]]
      BY <1>2, <2>1 DEF PublishedPaper
    <3>2. PublishedPaper(x) = x
      BY <2>1, <3>1
    <3> QED BY <1>1, <3>2 DEF CurrentCopy
  <2>4. \A d \in Device : [parts |-> x, clocked |-> d \notin Older] \in Copy
    BY <2>2 DEF Copy
  <2>5. \A d \in Device : copies[d] = {CurrentCopy(d)}
    BY <1>1, <1>2, <2>1 DEF Init, Exists
  <2> QED BY <1>1, <1>2, <1>4, <2>1, <2>2, <2>3, <2>4, <2>5
<1> QED BY <1>3, <1>4, BeforeAssumption

\* The types hold at first.
LEMMA InitTypes == Init => Types
<1> SUFFICES ASSUME Init PROVE Types
  OBVIOUS
<1>1. PICK x \in Paper :
             /\ paper = [d \in Device |-> x]
             /\ \A q \in Part : x[q] = NoRow <=> x[Flag] = NoRow
             /\ x[Flag] # NoRow => Settled(x)
             /\ \A d \in Device : \A c \in copies[d] :
                   /\ x[Flag] # NoRow /\ c \in Copy
                   /\ c.parts = x /\ c.clocked = (d \notin Older)
  BY InitPaper
<1>2. copies \in [Device -> SUBSET Copy]
  <2>1. \A d \in Device : copies[d] \subseteq Copy
    BY <1>1
  <2>2. copies = [d \in Device |-> copies[d]]
    BY DEF Init
  <2> QED BY <2>1, <2>2
<1>3. \A d \in Device, q \in Part : paper[d][q] = NoRow <=> ~Exists(d)
  BY <1>1 DEF Exists
<1>4. TypeOK
  BY <1>1, <1>2, <1>3, BoundAssumption DEF Init, TypeOK
<1>5. EditsHavePaper
  BY DEF Init, EditsHavePaper
<1>6. CopiesHaveRow
  BY <1>1 DEF CopiesHaveRow, AllCopies
<1>7. OlderUnclocked
  BY <1>1, OlderAssumption DEF OlderUnclocked
<1> QED BY <1>4, <1>5, <1>6, <1>7 DEF Types

\* Every step keeps the types.
LEMMA NextTypes == Types /\ [Next]_vars => Types'
<1> SUFFICES ASSUME Types, [Next]_vars PROVE Types'
  OBVIOUS
<1>0. TypeOK /\ EditsHavePaper /\ CopiesHaveRow /\ OlderUnclocked
  BY DEF Types
<1>t. Time \subseteq Nat /\ Flag \in Part /\ Col \subseteq Part
  BY DEF Time, Part
<1>w. ASSUME CanWrite PROVE writes' \in 0 .. MaxWrites
  BY <1>w, <1>0, BoundAssumption DEF CanWrite, TypeOK
<1>f. ASSUME CanFail PROVE faults' \in 0 .. MaxFaults
  BY <1>f, <1>0, BoundAssumption DEF CanFail, TypeOK
<1>c. ASSUME UNCHANGED copies
      PROVE  copies' \in [Device -> SUBSET Copy] /\ CopiesHaveRow' /\ OlderUnclocked'
  BY <1>c, <1>0 DEF TypeOK, CopiesHaveRow, OlderUnclocked, AllCopies
\* A step that puts a whole paper in place of a device's and opens no edit.
<1>p. ASSUME NEW d \in Device, NEW x \in [Part -> Row], SetPaper(d, x),
             UNCHANGED edits
      PROVE  EditsHavePaper'
  BY <1>p, <1>0, SetPaperType DEF EditsHavePaper
\* A payload statement.
<1>x. ASSUME NEW d \in Device, NEW C \in SUBSET Col, NEW x \in [Part -> Row], Written(d, C, x)
      PROVE  /\ paper' \in [Device -> Paper]
             /\ \A e \in Device, q \in Part : paper'[e][q] = NoRow <=> ~Exists(e)'
             /\ edits' \in [Device -> SUBSET EditState]
             /\ drafts' \subseteq Part \X Nat \X (Device \union {Nobody})
             /\ EditsHavePaper'
  <2>1. SetPaper(d, x)
    BY <1>x DEF Written
  <2> QED BY <1>x, <2>1, WrittenType, SetPaperType
<1>1. ASSUME NEW d \in Device, NEW v \in Value, InsertPaper(d, v)
      PROVE  Types'
  <2> DEFINE x == [q \in Part |-> Unstamped(IF q = Flag THEN NoValue ELSE v)]
  <2>1. x \in [Part -> Row]
    BY DEF Unstamped, Row, Content
  <2>2. Written(d, Col, x) /\ CanWrite /\ UNCHANGED <<copies, under, faults>>
    BY <1>1 DEF InsertPaper
  <2> HIDE DEF x
  <2> QED BY <1>0, <1>c, <1>w, <1>x, <2>1, <2>2 DEF Types, TypeOK
<1>2. ASSUME NEW d \in Device, NEW C \in SUBSET Col, NEW v \in Value, UpdatePaper(d, C, v)
      PROVE  Types'
  <2> DEFINE x == [q \in Part |-> IF q \in C THEN [paper[d][q] EXCEPT !.val = v]
                                              ELSE paper[d][q]]
  <2>1. paper[d] \in [Part -> Row]
    BY <1>2, WholePaper DEF UpdatePaper
  <2>2. x \in [Part -> Row]
    BY <2>1 DEF Row, Content
  <2>3. Written(d, C, x) /\ CanWrite /\ UNCHANGED <<copies, under, faults>>
    BY <1>2 DEF UpdatePaper
  <2> HIDE DEF x
  <2> QED BY <1>0, <1>c, <1>w, <1>x, <2>2, <2>3 DEF Types, TypeOK
<1>3. ASSUME NEW d \in Device, NEW e \in edits[d], NEW now \in Time, TouchRow(d, e, now)
      PROVE  Types'
  <2> DEFINE x == [paper[d] EXCEPT ![Flag] = StampRow(@, now, d, FALSE)]
  <2>1. paper[d] \in [Part -> Row] /\ Exists(d)
    BY <1>0, WholePaper DEF EditsHavePaper
  <2>2. x \in [Part -> Row]
    BY <1>t, <2>1, StampRowAdvances
  <2>3. SetPaper(d, x) /\ UNCHANGED <<copies, drafts, writes, faults>>
    BY <1>3 DEF TouchRow
  <2> HIDE DEF x
  <2>4. e \in EditState /\ [e EXCEPT !.stamped = TRUE] \in EditState
    <3>1. e \in EditState
      BY <1>0 DEF TypeOK
    <3> QED BY <3>1 DEF EditState
  <2>5. edits' \in [Device -> SUBSET EditState]
    BY <1>0, <1>3, <2>4 DEF TouchRow, TypeOK
  <2>6. EditsHavePaper'
    BY <1>0, <1>3, <2>1, <2>2, <2>3, SetPaperType DEF TouchRow, EditsHavePaper, TypeOK
  <2>7. paper'[d][Flag].ua \in Nat
    BY <1>t, <2>2, <2>3, SetPaperType DEF Row
  <2>8. under' \in [Device -> [Col -> Nat]]
    BY <1>0, <1>3, <2>7 DEF TouchRow, TypeOK
  <2> QED BY <1>0, <1>c, <2>2, <2>3, <2>5, <2>6, <2>8, SetPaperType DEF Types, TypeOK
<1>4. ASSUME NEW d \in Device, NEW e \in edits[d], NEW now \in Time, TouchColumns(d, e, now)
      PROVE  Types'
  <2> DEFINE x == [q \in Part |-> IF q \in e.cols THEN StampRow(paper[d][q], now, d, FALSE)
                                                   ELSE paper[d][q]]
  <2>1. paper[d] \in [Part -> Row] /\ Exists(d)
    BY <1>0, WholePaper DEF EditsHavePaper
  <2>2. x \in [Part -> Row]
    BY <1>t, <2>1, StampRowAdvances
  <2>3. SetPaper(d, x) /\ UNCHANGED <<copies, drafts, under, writes, faults>>
    BY <1>4 DEF TouchColumns
  <2> HIDE DEF x
  <2>4. edits' \in [Device -> SUBSET EditState]
    BY <1>0, <1>4 DEF TouchColumns, TypeOK
  <2>5. EditsHavePaper'
    BY <1>0, <1>4, <2>1, <2>2, <2>3, SetPaperType DEF TouchColumns, EditsHavePaper, TypeOK
  <2> QED BY <1>0, <1>c, <2>2, <2>3, <2>4, <2>5, SetPaperType DEF Types, TypeOK
<1>5. ASSUME NEW d \in Device, NEW now \in Time, DeletePaper(d, now)
      PROVE  Types'
  <2> DEFINE x == [paper[d] EXCEPT ![Flag] = StampRow(@, now, d, TRUE)]
  <2>1. paper[d] \in [Part -> Row]
    BY <1>5, WholePaper DEF DeletePaper
  <2>2. x \in [Part -> Row]
    BY <1>t, <2>1, StampRowAdvances
  <2>3. SetPaper(d, x) /\ CanWrite /\ UNCHANGED <<edits, copies, drafts, under, faults>>
    BY <1>5 DEF DeletePaper
  <2> HIDE DEF x
  <2> QED BY <1>0, <1>c, <1>p, <1>w, <2>2, <2>3, SetPaperType DEF Types, TypeOK
<1>6. ASSUME NEW d \in Device, Publish(d)
      PROVE  Types'
  <2>1. UNCHANGED <<paper, edits, drafts, under, writes, faults>>
    BY <1>6 DEF Publish
  <2>2. EditsHavePaper'
    BY <1>0, <2>1 DEF EditsHavePaper, Exists
  <2> QED BY <1>0, <1>6, <2>1, <2>2, PublishType DEF Types, TypeOK, Exists
\* A copy a peer has published, as the merge reads it.
<1>r. ASSUME NEW p \in Device, NEW c \in copies[p]
      PROVE  c \in Copy /\ c.parts[Flag] # NoRow
  BY <1>0 DEF TypeOK, CopiesHaveRow, AllCopies
<1>7. ASSUME NEW d \in Device, NEW p \in Device, NEW c \in copies[p], Merge(d, p, c)
      PROVE  Types'
  <2>1. MergePaper(paper[d], ColumnClocks(c)) \in [Part -> Row]
    BY <1>0, <1>r, ColumnClocksType, MergePaperType DEF TypeOK, Exists
  <2> QED BY <1>0, <1>7, <1>c, <1>p, <2>1, SetPaperType DEF Merge, Types, TypeOK
<1>8. ASSUME NEW d \in Device, NEW p \in Device, NEW c \in copies[p], MergeOlder(d, p, c)
      PROVE  Types'
  <2> DEFINE whole == [q \in Part |-> IF c.parts[q] = NoRow THEN Unstamped(NoValue)
                                                            ELSE c.parts[q]]
             x == IF Exists(d) /\ ~Newer(c.parts[Flag], paper[d][Flag]) THEN paper[d]
                  ELSE whole
  <2>1. whole \in [Part -> Row]
    BY <1>r, PlaceholderType DEF Copy, Paper, MaybeRow
  <2>2. x \in [Part -> Row]
    BY <2>1, WholePaper
  <2>3. SetPaper(d, x) /\ UNCHANGED <<edits, copies, drafts, under, writes, faults>>
    BY <1>8 DEF MergeOlder
  <2> HIDE DEF x
  <2> QED BY <1>0, <1>c, <1>p, <2>2, <2>3, SetPaperType DEF Types, TypeOK
<1>9. ASSUME NEW d \in Device, Fault(d)
      PROVE  Types'
  <2>1. CanFail /\ UNCHANGED <<paper, copies, drafts, under, writes>>
    BY <1>9 DEF Fault, Crash, TouchFails
  <2>2. PICK E \in SUBSET edits[d] : edits' = [edits EXCEPT ![d] = E]
    BY <1>9 DEF Fault, Crash, TouchFails
  <2>3. edits' \in [Device -> SUBSET EditState] /\ EditsHavePaper'
    BY <1>0, <2>1, <2>2 DEF TypeOK, EditsHavePaper, Exists
  <2> QED BY <1>0, <1>c, <1>f, <2>1, <2>3 DEF Types, TypeOK, Exists
<1>10. CASE UNCHANGED vars
  <2>1. EditsHavePaper'
    BY <1>0, <1>10 DEF vars, EditsHavePaper, Exists
  <2> QED BY <1>0, <1>10, <1>c, <2>1 DEF vars, Types, TypeOK, Exists
<1> QED
  BY <1>1, <1>2, <1>3, <1>4, <1>5, <1>6, <1>7, <1>8, <1>9, <1>10
  DEF Next, Edit, Stamp, Import

\* Papers are whole rows or none, edits, files and drafts what the code makes of
\* them, whichever devices run the older version.
THEOREM TypesHold == Spec => []Types
<1> QED BY InitTypes, NextTypes, PTL DEF Spec

\* The type invariant of the run.
THEOREM TypeCorrect == Spec => []TypeOK
<1>1. Types => TypeOK
  BY DEF Types
<1> QED BY <1>1, TypesHold, PTL

-----------------------------------------------------------------------------
(* Parts.  The ways one part of a device's paper changes in a step, once every
   device runs the version with column clocks. *)

\* What d has written and not stamped yet.
Owed(d) == UNION {e.cols : e \in edits[d]}

NotNewlyOwed(d, q) == q \in Owed(d)' => q \in Owed(d)

\* The row's own part has no payload, and a column is never dead by itself.
Plain(q, r) == IF q = Flag THEN r.val = NoValue ELSE ~r.deleted

\* The part is there for the first time: written and not stamped, or a placeholder.
Begun(d, q) ==
    LET new == paper'[d][q] IN
    /\ paper[d][q] = NoRow
    /\ new \in Row /\ new = Unstamped(new.val)
    /\ Plain(q, new)
    /\ q \in Owed(d)' => new.val # NoValue

\* A payload write d owes a stamp for; its clock is a draft's.
Drafted(d, q) ==
    LET old == paper[d][q]  new == paper'[d][q] IN
    /\ q # Flag /\ old \in Row /\ new \in Row
    /\ SameClock(new, old) /\ new.deleted = old.deleted
    /\ new.val # NoValue
    /\ <<q, new.ua, new.ub>> \in drafts'
    /\ q \in Owed(d)' \ Owed(d)

Stamped(d, q) ==
    LET old == paper[d][q]  new == paper'[d][q] IN
    /\ old \in Row /\ new \in Row
    /\ new.ub = d /\ new.ua > old.ua /\ new.val = old.val
    /\ q # Flag => ~new.deleted /\ q \in Owed(d)

Merged(d, q) ==
    LET old == paper[d][q]  new == paper'[d][q] IN
    /\ new \in Versions(q) /\ new \in Row
    /\ old # NoRow => Newer(new, old)

Kept(d, q) == paper'[d][q] = paper[d][q]

PartStep(d, q) ==
    \/ Begun(d, q) \/ Drafted(d, q)
    \/ NotNewlyOwed(d, q) /\ (Kept(d, q) \/ Stamped(d, q) \/ Merged(d, q))

AllClocked == \A c \in AllCopies : c.clocked

\* Every version of a part is a row.
LEMMA VersionsAreRows ==
    ASSUME Types, NEW q \in Part
    PROVE  /\ Versions(q) \subseteq Row
           /\ \A d \in Device : paper[d][q] # NoRow => paper[d][q] \in Versions(q)
           /\ \A c \in AllCopies : c.parts[q] # NoRow => c.parts[q] \in Versions(q)
<1>1. \A d \in Device : paper[d][q] \in MaybeRow
  BY DEF Types, TypeOK, Paper
<1>2. \A c \in AllCopies : c \in Copy
  BY DEF Types, TypeOK, AllCopies
<1>3. \A c \in AllCopies : c.parts[q] \in MaybeRow
  BY <1>2 DEF Copy, Paper
<1> QED BY <1>1, <1>3 DEF Versions, MaybeRow

\* Only columns are owed.
LEMMA OwedAreColumns ==
    ASSUME Types PROVE \A d \in Device : Owed(d) \subseteq Col
<1> SUFFICES ASSUME NEW d \in Device, NEW e \in edits[d] PROVE e.cols \subseteq Col
  BY DEF Owed
<1>1. e \in EditState
  BY DEF Types, TypeOK
<1> QED BY <1>1 DEF EditState

\* In a step every part of every paper is kept, or changes in one of the ways.
LEMMA StepParts ==
    ASSUME Older = {}, Types, AllClocked, [Next]_vars
    PROVE  /\ drafts \subseteq drafts'
           /\ \A d \in Device, q \in Part : PartStep(d, q)
<1>0. TypeOK /\ EditsHavePaper /\ CopiesHaveRow
  BY DEF Types
<1>t. Time \subseteq Nat /\ Flag \in Part /\ Col \subseteq Part /\ Flag \notin Col
  BY ColumnAssumption DEF Time, Part
<1>v. Device \subseteq Nat \ {0} /\ NoValue \notin Value
  BY DeviceAssumption, ValueAssumption
\* A device whose paper stays and whose edits at most end.
<1>k. ASSUME NEW d \in Device, paper'[d] = paper[d], Owed(d)' \subseteq Owed(d)
      PROVE  \A q \in Part : PartStep(d, q)
  BY <1>k DEF PartStep, Kept, NotNewlyOwed
<1>o. ASSUME NEW d \in Device, edits'[d] = edits[d]
      PROVE  Owed(d)' \subseteq Owed(d)
  BY <1>o DEF Owed
\* A step of one device is judged by what it does to that device's paper.
<1>d. ASSUME NEW d \in Device, NEW x \in [Part -> Row], SetPaper(d, x),
             \A e \in Device \ {d} : edits'[e] = edits[e],
             \A q \in Part : PartStep(d, q)
      PROVE  \A e \in Device, q \in Part : PartStep(e, q)
  <2>1. \A e \in Device \ {d} : paper'[e] = paper[e]
    BY <1>d, SetPaperType
  <2> QED BY <1>d, <1>k, <1>o, <2>1
<1>1. ASSUME NEW d \in Device, NEW v \in Value, InsertPaper(d, v)
      PROVE  drafts \subseteq drafts' /\ \A e \in Device, q \in Part : PartStep(e, q)
  <2> DEFINE x == [q \in Part |-> Unstamped(IF q = Flag THEN NoValue ELSE v)]
  <2>1. x \in [Part -> Row]
    BY DEF Unstamped, Row, Content
  <2>2. SetPaper(d, x) /\ drafts \subseteq drafts'
    BY <1>1 DEF InsertPaper, Written
  <2>3. \A e \in Device \ {d} : edits'[e] = edits[e]
    BY <1>0, <1>1 DEF InsertPaper, Written, TypeOK
  <2>4. ASSUME NEW q \in Part PROVE Begun(d, q)
    <3>1. paper'[d] = x
      BY <2>1, <2>2, SetPaperType
    <3>2. paper[d][q] = NoRow
      BY <1>0, <1>1 DEF InsertPaper, TypeOK
    <3>3. x[q] = Unstamped(IF q = Flag THEN NoValue ELSE v)
      OBVIOUS
    <3>4. x[q].val = (IF q = Flag THEN NoValue ELSE v) /\ ~x[q].deleted
      BY <3>3 DEF Unstamped
    <3>5. Owed(d)' \subseteq Col
      BY NextTypes, OwedAreColumns DEF Owed, Types, TypeOK, EditState
    <3> HIDE DEF x
    <3> QED BY <1>t, <1>v, <2>1, <3>1, <3>2, <3>3, <3>4, <3>5 DEF Begun, Plain
  <2> HIDE DEF x
  <2> QED BY <1>d, <2>1, <2>2, <2>3, <2>4 DEF PartStep
<1>2. ASSUME NEW d \in Device, NEW C \in SUBSET Col, NEW v \in Value, UpdatePaper(d, C, v)
      PROVE  drafts \subseteq drafts' /\ \A e \in Device, q \in Part : PartStep(e, q)
  <2> DEFINE x == [q \in Part |-> IF q \in C THEN [paper[d][q] EXCEPT !.val = v]
                                              ELSE paper[d][q]]
  <2>1. paper[d] \in [Part -> Row]
    BY <1>2, WholePaper DEF UpdatePaper
  <2>2. x \in [Part -> Row]
    BY <2>1 DEF Row, Content
  <2>3. /\ SetPaper(d, x)
        /\ drafts' = drafts \union {<<q, x[q].ua, x[q].ub>> : q \in C}
        /\ edits' = [edits EXCEPT ![d] = @ \union {[cols |-> C, stamped |-> FALSE]}]
    BY <1>2 DEF UpdatePaper, Written
  <2>4. \A e \in Device \ {d} : edits'[e] = edits[e]
    BY <1>0, <2>3 DEF TypeOK
  <2>5. Owed(d)' = Owed(d) \union C
    <3> DEFINE new == [cols |-> C, stamped |-> FALSE]
    <3>1. edits'[d] = edits[d] \union {new} /\ new.cols = C
      BY <1>0, <2>3 DEF TypeOK
    <3> HIDE DEF new
    <3> QED BY <3>1 DEF Owed
  <2>6. Owed(d) \intersect C = {}
    BY <1>2 DEF UpdatePaper, Owed
  <2>7. paper'[d] = x
    BY <2>2, <2>3, SetPaperType
  <2>8. ASSUME NEW q \in C PROVE Drafted(d, q)
    <3>1. x[q] = [paper[d][q] EXCEPT !.val = v] /\ paper[d][q] \in Row /\ x[q] \in Row
      BY <1>t, <2>1, <2>2
    <3>2. SameClock(x[q], paper[d][q]) /\ x[q].deleted = paper[d][q].deleted /\ x[q].val = v
      BY <3>1 DEF Row, SameClock
    <3> HIDE DEF x
    <3> QED BY <1>t, <1>v, <2>3, <2>5, <2>6, <2>7, <3>1, <3>2 DEF Drafted
  <2>9. ASSUME NEW q \in Part \ C PROVE Kept(d, q) /\ NotNewlyOwed(d, q)
    BY <2>5, <2>7, <2>9 DEF Kept, NotNewlyOwed
  <2>10. drafts \subseteq drafts'
    BY <2>3
  <2> HIDE DEF x
  <2> QED BY <1>d, <2>2, <2>3, <2>4, <2>8, <2>9, <2>10 DEF PartStep
\* The row's own part is stamped and the columns stay as they are.
<1>f. ASSUME NEW d \in Device, NEW now \in Time, NEW dead \in BOOLEAN, Exists(d),
             SetPaper(d, [paper[d] EXCEPT ![Flag] = StampRow(@, now, d, dead)]),
             Owed(d)' \subseteq Owed(d), \A e \in Device \ {d} : edits'[e] = edits[e]
      PROVE  \A e \in Device, q \in Part : PartStep(e, q)
  <2> DEFINE x == [paper[d] EXCEPT ![Flag] = StampRow(@, now, d, dead)]
  <2>1. paper[d] \in [Part -> Row]
    BY <1>f, WholePaper
  <2>2. x \in [Part -> Row] /\ x[Flag] = StampRow(paper[d][Flag], now, d, dead)
    BY <1>t, <2>1, StampRowAdvances
  <2>3. \A q \in Part \ {Flag} : x[q] = paper[d][q]
    BY <2>1
  <2>4. SetPaper(d, x)
    BY <1>f
  <2> HIDE DEF x
  <2>5. paper'[d] = x
    BY <2>2, <2>4, SetPaperType
  <2>6. Stamped(d, Flag)
    BY <1>t, <2>1, <2>2, <2>5, StampRowAdvances DEF Stamped
  <2>7. \A q \in Part \ {Flag} : Kept(d, q)
    BY <2>3, <2>5 DEF Kept
  <2>8. \A q \in Part : NotNewlyOwed(d, q)
    BY <1>f DEF NotNewlyOwed
  <2> QED BY <1>d, <1>f, <2>2, <2>4, <2>6, <2>7, <2>8 DEF PartStep
<1>3. ASSUME NEW d \in Device, NEW e \in edits[d], NEW now \in Time, TouchRow(d, e, now)
      PROVE  drafts \subseteq drafts' /\ \A b \in Device, q \in Part : PartStep(b, q)
  <2>1. Exists(d)
    BY <1>0 DEF EditsHavePaper
  <2>2. /\ edits' = [edits EXCEPT ![d] = (@ \ {e}) \union {[e EXCEPT !.stamped = TRUE]}]
        /\ drafts' = drafts
    BY <1>3 DEF TouchRow
  <2>3. e \in EditState
    BY <1>0 DEF TypeOK
  <2>4. [e EXCEPT !.stamped = TRUE].cols = e.cols
    BY <2>3 DEF EditState
  <2>5. Owed(d)' \subseteq Owed(d)
    <3>1. edits'[d] = (edits[d] \ {e}) \union {[e EXCEPT !.stamped = TRUE]}
      BY <1>0, <2>2 DEF TypeOK
    <3> QED BY <2>4, <3>1 DEF Owed
  <2>6. \A b \in Device \ {d} : edits'[b] = edits[b]
    BY <1>0, <2>2 DEF TypeOK
  <2>7. SetPaper(d, [paper[d] EXCEPT ![Flag] = StampRow(@, now, d, FALSE)])
    BY <1>3 DEF TouchRow
  <2> QED BY <1>f, <2>1, <2>2, <2>5, <2>6, <2>7
<1>4. ASSUME NEW d \in Device, NEW e \in edits[d], NEW now \in Time, TouchColumns(d, e, now)
      PROVE  drafts \subseteq drafts' /\ \A b \in Device, q \in Part : PartStep(b, q)
  <2> DEFINE x == [q \in Part |-> IF q \in e.cols THEN StampRow(paper[d][q], now, d, FALSE)
                                                   ELSE paper[d][q]]
  <2>1. paper[d] \in [Part -> Row]
    BY <1>0, WholePaper DEF EditsHavePaper
  <2>2. x \in [Part -> Row]
    BY <1>t, <2>1, StampRowAdvances
  <2>3. /\ SetPaper(d, x) /\ drafts' = drafts
        /\ edits' = [edits EXCEPT ![d] = @ \ {e}]
    BY <1>4 DEF TouchColumns
  <2>4. \A b \in Device \ {d} : edits'[b] = edits[b]
    BY <1>0, <2>3 DEF TypeOK
  <2>5. Owed(d)' \subseteq Owed(d)
    <3>1. edits'[d] = edits[d] \ {e}
      BY <1>0, <2>3 DEF TypeOK
    <3> QED BY <3>1 DEF Owed
  <2>6. e.cols \subseteq Owed(d) /\ e.cols \subseteq Col
    BY OwedAreColumns DEF Owed
  <2>7. paper'[d] = x
    BY <2>2, <2>3, SetPaperType
  <2>8. ASSUME NEW q \in e.cols PROVE Stamped(d, q)
    <3>1. x[q] = StampRow(paper[d][q], now, d, FALSE) /\ paper[d][q] \in Row
      BY <1>t, <2>1, <2>6
    <3> HIDE DEF x
    <3>2. now \in Nat
      BY <1>t
    <3>3. \A r \in Row :
            /\ StampRow(r, now, d, FALSE) \in Row /\ StampRow(r, now, d, FALSE).ub = d
            /\ StampRow(r, now, d, FALSE).ua > r.ua
            /\ ~StampRow(r, now, d, FALSE).deleted
            /\ StampRow(r, now, d, FALSE).val = r.val
      BY <3>2, StampRowAdvances
    <3>4. /\ x[q] \in Row /\ x[q].ub = d /\ x[q].ua > paper[d][q].ua
          /\ ~x[q].deleted /\ x[q].val = paper[d][q].val
      BY <3>1, <3>3
    <3> QED BY <2>6, <2>7, <3>1, <3>4 DEF Stamped
  <2>9. ASSUME NEW q \in Part \ e.cols PROVE Kept(d, q)
    BY <2>7, <2>9 DEF Kept
  <2>10. \A q \in Part : NotNewlyOwed(d, q)
    BY <2>5 DEF NotNewlyOwed
  <2> HIDE DEF x
  <2> QED BY <1>d, <2>2, <2>3, <2>4, <2>8, <2>9, <2>10 DEF PartStep
<1>5. ASSUME NEW d \in Device, NEW now \in Time, DeletePaper(d, now)
      PROVE  drafts \subseteq drafts' /\ \A e \in Device, q \in Part : PartStep(e, q)
  <2>1. /\ Exists(d) /\ drafts' = drafts /\ edits' = edits
        /\ SetPaper(d, [paper[d] EXCEPT ![Flag] = StampRow(@, now, d, TRUE)])
    BY <1>5 DEF DeletePaper
  <2>2. Owed(d)' \subseteq Owed(d)
    BY <2>1, <1>o
  <2> QED BY <1>f, <2>1, <2>2
<1>6. ASSUME NEW d \in Device, NEW p \in Device, NEW c \in copies[p],
             Merge(d, p, c) \/ MergeOlder(d, p, c)
      PROVE  drafts \subseteq drafts' /\ \A e \in Device, q \in Part : PartStep(e, q)
  <2> DEFINE x == MergePaper(paper[d], c.parts)
  <2>1. c \in AllCopies /\ c \in Copy /\ c.parts[Flag] # NoRow /\ c.clocked
    BY <1>0 DEF TypeOK, CopiesHaveRow, AllCopies, AllClocked
  <2>2. SetPaper(d, x) /\ UNCHANGED <<drafts, edits>>
    BY <1>6, <2>1 DEF Merge, MergeOlder, ColumnClocks
  <2>3. c.parts \in Paper /\ paper[d] \in Paper
    BY <1>0, <2>1 DEF Copy, TypeOK
  <2>4. x \in [Part -> Row]
    BY <1>0, <2>1, <2>3, MergePaperType DEF TypeOK, Exists
  <2>5. paper'[d] = x
    BY <2>2, <2>4, SetPaperType
  <2>6. Owed(d)' = Owed(d)
    BY <2>2 DEF Owed
  <2>7. ASSUME NEW q \in Part PROVE PartStep(d, q)
    <3>1. NotNewlyOwed(d, q)
      BY <2>6 DEF NotNewlyOwed
    <3>2. paper[d][q] \in MaybeRow /\ c.parts[q] \in MaybeRow
      BY <2>3 DEF Paper
    <3>3. CASE c.parts[q] # NoRow
      <4>1. x[q] = MergeRow(paper[d][q], c.parts[q]) /\ c.parts[q] \in Row
        BY <3>2, <3>3 DEF MergePaper, MaybeRow
      <4>2. x[q] = paper[d][q] \/ (x[q] = c.parts[q] /\
                (paper[d][q] # NoRow => Newer(x[q], paper[d][q])))
        BY <4>1 DEF MergeRow
      <4>3. c.parts[q] \in Versions(q)
        BY <2>1, <3>3, VersionsAreRows
      <4> HIDE DEF x
      <4> QED BY <2>5, <3>1, <4>1, <4>2, <4>3 DEF PartStep, Kept, Merged
    <3>4. CASE c.parts[q] = NoRow /\ paper[d][q] # NoRow
      <4>1. x[q] = paper[d][q]
        BY <3>4 DEF MergePaper
      <4> QED BY <2>5, <3>1, <4>1 DEF PartStep, Kept
    <3>5. CASE c.parts[q] = NoRow /\ paper[d][q] = NoRow
      <4>1. x[q] = Unstamped(NoValue) /\ q # Flag
        BY <2>1, <3>5 DEF MergePaper
      <4>2. Owed(d)' = {}
        BY <1>0, <2>6, <3>5 DEF TypeOK, EditsHavePaper, Owed
      <4>3. x[q].val = NoValue /\ ~x[q].deleted
        BY <4>1 DEF Unstamped
      <4> HIDE DEF x
      <4> QED BY <2>4, <2>5, <3>5, <4>1, <4>2, <4>3 DEF PartStep, Begun, Plain
    <3> QED BY <3>3, <3>4, <3>5
  <2> HIDE DEF x
  <2> QED BY <1>d, <2>2, <2>4, <2>7
<1>7. ASSUME NEW d \in Device, Publish(d) \/ Fault(d)
      PROVE  drafts \subseteq drafts' /\ \A e \in Device, q \in Part : PartStep(e, q)
  <2>1. UNCHANGED <<paper, drafts>>
    BY <1>7 DEF Publish, Fault, Crash, TouchFails
  <2>2. \A e \in Device : edits'[e] \subseteq edits[e]
    BY <1>0, <1>7 DEF Publish, Fault, Crash, TouchFails, TypeOK
  <2>3. \A e \in Device : Owed(e)' \subseteq Owed(e)
    BY <2>2 DEF Owed
  <2> QED BY <1>k, <2>1, <2>3
<1>8. CASE UNCHANGED vars
  BY <1>k, <1>o, <1>8 DEF vars
<1> QED BY <1>1, <1>2, <1>3, <1>4, <1>5, <1>6, <1>7, <1>8 DEF Next, Edit, Stamp, Import

\* The versions after a step are those before it and those the papers now hold.
LEMMA StepVersions ==
    ASSUME Types, [Next]_vars, NEW q \in Part
    PROVE  /\ Versions(q)' \subseteq Versions(q) \union {paper'[d][q] : d \in Device}
           /\ Older = {} /\ AllClocked => AllClocked'
<1>1. ASSUME NEW c \in AllCopies', c \notin AllCopies
      PROVE  \E d \in Device : c = CurrentCopy(d) /\ paper' = paper
  <2>1. copies' # copies
    BY <1>1 DEF AllCopies
  <2>2. PICK d \in Device : Publish(d)
    BY <2>1 DEF Next, Edit, Stamp, Import, Fault, vars, InsertPaper, UpdatePaper, TouchRow,
         TouchColumns, DeletePaper, Merge, MergeOlder, Crash, TouchFails
  <2>3. copies'[d] \subseteq copies[d] \union {CurrentCopy(d)}
    BY <2>2 DEF Publish, Types, TypeOK
  <2>4. \A e \in Device \ {d} : copies'[e] = copies[e]
    BY <2>2 DEF Publish, Types, TypeOK
  <2>5. c = CurrentCopy(d)
    BY <1>1, <2>3, <2>4 DEF AllCopies
  <2> QED BY <2>2, <2>5 DEF Publish
<1>2. \A d \in Device : CurrentCopy(d).parts[q] \in {NoRow, paper[d][q]}
                        /\ CurrentCopy(d).clocked = (d \notin Older)
  BY DEF CurrentCopy, PublishedPaper
<1>3. ASSUME NEW a \in Versions(q)'
      PROVE  a \in Versions(q) \union {paper'[d][q] : d \in Device}
  <2>1. CASE \E d \in Device : a = paper'[d][q]
    BY <2>1
  <2>2. ASSUME NEW c \in AllCopies', a = c.parts[q]
        PROVE  a \in Versions(q) \union {paper'[d][q] : d \in Device}
    <3>1. a # NoRow
      BY <1>3 DEF Versions
    <3>2. CASE c \in AllCopies
      BY <2>2, <3>1, <3>2 DEF Versions
    <3>3. CASE c \notin AllCopies
      BY <1>1, <1>2, <2>2, <3>1, <3>3
    <3> QED BY <3>2, <3>3
  <2> QED BY <1>3, <2>1, <2>2 DEF Versions
<1>4. Older = {} /\ AllClocked => AllClocked'
  BY <1>1, <1>2 DEF AllClocked
<1> QED BY <1>3, <1>4

-----------------------------------------------------------------------------
(* Clocks. *)

\* Versions are plain, and a placeholder is one no device has stamped.
VersionsPlain == \A q \in Part : \A a \in Versions(q) : Plain(q, a)

PlaceholdersUnstamped ==
    \A q \in Col : \A a \in Versions(q) : a.val = NoValue => a.ua = 0 /\ a.ub = Nobody

\* What a device owes a stamp for is there, and is no placeholder.
OwedHaveValues ==
    \A d \in Device : \A q \in Owed(d) : paper[d][q] # NoRow /\ paper[d][q].val # NoValue

\* A device is ahead of every version of a part it has stamped.
PartAuthorLeads ==
    \A q \in Part : \A a \in Versions(q) :
        a.ub # Nobody => paper[a.ub][q] # NoRow /\ a.ua <= paper[a.ub][q].ua

\* The inductive invariant.
Clocks ==
    /\ Types /\ AllClocked
    /\ VersionsPlain /\ PlaceholdersUnstamped /\ OwedHaveValues
    /\ PartAuthorLeads /\ SameClockSameVersion

\* What is new among the versions after a step some device has just begun, drafted
\* or stamped.
LEMMA StepNewVersion ==
    ASSUME Older = {}, Types, AllClocked, [Next]_vars, NEW q \in Part,
           NEW a \in Versions(q)', a \notin Versions(q)
    PROVE  \E d \in Device : /\ a = paper'[d][q]
                             /\ Begun(d, q) \/ Drafted(d, q) \/ Stamped(d, q)
<1>1. PICK d \in Device : a = paper'[d][q]
  BY StepVersions
<1>2. a # NoRow
  BY DEF Versions
<1>3. ~Kept(d, q) /\ ~Merged(d, q)
  BY <1>1, <1>2, VersionsAreRows DEF Kept, Merged
<1> QED BY <1>1, <1>3, StepParts DEF PartStep

\* Whatever a step does to a part, the part stays and its time does not fall.
LEMMA PartsStay ==
    ASSUME Older = {}, Types, AllClocked, [Next]_vars,
           NEW d \in Device, NEW q \in Part, paper[d][q] # NoRow
    PROVE  paper'[d][q] \in Row /\ paper'[d][q].ua >= paper[d][q].ua
<1>1. paper[d][q] \in Row
  BY VersionsAreRows
<1>2. PartStep(d, q)
  BY StepParts
<1> QED BY <1>1, <1>2
        DEF PartStep, Begun, Drafted, Kept, Stamped, Merged, Newer, SameClock, Row

\* A stamp is new: no version anywhere has the clock.
LEMMA StampIsNew ==
    ASSUME Clocks, NEW d \in Device, NEW q \in Part, Stamped(d, q), NEW c \in Versions(q)
    PROVE  ~SameClock(c, paper'[d][q])
<1> SUFFICES ASSUME SameClock(c, paper'[d][q]) PROVE FALSE
  OBVIOUS
<1>1. c \in Row /\ paper[d][q] \in Row /\ paper'[d][q] \in Row
  BY VersionsAreRows DEF Clocks, Stamped
<1>2. c.ub = d /\ c.ua = paper'[d][q].ua /\ paper'[d][q].ua > paper[d][q].ua
  BY DEF SameClock, Stamped
<1>3. d # Nobody
  BY DeviceAssumption DEF Nobody
<1>4. c.ua <= paper[d][q].ua
  BY <1>2, <1>3 DEF Clocks, PartAuthorLeads
<1> QED BY <1>1, <1>2, <1>4 DEF Row

\* At first there is one version of each part, or none, and it is stamped.
LEMMA InitVersions ==
    ASSUME Init, NEW q \in Part
    PROVE  /\ \A a \in Versions(q) : \A d \in Device : a = paper[d][q]
           /\ \A a \in Versions(q) : /\ a \in Row /\ a.ub # Nobody /\ ~a.deleted
                                     /\ a.val = NoValue <=> q = Flag
<1>1. PICK x \in Paper :
             /\ paper = [d \in Device |-> x]
             /\ \A p \in Part : x[p] = NoRow <=> x[Flag] = NoRow
             /\ x[Flag] # NoRow => Settled(x)
             /\ \A d \in Device : \A c \in copies[d] :
                   /\ x[Flag] # NoRow /\ c \in Copy
                   /\ c.parts = x /\ c.clocked = (d \notin Older)
  BY InitPaper
<1>2. \A a \in Versions(q) : a = x[q] /\ a # NoRow
  BY <1>1 DEF Versions, AllCopies
<1> QED BY <1>1, <1>2 DEF Settled

\* The invariant holds at first.
LEMMA InitClocks == ASSUME Older = {} PROVE Init => Clocks
<1> SUFFICES ASSUME Init PROVE Clocks
  OBVIOUS
<1>1. Types
  BY InitTypes
<1>2. AllClocked
  <2>1. \A d \in Device : \A c \in copies[d] : c.clocked
    BY InitPaper
  <2> QED BY <2>1 DEF AllClocked, AllCopies
<1>3. \A d \in Device : Owed(d) = {}
  BY DEF Init, Owed
<1>4. Flag \in Part /\ Flag \notin Col /\ Col \subseteq Part
  BY ColumnAssumption DEF Part
<1>5. VersionsPlain /\ PlaceholdersUnstamped
  BY <1>4, InitVersions DEF VersionsPlain, PlaceholdersUnstamped, Plain
<1>6. PartAuthorLeads
  <2> SUFFICES ASSUME NEW q \in Part, NEW a \in Versions(q), a.ub # Nobody
               PROVE  paper[a.ub][q] # NoRow /\ a.ua <= paper[a.ub][q].ua
    BY DEF PartAuthorLeads
  <2>1. a \in Row /\ \A d \in Device : a = paper[d][q]
    BY InitVersions
  <2>2. a.ub \in Device /\ a.ua \in Nat /\ a # NoRow
    BY <2>1, NoRowAssumption DEF Row
  <2> QED BY <2>1, <2>2
<1>7. SameClockSameVersion
  <2> SUFFICES ASSUME NEW q \in Part, NEW a \in Versions(q), NEW b \in Versions(q),
                      a.ub # Nobody
               PROVE  a = b
    BY DEF SameClockSameVersion
  <2>1. a \in Row /\ a = paper[a.ub][q] /\ b = paper[a.ub][q]
    BY InitVersions DEF Row
  <2> QED BY <2>1
<1> QED BY <1>1, <1>2, <1>3, <1>5, <1>6, <1>7 DEF Clocks, OwedHaveValues

\* Every step keeps the invariant.
LEMMA NextClocks == ASSUME Older = {} PROVE Clocks /\ [Next]_vars => Clocks'
<1> SUFFICES ASSUME Clocks, [Next]_vars PROVE Clocks'
  OBVIOUS
<1>0. /\ Types /\ AllClocked /\ VersionsPlain /\ PlaceholdersUnstamped /\ OwedHaveValues
      /\ PartAuthorLeads /\ SameClockSameVersion
  BY DEF Clocks
<1>1. Types'
  BY <1>0, NextTypes
<1>2. drafts \subseteq drafts' /\ \A d \in Device, q \in Part : PartStep(d, q)
  BY <1>0, StepParts
<1>3. \A q \in Part : Versions(q) \subseteq Row
  BY <1>0, VersionsAreRows
<1>4. Col \subseteq Part /\ Flag \notin Col /\ Nobody \notin Device
  BY ColumnAssumption, DeviceAssumption DEF Part, Nobody
<1>5. AllClocked'
  <2>1. Flag \in Part
    BY DEF Part
  <2> QED BY <1>0, <2>1, StepVersions
\* The version a device drafts or stamps over is one.
<1>6. ASSUME NEW d \in Device, NEW q \in Part, Drafted(d, q) \/ Stamped(d, q)
      PROVE  paper[d][q] \in Row /\ paper[d][q] \in Versions(q)
  BY <1>0, <1>6, NoRowAssumption, VersionsAreRows DEF Drafted, Stamped
<1>7. VersionsPlain'
  <2> SUFFICES ASSUME NEW q \in Part, NEW a \in Versions(q)' PROVE Plain(q, a)
    BY DEF VersionsPlain, Plain
  <2>1. CASE a \in Versions(q)
    BY <1>0, <2>1 DEF VersionsPlain
  <2>2. ASSUME NEW d \in Device, a = paper'[d][q],
               Begun(d, q) \/ Drafted(d, q) \/ Stamped(d, q)
        PROVE  Plain(q, a)
    BY <1>0, <1>6, <2>2 DEF VersionsPlain, Begun, Drafted, Stamped, Plain
  <2> QED BY <1>0, <2>1, <2>2, StepNewVersion
<1>8. PlaceholdersUnstamped'
  <2> SUFFICES ASSUME NEW q \in Col, NEW a \in Versions(q)', a.val = NoValue
               PROVE  a.ua = 0 /\ a.ub = Nobody
    BY DEF PlaceholdersUnstamped
  <2>1. CASE a \in Versions(q)
    BY <1>0, <2>1 DEF PlaceholdersUnstamped
  <2>2. ASSUME NEW d \in Device, a = paper'[d][q],
               Begun(d, q) \/ Drafted(d, q) \/ Stamped(d, q)
        PROVE  a.ua = 0 /\ a.ub = Nobody
    <3>1. CASE Begun(d, q)
      BY <2>2, <3>1 DEF Begun, Unstamped
    <3>2. ~Drafted(d, q)
      BY <2>2 DEF Drafted
    <3>3. ~Stamped(d, q)
      BY <1>0, <1>4, <2>2 DEF Stamped, OwedHaveValues
    <3> QED BY <2>2, <3>1, <3>2, <3>3
  <2> QED BY <1>0, <1>4, <2>1, <2>2, StepNewVersion
<1>9. OwedHaveValues'
  <2> SUFFICES ASSUME NEW d \in Device, NEW q \in Owed(d)'
               PROVE  paper'[d][q] # NoRow /\ paper'[d][q].val # NoValue
    BY DEF OwedHaveValues
  <2>1. q \in Col /\ q \in Part
    BY <1>1, <1>4, OwedAreColumns DEF Types, TypeOK, EditState, Owed
  <2>2. CASE Begun(d, q) \/ Drafted(d, q)
    BY <2>2, NoRowAssumption DEF Begun, Drafted
  <2>3. CASE q \in Owed(d) /\ (Kept(d, q) \/ Stamped(d, q) \/ Merged(d, q))
    <3>1. paper[d][q] # NoRow /\ paper[d][q].val # NoValue
      BY <1>0, <2>3 DEF OwedHaveValues
    <3>2. CASE Kept(d, q)
      BY <3>1, <3>2 DEF Kept
    <3>3. CASE Stamped(d, q)
      BY <3>1, <3>3, NoRowAssumption DEF Stamped
    <3>4. CASE Merged(d, q)
      <4>1. paper[d][q] \in Row /\ paper'[d][q] \in Row /\ paper'[d][q] \in Versions(q)
            /\ Newer(paper'[d][q], paper[d][q])
        BY <1>0, <2>1, <3>1, <3>4, VersionsAreRows DEF Merged
      <4>2. paper'[d][q].val = NoValue => paper'[d][q].ua = 0 /\ paper'[d][q].ub = Nobody
        BY <1>0, <2>1, <4>1 DEF PlaceholdersUnstamped
      <4>3. ~(paper'[d][q].ua = 0 /\ paper'[d][q].ub = Nobody)
        BY <4>1, PlaceholderType DEF Newer, Unstamped
      <4> QED BY <4>1, <4>2, <4>3, NoRowAssumption
    <3> QED BY <2>3, <3>2, <3>3, <3>4
  <2> QED BY <1>2, <2>1, <2>2, <2>3 DEF PartStep, NotNewlyOwed
\* A version the author was ahead of before the step, the author is still ahead of.
<1>10. ASSUME NEW q \in Part, NEW a \in Versions(q), a.ub # Nobody
       PROVE  paper'[a.ub][q] # NoRow /\ a.ua <= paper'[a.ub][q].ua
  <2>1. a \in Row /\ a.ub \in Device
    BY <1>3, <1>10 DEF Row
  <2>2. paper[a.ub][q] # NoRow /\ a.ua <= paper[a.ub][q].ua
    BY <1>0, <1>10 DEF PartAuthorLeads
  <2>3. paper'[a.ub][q] \in Row /\ paper'[a.ub][q].ua >= paper[a.ub][q].ua
    BY <1>0, <2>1, <2>2, PartsStay
  <2>4. paper[a.ub][q] \in Row
    BY <1>0, <2>1, <2>2, VersionsAreRows
  <2> QED BY <2>1, <2>2, <2>3, <2>4, NoRowAssumption DEF Row
<1>11. PartAuthorLeads'
  <2> SUFFICES ASSUME NEW q \in Part, NEW a \in Versions(q)', a.ub # Nobody
               PROVE  paper'[a.ub][q] # NoRow /\ a.ua <= paper'[a.ub][q].ua
    BY DEF PartAuthorLeads
  <2>1. CASE a \in Versions(q)
    BY <1>10, <2>1
  <2>2. ASSUME NEW d \in Device, a = paper'[d][q],
               Begun(d, q) \/ Drafted(d, q) \/ Stamped(d, q)
        PROVE  paper'[a.ub][q] # NoRow /\ a.ua <= paper'[a.ub][q].ua
    <3>1. ~Begun(d, q)
      BY <2>2 DEF Begun, Unstamped
    <3>2. CASE Drafted(d, q)
      <4>1. paper[d][q] \in Versions(q) /\ paper[d][q].ub = a.ub /\ paper[d][q].ua = a.ua
        BY <1>6, <2>2, <3>2 DEF Drafted, SameClock
      <4> QED BY <1>10, <2>2, <4>1
    <3>3. CASE Stamped(d, q)
      BY <2>2, <3>3, NoRowAssumption DEF Stamped, Row
    <3> QED BY <2>2, <3>1, <3>2, <3>3
  <2> QED BY <1>0, <2>1, <2>2, StepNewVersion
<1>12. SameClockSameVersion'
  <2> SUFFICES ASSUME NEW q \in Part, NEW a \in Versions(q)', NEW b \in Versions(q)',
                      SameClock(a, b), <<q, a.ua, a.ub>> \notin drafts', a.ub # Nobody
               PROVE  a = b
    BY DEF SameClockSameVersion
  <2>1. CASE a \in Versions(q) /\ b \in Versions(q)
    BY <1>0, <1>2, <2>1 DEF SameClockSameVersion
\* A clock that is no draft's and has an owner is new only where it is stamped.
  <2>2. ASSUME NEW c \in Versions(q)', c \notin Versions(q), SameClock(a, c)
        PROVE  c.ub \in Device /\ c = paper'[c.ub][q] /\ Stamped(c.ub, q)
    <3>1. PICK d \in Device : /\ c = paper'[d][q]
                              /\ Begun(d, q) \/ Drafted(d, q) \/ Stamped(d, q)
      BY <1>0, <2>2, StepNewVersion
    <3>2. ~Begun(d, q) /\ ~Drafted(d, q)
      BY <2>2, <3>1 DEF Begun, Unstamped, Drafted, SameClock
    <3> QED BY <3>1, <3>2 DEF Stamped
  <2>3. SameClock(a, a)
    BY DEF SameClock
  <2>4. CASE a \notin Versions(q) /\ b \notin Versions(q)
    BY <2>2, <2>3, <2>4 DEF SameClock
  <2>5. CASE a \notin Versions(q) /\ b \in Versions(q)
    BY <2>2, <2>3, <2>5, StampIsNew DEF SameClock
  <2>6. CASE a \in Versions(q) /\ b \notin Versions(q)
    BY <2>2, <2>6, StampIsNew DEF SameClock
  <2> QED BY <2>1, <2>4, <2>5, <2>6
<1> QED BY <1>1, <1>5, <1>7, <1>8, <1>9, <1>11, <1>12 DEF Clocks

\* In every reachable state the clocks of all parts are in order.
THEOREM ClocksHold == ASSUME Older = {} PROVE Spec => []Clocks
<1> QED BY InitClocks, NextClocks, PTL DEF Spec

\* Column clocks name versions: merge_row_per_column may ignore a column that ties.
THEOREM ClockNamesVersion == ASSUME Older = {} PROVE Spec => []SameClockSameVersion
<1>1. Clocks => SameClockSameVersion
  BY DEF Clocks
<1> QED BY <1>1, ClocksHold, PTL

\* The order in which a device reads its peers' files changes nothing of what it
\* ends up with (but for what is under a draft's clock, or nobody's).
THEOREM OrderIrrelevant == ASSUME Older = {} PROVE Spec => []MergesCommute
<1>1. Clocks => MergesCommute
  <2> SUFFICES ASSUME Clocks, NEW d \in Device, NEW a \in AllCopies, NEW b \in AllCopies,
                      NEW q \in Part
               PROVE  LET ab == MergePaper(MergePaper(paper[d], ColumnClocks(a)), ColumnClocks(b))
                          ba == MergePaper(MergePaper(paper[d], ColumnClocks(b)), ColumnClocks(a))
                      IN  \/ ab[q] = ba[q] \/ ab[q].ub = Nobody
                          \/ <<q, ab[q].ua, ab[q].ub>> \in drafts
    BY DEF MergesCommute
  <2> DEFINE x == a.parts[q]
             y == b.parts[q]
             own == paper[d][q]
             Merged1(r, s) == IF s # NoRow THEN MergeRow(r, s)
                              ELSE IF r = NoRow THEN Unstamped(NoValue) ELSE r
             xy == Merged1(Merged1(own, x), y)
             yx == Merged1(Merged1(own, y), x)
  <2>0. Types /\ AllClocked /\ SameClockSameVersion
    BY DEF Clocks
  <2>1. ColumnClocks(a) = a.parts /\ ColumnClocks(b) = b.parts
    BY <2>0 DEF AllClocked, ColumnClocks
  <2>2. /\ MergePaper(MergePaper(paper[d], a.parts), b.parts)[q] = xy
        /\ MergePaper(MergePaper(paper[d], b.parts), a.parts)[q] = yx
    BY DEF MergePaper
  <2>3. own \in MaybeRow /\ (x # NoRow => x \in Versions(q)) /\ (y # NoRow => y \in Versions(q))
        /\ Versions(q) \subseteq Row
    BY <2>0, VersionsAreRows DEF MaybeRow
  <2> SUFFICES xy = yx \/ xy.ub = Nobody \/ <<q, xy.ua, xy.ub>> \in drafts
    BY <2>1, <2>2
  <2> HIDE DEF x, y, own
  <2>4. CASE x = NoRow /\ y = NoRow
    BY <2>4
  <2>5. CASE x # NoRow /\ y # NoRow
    <3>1. MergeRow(own, x) # NoRow /\ MergeRow(own, y) # NoRow
      BY <2>3, <2>5, MergeRowAdvances
    <3>2. xy = MergeRow(MergeRow(own, x), y) /\ yx = MergeRow(MergeRow(own, y), x)
      BY <2>5
    <3> HIDE DEF xy, yx
    <3>3. xy # yx => SameClock(x, y) /\ xy = x /\ yx = y
      BY <2>3, <2>5, <3>2, MergeRowCommutes
    <3> QED BY <2>0, <2>3, <2>5, <3>3 DEF SameClockSameVersion
\* A placeholder is taken over by what comes later, unless that is a draft as old.
  <2>6. ASSUME NEW r \in Row, (x = r /\ y = NoRow) \/ (x = NoRow /\ y = r)
        PROVE  xy = yx \/ xy.ub = Nobody
    <3>1. CASE own # NoRow
      <4>1. MergeRow(own, r) # NoRow
        BY <2>3, MergeRowAdvances
      <4> QED BY <2>6, <3>1, <4>1, NoRowAssumption
    <3>2. CASE own = NoRow
      <4>1. Unstamped(NoValue) # NoRow /\ r # NoRow
        BY PlaceholderType, NoRowAssumption
      <4>2. {xy, yx} = {r, MergeRow(Unstamped(NoValue), r)}
        BY <2>6, <3>2, <4>1 DEF MergeRow
      <4>3. Newer(r, Unstamped(NoValue)) \/ SameClock(r, Unstamped(NoValue))
        BY PlaceholderType, NewerOrders
      <4>4. CASE Newer(r, Unstamped(NoValue))
        BY <4>2, <4>4 DEF MergeRow
      <4>5. CASE SameClock(r, Unstamped(NoValue))
        BY <4>2, <4>5 DEF MergeRow, SameClock, Unstamped
      <4> QED BY <4>3, <4>4, <4>5
    <3> QED BY <3>1, <3>2
  <2> QED BY <2>3, <2>4, <2>5, <2>6
<1> QED BY <1>1, ClocksHold, PTL

\* No column that has a value ever falls back to a placeholder.
THEOREM PlaceholdersLose == ASSUME Older = {} PROVE Spec => PlaceholdersNeverWin
<1>1. Clocks /\ [Next]_vars =>
        [\A d \in Device, q \in Col :
           paper[d][q] # NoRow /\ paper[d][q].val # NoValue => paper'[d][q].val # NoValue]_vars
  <2> SUFFICES ASSUME Clocks, [Next]_vars, NEW d \in Device, NEW q \in Col,
                      paper[d][q] # NoRow, paper[d][q].val # NoValue
               PROVE  paper'[d][q].val # NoValue
    OBVIOUS
  <2>1. Types /\ AllClocked /\ PlaceholdersUnstamped /\ q \in Part
    BY DEF Clocks, Part
  <2>2. PartStep(d, q) /\ paper[d][q] \in Row
    BY <2>1, StepParts, VersionsAreRows
  <2>3. CASE Begun(d, q) \/ Drafted(d, q) \/ Kept(d, q) \/ Stamped(d, q)
    BY <2>3 DEF Begun, Drafted, Kept, Stamped
  <2>4. CASE Merged(d, q)
    <3>1. paper'[d][q] \in Versions(q) /\ Newer(paper'[d][q], paper[d][q])
      BY <2>4 DEF Merged
    <3>2. ~(paper'[d][q].ua = 0 /\ paper'[d][q].ub = Nobody)
      BY <2>2, <3>1, PlaceholderType DEF Newer, Unstamped
    <3> QED BY <2>1, <3>1, <3>2 DEF PlaceholdersUnstamped
  <2> QED BY <2>2, <2>3, <2>4 DEF PartStep
<1> QED BY <1>1, ClocksHold, PTL DEF Spec, PlaceholdersNeverWin

-----------------------------------------------------------------------------
(* Refinement: the parts of the papers are last-writer-wins registers. *)

\* What a plain version says of itself in a file is all it says.
LEMMA PublishedPlain ==
    ASSUME NEW q, NEW r \in Row, Plain(q, r)
    PROVE  Published(r) = r
<1>1. r # NoRow
  BY NoRowAssumption
<1>2. CASE r.deleted
  <2>1. r.val = NoValue
    BY <1>2 DEF Plain
  <2> QED BY <1>1, <1>2, <2>1 DEF Published, Row
<1>3. CASE ~r.deleted
  BY <1>1, <1>3 DEF Published
<1> QED BY <1>2, <1>3

\* The registers agree at first, and what is in files is what they hold.
LEMMA InitRegisters == ASSUME Older = {} PROVE Init => Registers!LwwInit
<1> SUFFICES ASSUME Init PROVE Registers!LwwInit
  OBVIOUS
<1>1. PICK x \in Paper :
             /\ paper = [d \in Device |-> x]
             /\ \A q \in Part : x[q] = NoRow <=> x[Flag] = NoRow
             /\ x[Flag] # NoRow => Settled(x)
             /\ \A d \in Device : \A c \in copies[d] :
                   /\ x[Flag] # NoRow /\ c \in Copy
                   /\ c.parts = x /\ c.clocked = (d \notin Older)
  BY InitPaper
<1>2. \A d, e \in Device : paper[d] = paper[e]
  BY <1>1
<1>3. [d \in Device |-> UNION {e.cols : e \in edits[d]}] = [d \in Device |-> {}]
  BY DEF Init
<1>4. ASSUME NEW q \in Part
      PROVE  Versions(q) = {Published(paper[d][q]) : d \in Device} \ {NoRow}
  <2>1. Published(x[q]) = x[q]
    <3>1. CASE x[q] = NoRow
      BY <3>1 DEF Published
    <3>2. CASE x[q] # NoRow
      BY <1>1, <3>2 DEF Settled, Published
    <3> QED BY <3>1, <3>2
  <2>2. {Published(paper[d][q]) : d \in Device} = {paper[d][q] : d \in Device}
    BY <1>1, <2>1
  <2>3. \A c \in AllCopies : \E d \in Device : c.parts[q] = paper[d][q]
    BY <1>1 DEF AllCopies
  <2> QED BY <2>2, <2>3 DEF Versions
<1>5. [q \in Part |-> Versions(q)] =
        [q \in Part |-> {Published(paper[d][q]) : d \in Device} \ {NoRow}]
  BY <1>4
<1> QED BY <1>2, <1>3, <1>5 DEF Registers!LwwInit, Registers!Published, Published

\* Each part of each device's paper takes a step of its register.
LEMMA StepRegisters ==
    ASSUME Older = {}
    PROVE  Clocks /\ Clocks' /\ [Next]_vars => [Registers!LwwNext]_(Registers!lwwVars)
<1> SUFFICES ASSUME Clocks, Clocks', [Next]_vars PROVE Registers!LwwNext
  OBVIOUS
<1>0. Types /\ AllClocked /\ VersionsPlain
  BY DEF Clocks
<1>1. \A q \in Part : Versions(q)' \subseteq Versions(q) \union {Published(paper'[d][q]) : d \in Device}
  <2> SUFFICES ASSUME NEW q \in Part, NEW a \in Versions(q)', a \notin Versions(q)
               PROVE  a \in {Published(paper'[d][q]) : d \in Device}
    OBVIOUS
  <2>1. PICK d \in Device : a = paper'[d][q]
    BY <1>0, StepNewVersion
  <2>2. a \in Row /\ Plain(q, a)
    <3>1. Plain(q, a)
      BY DEF Clocks, VersionsPlain, Plain
    <3>2. paper' \in [Device -> Paper] /\ a # NoRow
      BY DEF Clocks, Types, TypeOK, Versions
    <3> QED BY <2>1, <3>1, <3>2 DEF Paper, MaybeRow
  <2> QED BY <2>1, <2>2, PublishedPlain
<1>2. Registers!NothingInvented
  BY <1>1 DEF Registers!NothingInvented, Registers!Published, Published
<1>3. \A d \in Device :
        /\ [e \in Device |-> UNION {x.cols : x \in edits[e]}][d] = Owed(d)
        /\ [e \in Device |-> UNION {x.cols : x \in edits'[e]}][d] = Owed(d)'
  BY DEF Owed
<1>4. ASSUME NEW d \in Device, NEW q \in Part, Begun(d, q)
      PROVE  Registers!Begin(d, q)
  BY <1>4, NoRowAssumption DEF Begun, Unstamped, Registers!Begin, Registers!Nobody, Nobody
<1>5. ASSUME NEW d \in Device, NEW q \in Part, Drafted(d, q)
      PROVE  Registers!Draft(d, q)
  BY <1>3, <1>5, NoRowAssumption DEF Drafted, Registers!Draft, SameClock, Registers!SameClock
<1>6. ASSUME NEW d \in Device, NEW q \in Part, NotNewlyOwed(d, q)
      PROVE  Registers!NothingOwed(d, q)
  BY <1>3, <1>6 DEF NotNewlyOwed, Registers!NothingOwed
<1>7. ASSUME NEW d \in Device, NEW q \in Part, Stamped(d, q)
      PROVE  Registers!Write(d, q)
  <2>1. \A c \in Versions(q) : ~SameClock(c, paper'[d][q])
    BY <1>7, StampIsNew
  <2> QED BY <1>7, <2>1, NoRowAssumption
          DEF Stamped, Registers!Write, Registers!Newer, SameClock, Registers!SameClock
<1>8. ASSUME NEW d \in Device, NEW q \in Part, Merged(d, q)
      PROVE  Registers!Adopt(d, q)
  <2>1. Published(paper'[d][q]) = paper'[d][q]
    BY <1>0, <1>8, PublishedPlain DEF Merged, VersionsPlain
  <2> QED BY <1>8, <2>1
          DEF Merged, Registers!Adopt, Newer, Registers!Newer, Published, Registers!Published
<1>9. \A d \in Device, q \in Part : PartStep(d, q)
  BY <1>0, StepParts
<1> QED BY <1>2, <1>4, <1>5, <1>6, <1>7, <1>8, <1>9 DEF PartStep, Kept, Registers!LwwNext

\* Merging papers column by column implements last-writer-wins registers, one per
\* device and part: an edit of one column never takes another column with it,
\* whatever a crash leaves unstamped and in whatever order files are merged.
THEOREM Refinement == ASSUME Older = {} PROVE Spec => ImplementsRegisters
<1>1. Spec => []Clocks
  BY ClocksHold
<1> QED BY <1>1, InitRegisters, StepRegisters, PTL
        DEF Spec, ImplementsRegisters, Registers!LwwSpec

-----------------------------------------------------------------------------
(* Devices that run the older version. *)

\* A device whose columns come without clocks is heard: a column that comes without
\* a clock is judged by the row's, so a file newer than all a device has of the
\* paper is taken over whole.
THEOREM OlderHeard == Spec => OlderIsHeard
<1>1. Types /\ [Next]_vars =>
        [\A d \in Device, p \in Older : \A copy \in copies[p] :
           /\ Merge(d, p, copy) /\ Exists(d)
           /\ \A q \in Part : Newer(copy.parts[Flag], paper[d][q])
           => \A q \in Part : copy.parts[q] # NoRow => paper'[d][q].val = copy.parts[q].val]_vars
  <2> SUFFICES ASSUME Types, NEW d \in Device, NEW p \in Older, NEW copy \in copies[p],
                      Merge(d, p, copy), Exists(d),
                      \A q \in Part : Newer(copy.parts[Flag], paper[d][q]),
                      NEW q \in Part, copy.parts[q] # NoRow
               PROVE  paper'[d][q].val = copy.parts[q].val
    OBVIOUS
  <2>1. copy \in Copy /\ ~copy.clocked /\ copy.parts[Flag] # NoRow
    BY OlderAssumption DEF Types, TypeOK, OlderUnclocked, CopiesHaveRow, AllCopies
  <2>2. copy.parts[q] \in Row /\ copy.parts[Flag] \in Row
    BY <2>1 DEF Copy, Paper, MaybeRow, Part
  <2> DEFINE in == [copy.parts[q] EXCEPT !.ua = copy.parts[Flag].ua, !.ub = copy.parts[Flag].ub]
  <2>3. ColumnClocks(copy)[q] = in
    BY <2>1 DEF ColumnClocks
  <2>4. in.ua = copy.parts[Flag].ua /\ in.ub = copy.parts[Flag].ub /\ in.val = copy.parts[q].val
    BY <2>2 DEF Row
  <2>5. in \in Row
    BY <2>2 DEF Row
  <2>6. in # NoRow /\ Newer(in, paper[d][q])
    BY <2>4, <2>5, NoRowAssumption DEF Newer
  <2> HIDE DEF in
  <2>7. MergePaper(paper[d], ColumnClocks(copy))[q] = in
    BY <2>3, <2>6 DEF MergePaper, MergeRow
  <2>8. paper'[d] = MergePaper(paper[d], ColumnClocks(copy))
    BY DEF Merge, SetPaper, Types, TypeOK
  <2> QED BY <2>4, <2>7, <2>8
<1> QED BY <1>1, TypesHold, PTL DEF Spec, OlderIsHeard

=============================================================================
