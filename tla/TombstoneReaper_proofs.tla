----------------------- MODULE TombstoneReaper_proofs -----------------------
(***************************************************************************)
(* Theorems about TombstoneReaper, for any devices, papers, paths and      *)
(* bounds: types, and, where a tombstone lives as long as three of the     *)
(* longest gaps between ticks, that a deletion is forgotten when nobody    *)
(* has the paper any more and no shared PDF is forgotten with it.          *)
(***************************************************************************)
EXTENDS TombstoneReaper, LwwRow_proofs, WellFoundedInduction

\* The tombstones' lifetime is three ticks at least, however late each of them.
LongLived == 3 * MaxAway <= TTL

----------------------------------------------------------------------------
(* Types.                                                                  *)

Times == {-1} \union 1 .. MaxTime

Snapshot == [at : Times, rows : [Paper -> MaybeRow]]

\* A row that names a PDF where it must: where the paper is live.
Named(r) == Live(r) => r.val \in Value

\* A merged paper is a row or none; if one is there before it is there after.
LEMMA MergePaperType ==
    ASSUME NEW local \in MaybeRow, NEW incoming \in MaybeRow
    PROVE  /\ MergePaper(local, incoming) \in MaybeRow
           /\ Named(local) /\ Named(incoming) => Named(MergePaper(local, incoming))
<1>1. CASE incoming = NoRow
  BY <1>1 DEF MergePaper
<1>2. CASE incoming \in Row
  <2> DEFINE won == MergeRow(local, incoming)
             named == IF local # NoRow /\ local.val # NoValue THEN local ELSE incoming
  <2>1. won \in Row
    BY <1>2, NoRowAssumption DEF MergeRow, MaybeRow
  <2>2. named \in Row
    BY <1>2, NoRowAssumption DEF MaybeRow
  <2>3. named.val \in Content
    BY <2>2 DEF Row
  <2> HIDE DEF won, named
  <2>4. [won EXCEPT !.val = named.val] \in Row
    BY <2>1, <2>3 DEF Row
  <2>5. MergePaper(local, incoming) = [won EXCEPT !.val = named.val]
    BY <1>2, NoRowAssumption DEF MergePaper, won, named
  <2>6. [won EXCEPT !.val = named.val].deleted = won.deleted
        /\ [won EXCEPT !.val = named.val].val = named.val
    BY <2>1 DEF Row
  <2>7. Named(local) /\ Named(incoming) /\ ~won.deleted => named.val \in Value
    BY <1>2, <2>3, NoRowAssumption DEF Named, Live, won, named, MergeRow, Content
  <2> QED BY <2>4, <2>5, <2>6, <2>7 DEF MaybeRow, Named, Live
<1> QED BY <1>1, <1>2 DEF MaybeRow

\* A stamped row is a row of this device's, with the payload it had.
LEMMA Stamped ==
    ASSUME NEW r \in Row, NEW t \in Nat, NEW d \in Device, NEW dead \in BOOLEAN
    PROVE  LET s == StampRow(r, t, d, dead)
           IN  /\ s \in Row /\ s \in MaybeRow /\ s # NoRow
               /\ s.ub = d /\ s.deleted = dead /\ s.val = r.val
BY StampRowAdvances, NoRowAssumption DEF MaybeRow

\* Hashes listed as orphaned are hashes.
LEMMA OrphansType ==
    ASSUME NEW rs, \A p \in Paper : rs[p] \in MaybeRow
    PROVE  Orphans(rs) \subseteq Value
BY DEF Orphans, Dead, MaybeRow, Row, Content

LEMMA UnstampedType ==
    ASSUME NEW h \in Value
    PROVE  Unstamped(h) \in Row
BY DEF Unstamped, Row, Content

Histories ==
    [faults : 0 .. MaxFaults, missed : [Device -> SUBSET Value], lost : SUBSET Value]

\* TypeOK in terms of the sets named here.
Typed ==
    /\ now \in 1 .. MaxTime
    /\ rows \in [Device -> [Paper -> MaybeRow]]
    /\ files \in [Device -> Snapshot]
    /\ lastReap \in [Device -> Times]
    /\ step \in [Device -> {"export", "import", "reap", "drop", "pdfs"}]
    /\ todo \in [Device -> SUBSET (Device \union Paper)]
    /\ disk \in [Device -> [Path -> Value \union {Missing}]]
    /\ blobs \in [Value -> Value \union {Missing}]
    /\ orphans \in [Device -> SUBSET Value]
    /\ lastTick \in [Device -> 0 .. MaxTime]
    /\ history \in Histories

\* A live paper names a PDF, and so does every paper whose PDF is to be copied.
PdfsNamed ==
    /\ \A d \in Device, p \in Paper : Named(rows[d][p]) /\ Named(files[d].rows[p])
    /\ \A d \in Device, p \in Paper :
          step[d] = "pdfs" /\ p \in todo[d] => rows[d][p] # NoRow /\ rows[d][p].val \in Value

LEMMA TypedInit == Init => Typed /\ PdfsNamed
<1> SUFFICES ASSUME Init PROVE Typed /\ PdfsNamed
  OBVIOUS
<1>1. NoSnapshot \in Snapshot
  BY DEF NoSnapshot, Snapshot, Times, MaybeRow
<1>2. PdfsNamed
  BY DEF Init, PdfsNamed, Named, Live, NoSnapshot
<1> HIDE DEF Snapshot
<1> QED BY <1>1, <1>2, TimesAssumption DEF Init, Typed, Histories, MaybeRow, Times, NoSnapshot

\* What a fault writes into the history.
LEMMA FaultTypes ==
    ASSUME Typed, NEW d \in Device, NEW lost \in SUBSET Value, NEW missed \in SUBSET Value,
           Fault(d, lost, missed)
    PROVE  history' \in Histories
<1>1. /\ history.faults \in 0 .. MaxFaults /\ history.missed \in [Device -> SUBSET Value]
      /\ history.lost \in SUBSET Value
  BY DEF Typed, Histories
<1>2. history.faults + 1 \in 0 .. MaxFaults
  BY <1>1, TimesAssumption DEF Fault
<1>3. [history.missed EXCEPT ![d] = missed] \in [Device -> SUBSET Value]
  BY <1>1
<1> QED BY <1>1, <1>2, <1>3 DEF Fault, Histories

\* What Reap and ReapFails have in common.
Forgets(d, gone) ==
    /\ step[d] = "reap" /\ Go(d, "drop") /\ Forget(d, gone) /\ ReapingOnly
    /\ UNCHANGED <<todo, blobs>>
    /\ gone # {} => HeardFrom(d) # {} /\ gone = Reapable(d)
    /\ \E lost \in SUBSET Value :
          /\ orphans'[d] \union lost =
                IF gone = {} THEN {} ELSE orphans[d] \union history.missed[d]
          /\ history'.lost = history.lost \union lost
    /\ \A e \in Device \ {d} : orphans'[e] = orphans[e] /\ history'.missed[e] = history.missed[e]

LEMMA ReapForgets ==
    ASSUME Typed, NEW d \in Device, Reap(d) \/ ReapFails(d)
    PROVE  \E gone : Forgets(d, gone)
<1> DEFINE due == IF Due(d) THEN Reapable(d) ELSE {}
<1>0. /\ orphans[d] \in SUBSET Value /\ history.missed[d] \in SUBSET Value
      /\ history \in Histories /\ history.missed \in [Device -> SUBSET Value]
  BY DEF Typed, Histories
<1>1. CASE Reap(d)
  <2> DEFINE lost == IF due = {} THEN {} ELSE history.missed[d]
  <2>1. lost \in SUBSET Value
    BY <1>0
  <2>2. /\ orphans'[d] = IF due = {} THEN {} ELSE orphans[d]
        /\ history'.lost = history.lost \union lost
        /\ \A e \in Device \ {d} : orphans'[e] = orphans[e] /\ history'.missed[e] = history.missed[e]
    BY <1>0, <1>1 DEF Reap, DropAfter, LoseMissed, Typed, Histories
  <2>3. orphans'[d] \union lost = IF due = {} THEN {} ELSE orphans[d] \union history.missed[d]
    BY <2>2
  <2>4. due # {} => HeardFrom(d) # {} /\ due = Reapable(d)
    BY DEF Due
  <2>5. step[d] = "reap" /\ Go(d, "drop") /\ Forget(d, due) /\ ReapingOnly /\ UNCHANGED <<todo, blobs>>
    BY <1>1 DEF Reap
  <2> HIDE DEF due, lost
  <2> QED BY <2>1, <2>2, <2>3, <2>4, <2>5 DEF Forgets
<1>2. CASE ReapFails(d)
  <2>1. PICK gone \in {{}, due} :
            /\ step[d] = "reap" /\ Go(d, "drop") /\ Forget(d, gone)
            /\ Fault(d, IF gone = {} THEN {} ELSE orphans[d] \union history.missed[d], {})
            /\ orphans' = [orphans EXCEPT ![d] = {}]
            /\ UNCHANGED <<lastReap, todo, blobs>> /\ ReapingOnly
    BY <1>2 DEF ReapFails
  <2> DEFINE lost == IF gone = {} THEN {} ELSE orphans[d] \union history.missed[d]
  <2>2. lost \in SUBSET Value
    BY <1>0
  <2>3. /\ orphans'[d] = {} /\ history'.lost = history.lost \union lost
        /\ \A e \in Device \ {d} : orphans'[e] = orphans[e] /\ history'.missed[e] = history.missed[e]
    BY <1>0, <2>1 DEF Fault, Typed
  <2>4. gone # {} => HeardFrom(d) # {} /\ gone = Reapable(d)
    BY DEF Due
  <2>5. orphans'[d] \union lost = lost
    BY <2>3
  <2> QED BY <2>1, <2>2, <2>3, <2>4, <2>5 DEF Forgets
<1> QED BY <1>1, <1>2

LEMMA ForgetTypes ==
    ASSUME Typed, NEW d \in Device, Reap(d) \/ ReapFails(d)
    PROVE  Typed'
<1>r. \A e \in Device, p \in Paper : rows[e][p] \in MaybeRow
  BY DEF Typed
<1>1. PICK gone : Forgets(d, gone)
  BY ReapForgets
<1>2. rows' \in [Device -> [Paper -> MaybeRow]]
  BY <1>r, <1>1 DEF Forgets, Forget, Typed, MaybeRow
<1>3. step' \in [Device -> {"export", "import", "reap", "drop", "pdfs"}]
  BY <1>1 DEF Forgets, Go, Typed
<1>4. lastReap' \in [Device -> Times]
  BY DEF Reap, ReapFails, Typed, Times
<1>5. orphans' \in [Device -> SUBSET Value]
  BY DEF Reap, DropAfter, ReapFails, Typed
<1>6. history' \in Histories
  <2>1. CASE Reap(d)
    BY <2>1 DEF Reap, LoseMissed, Typed, Histories
  <2>2. CASE ReapFails(d)
    <3>1. PICK lost \in SUBSET Value : Fault(d, lost, {})
      <4>1. orphans[d] \in SUBSET Value /\ history.missed[d] \in SUBSET Value
        BY DEF Typed, Histories
      <4> QED BY <2>2, <4>1 DEF ReapFails
    <3> QED BY <3>1, FaultTypes
  <2> QED BY <2>1, <2>2
<1> QED BY <1>1, <1>2, <1>3, <1>4, <1>5, <1>6 DEF Forgets, ReapingOnly, Typed

LEMMA TypedNext == Typed /\ PdfsNamed /\ [Next]_vars => Typed'
<1> SUFFICES ASSUME Typed, PdfsNamed, [Next]_vars PROVE Typed'
  OBVIOUS
<1>s. Device \subseteq Nat /\ \A d \in Device : Peers(d) \subseteq Device
  BY DeviceAssumption DEF Peers
<1>r. \A d \in Device, p \in Paper : rows[d][p] \in MaybeRow /\ files[d].rows[p] \in MaybeRow
  BY DEF Typed, Snapshot
<1>n. now \in Nat
  BY TimesAssumption DEF Typed
<1>1. ASSUME NEW d \in Device, NEW p \in Paper, NEW h \in Value, AddPaper(d, p, h)
      PROVE  Typed'
  <2> DEFINE r == StampRow(Unstamped(h), now, d, FALSE)
  <2>1. r \in MaybeRow
    BY <1>n, Stamped, UnstampedType
  <2> HIDE DEF r
  <2>2. rows' = [rows EXCEPT ![d][p] = r] /\ disk' = [disk EXCEPT ![d][PathOf[p]] = h]
    BY <1>1 DEF AddPaper, r
  <2>3. rows' \in [Device -> [Paper -> MaybeRow]]
    BY <2>1, <2>2 DEF Typed
  <2>4. disk' \in [Device -> [Path -> Value \union {Missing}]]
    BY <2>2 DEF Typed
  <2> QED BY <1>1, <2>3, <2>4 DEF AddPaper, listing, Typed
<1>2. ASSUME NEW d \in Device, NEW p \in Paper, DeletePaper(d, p) PROVE Typed'
  <2> DEFINE r == StampRow(rows[d][p], now, d, TRUE)
  <2>0. rows[d][p] \in Row
    BY <1>2, <1>r DEF DeletePaper, Live, MaybeRow
  <2>1. r \in MaybeRow
    BY <1>n, <2>0, Stamped
  <2> HIDE DEF r
  <2>2. rows' = [rows EXCEPT ![d][p] = r]
    BY <1>2 DEF DeletePaper, r
  <2>3. rows' \in [Device -> [Paper -> MaybeRow]]
    BY <2>1, <2>2 DEF Typed
  <2> QED BY <1>2, <2>3 DEF DeletePaper, listing, Typed
<1>3. ASSUME NEW d \in Device, Export(d) PROVE Typed'
  <2> DEFINE s == [at |-> now, rows |-> [p \in Paper |-> Published(rows[d][p])]]
  <2>1. \A p \in Paper : Published(rows[d][p]) \in MaybeRow
    BY <1>r, PublishedKeepsClock
  <2>2. s \in Snapshot
    BY <2>1 DEF Snapshot, Times, Typed
  <2> HIDE DEF s
  <2>3. files' = [files EXCEPT ![d] = s]
    BY <1>3 DEF Export, s
  <2>4. files' \in [Device -> Snapshot]
    BY <2>2, <2>3 DEF Typed
  <2> QED BY <1>3, <1>s, <2>4 DEF Export, listing, Typed
<1>4. ASSUME NEW d \in Device, NEW e \in Peers(d), ImportFrom(d, e) PROVE Typed'
  <2>1. \A p \in Paper : MergePaper(rows[d][p], files[e].rows[p]) \in MaybeRow
    BY <1>r, <1>s, MergePaperType
  <2>2. rows' \in [Device -> [Paper -> MaybeRow]]
    BY <1>4, <2>1 DEF ImportFrom, listing, Typed
  <2> QED BY <1>4, <2>2 DEF ImportFrom, listing, Typed
<1>5. ASSUME NEW d \in Device, Reap(d) \/ ReapFails(d) PROVE Typed'
  BY <1>5, ForgetTypes
<1>10. ASSUME NEW d \in Device, ListOrphans(d) \/ ListingFails(d) PROVE Typed'
  <2>1. Orphans(rows[d]) \subseteq Value
    BY <1>r, OrphansType
  <2>2. step' \in [Device -> {"export", "import", "reap", "drop", "pdfs"}]
    BY <1>10 DEF ListOrphans, ListingFails, Go, Typed
  <2>3. CASE ListOrphans(d)
    BY <2>1, <2>2, <2>3 DEF ListOrphans, ReapingOnly, Typed
  <2>4. CASE ListingFails(d)
    <3>1. PICK lost \in SUBSET Value, missed \in SUBSET Value : Fault(d, lost, missed)
      BY <2>1, <2>4 DEF ListingFails
    <3>2. history' \in Histories
      BY <3>1, FaultTypes
    <3> QED BY <2>2, <2>4, <3>2 DEF ListingFails, ReapingOnly, Typed
  <2> QED BY <1>10, <2>3, <2>4
<1>11. ASSUME NEW d \in Device, NEW h \in Value, DropBlob(d, h) \/ DropFails(d, h) PROVE Typed'
  <2>1. orphans' \in [Device -> SUBSET Value] /\ UNCHANGED step
    BY <1>11 DEF DropBlob, DropFails, Typed
  <2>2. CASE DropBlob(d, h)
    BY <2>1, <2>2 DEF DropBlob, ReapingOnly, Typed
  <2>3. CASE DropFails(d, h)
    <3>1. PICK lost \in SUBSET Value, missed \in SUBSET Value : Fault(d, lost, missed)
      BY <2>3 DEF DropFails
    <3>2. history' \in Histories
      BY <3>1, FaultTypes
    <3> QED BY <2>1, <2>3, <3>2 DEF DropFails, ReapingOnly, Typed
  <2> QED BY <1>11, <2>2, <2>3
<1>12. ASSUME NEW d \in Device, ListPdfs(d) PROVE Typed'
  BY <1>12 DEF ListPdfs, Go, WithPdf, ReapingOnly, Typed
<1>13. ASSUME NEW d \in Device, StopApp(d) PROVE Typed'
  <2>1. /\ orphans' \in [Device -> SUBSET Value] /\ todo' \in [Device -> SUBSET (Device \union Paper)]
        /\ step' \in [Device -> {"export", "import", "reap", "drop", "pdfs"}]
    BY <1>13 DEF StopApp, Go, Typed
  <2>2. PICK lost \in SUBSET Value, missed \in SUBSET Value : Fault(d, lost, missed)
    BY <1>13 DEF StopApp, Typed
  <2>3. history' \in Histories
    BY <2>2, FaultTypes
  <2> QED BY <1>13, <2>1, <2>3 DEF StopApp, ReapingOnly, Typed
<1>6. ASSUME NEW d \in Device, NEW p \in Paper, TransferPdf(d, p) PROVE Typed'
  <2> DEFINE h == rows[d][p].val
             here == disk[d][PathOf[p]]
  <2>0. PathOf[p] \in Path
    BY DEF Path
  <2>1. here \in Value \union {Missing}
    BY <2>0 DEF Typed
  <2>2. blobs' = ExportPdf(here, h)
        /\ disk' = [disk EXCEPT ![d][PathOf[p]] = ImportPdf(here, blobs'[h], h)]
    BY <1>6, <2>1 DEF TransferPdf, Typed
  <2>3. h \in Value
    BY <1>6 DEF TransferPdf, PdfsNamed
  <2> HIDE DEF h, here
  <2>4. blobs' \in [Value -> Value \union {Missing}]
    BY <2>1, <2>2 DEF ExportPdf, Typed
  <2>5. ImportPdf(here, blobs'[h], h) \in Value \union {Missing}
    BY <2>1, <2>3 DEF ImportPdf
  <2>6. disk' \in [Device -> [Path -> Value \union {Missing}]]
    BY <2>0, <2>1, <2>2, <2>5 DEF Typed
  <2> QED BY <1>6, <2>4, <2>6 DEF TransferPdf, listing, Typed
<1>7. ASSUME NEW d \in Device, EndTick(d) PROVE Typed'
  BY <1>7, TimesAssumption DEF EndTick, listing, Typed
<1>8. CASE Pass
  BY <1>8, TimesAssumption DEF Pass, listing, Typed
<1>9. CASE UNCHANGED vars
  BY <1>9 DEF vars, Typed
<1> QED BY <1>1, <1>2, <1>3, <1>4, <1>5, <1>6, <1>7, <1>8, <1>9, <1>10, <1>11, <1>12, <1>13
        DEF Next, TickStep, Fails

LEMMA NamedNext == Typed /\ PdfsNamed /\ [Next]_vars => PdfsNamed'
<1> SUFFICES ASSUME Typed, PdfsNamed, [Next]_vars PROVE PdfsNamed'
  OBVIOUS
<1>s. Device \subseteq Nat /\ \A d \in Device : Peers(d) \subseteq Device
  BY DeviceAssumption DEF Peers
<1>r. \A d \in Device, p \in Paper : rows[d][p] \in MaybeRow /\ files[d].rows[p] \in MaybeRow
  BY DEF Typed, Snapshot
<1>n. now \in Nat
  BY TimesAssumption DEF Typed
<1>1. ASSUME NEW d \in Device, NEW p \in Paper, NEW h \in Value, AddPaper(d, p, h)
      PROVE  PdfsNamed'
  <2> DEFINE r == StampRow(Unstamped(h), now, d, FALSE)
  <2>1. r # NoRow /\ r.val \in Value
    <3>1. r \in Row /\ r.val = Unstamped(h).val
      BY <1>n, Stamped, UnstampedType
    <3> QED BY <3>1, NoRowAssumption DEF Unstamped
  <2> HIDE DEF r
  <2>2. rows' = [rows EXCEPT ![d][p] = r] /\ rows[d][p] = NoRow
        /\ UNCHANGED <<files, step, todo>>
    BY <1>1 DEF AddPaper, r
  <2> QED BY <2>1, <2>2 DEF PdfsNamed, Named, Typed
<1>2. ASSUME NEW d \in Device, NEW p \in Paper, DeletePaper(d, p) PROVE PdfsNamed'
  <2> DEFINE r == StampRow(rows[d][p], now, d, TRUE)
  <2>1. rows[d][p] \in Row
    BY <1>2, <1>r DEF DeletePaper, Live, MaybeRow
  <2>2. r # NoRow /\ r.val = rows[d][p].val
    BY <1>n, <2>1, Stamped
  <2>3. rows[d][p].val \in Value
    BY <1>2 DEF DeletePaper, PdfsNamed, Named
  <2> HIDE DEF r
  <2>4. rows' = [rows EXCEPT ![d][p] = r] /\ UNCHANGED <<files, step, todo>>
    BY <1>2 DEF DeletePaper, r
  <2> QED BY <2>2, <2>3, <2>4 DEF PdfsNamed, Named, Typed
<1>3. ASSUME NEW d \in Device, Export(d) PROVE PdfsNamed'
  <2>1. ASSUME NEW p \in Paper PROVE Named(Published(rows[d][p]))
    BY <1>r DEF PdfsNamed, Named, Live, Published
  <2>2. \A p \in Paper : files'[d].rows[p] = Published(rows[d][p])
    BY <1>3 DEF Export, Typed
  <2>3. \A e \in Device \ {d} : files'[e] = files[e]
    BY <1>3 DEF Export, Typed
  <2>4. rows' = rows /\ \A e \in Device : step'[e] = "pdfs" => step[e] = "pdfs" /\ todo'[e] = todo[e]
    BY <1>3 DEF Export, Typed
  <2> QED BY <2>1, <2>2, <2>3, <2>4 DEF PdfsNamed
<1>4. ASSUME NEW d \in Device, NEW e \in Peers(d), ImportFrom(d, e) PROVE PdfsNamed'
  <2>1. ASSUME NEW p \in Paper PROVE Named(rows'[d][p])
    <3>1. rows'[d][p] = MergePaper(rows[d][p], files[e].rows[p])
      BY <1>4 DEF ImportFrom, Typed
    <3> QED BY <3>1, <1>r, <1>s, MergePaperType DEF PdfsNamed
  <2>2. \A x \in Device \ {d} : rows'[x] = rows[x] /\ todo'[x] = todo[x]
    BY <1>4 DEF ImportFrom, Typed
  <2>3. files' = files /\ step' = step /\ step[d] = "import"
    BY <1>4 DEF ImportFrom
  <2> QED BY <2>1, <2>2, <2>3 DEF PdfsNamed
<1>5. ASSUME NEW d \in Device, Reap(d) \/ ReapFails(d) PROVE PdfsNamed'
  <2>1. PICK gone : Forgets(d, gone)
    BY <1>5, ReapForgets
  <2>2. \A p \in Paper : rows'[d][p] \in {NoRow, rows[d][p]}
    BY <2>1 DEF Forgets, Forget, Typed
  <2>3. \A x \in Device \ {d} : rows'[x] = rows[x] /\ step'[x] = step[x]
    BY <2>1 DEF Forgets, Forget, Go, Typed
  <2>4. files' = files /\ todo' = todo /\ step'[d] = "drop"
    BY <2>1 DEF Forgets, Go, ReapingOnly, Typed
  <2> QED BY <2>2, <2>3, <2>4 DEF PdfsNamed, Named, Live
<1>10. ASSUME NEW d \in Device, ListOrphans(d) \/ ListingFails(d) \/ StopApp(d) PROVE PdfsNamed'
  <2>1. /\ rows' = rows /\ files' = files /\ step'[d] # "pdfs"
        /\ \A x \in Device \ {d} : todo'[x] = todo[x] /\ step'[x] = step[x]
    BY <1>10 DEF ListOrphans, ListingFails, StopApp, Go, ReapingOnly, Typed
  <2> QED BY <2>1 DEF PdfsNamed
<1>11. ASSUME NEW d \in Device, NEW h \in Value, DropBlob(d, h) \/ DropFails(d, h) PROVE PdfsNamed'
  BY <1>11 DEF DropBlob, DropFails, ReapingOnly, PdfsNamed
<1>12. ASSUME NEW d \in Device, ListPdfs(d) PROVE PdfsNamed'
  <2>1. /\ rows' = rows /\ files' = files /\ \A p \in todo'[d] : Live(rows[d][p])
        /\ \A x \in Device \ {d} : todo'[x] = todo[x] /\ step'[x] = step[x]
    BY <1>12 DEF ListPdfs, Go, ReapingOnly, WithPdf, Typed
  <2> QED BY <2>1 DEF PdfsNamed, Named, Live
<1>6. ASSUME NEW d \in Device, NEW p \in Paper, TransferPdf(d, p) PROVE PdfsNamed'
  BY <1>6 DEF TransferPdf, PdfsNamed, Typed
<1>7. ASSUME NEW d \in Device, EndTick(d) PROVE PdfsNamed'
  BY <1>7 DEF EndTick, PdfsNamed, Typed
<1>8. CASE Pass
  BY <1>8 DEF Pass, PdfsNamed
<1>9. CASE UNCHANGED vars
  BY <1>9 DEF vars, PdfsNamed
<1> QED BY <1>1, <1>2, <1>3, <1>4, <1>5, <1>6, <1>7, <1>8, <1>9, <1>10, <1>11, <1>12
        DEF Next, TickStep, Fails

\* What a step finds and leaves is what its variables are for, whatever the bounds.
THEOREM TypeCorrect == Spec => []TypeOK
<1>1. Typed => TypeOK
  BY DEF Typed, TypeOK, Snapshot, Times, Histories
<1> QED BY <1>1, TypedInit, TypedNext, NamedNext, PTL DEF Spec
----------------------------------------------------------------------------
(* The versions of a paper.                                                *)

\* Every row and every published row of the paper.
Versions(p) ==
    ({rows[d][p] : d \in Device} \union {files[d].rows[p] : d \in Device}) \ {NoRow}

\* A version of the paper whose PDF is h: added at t, deleted later if at all.
Fits(v, h, t) ==
    /\ v.ub \in Device /\ v.val \in {h, NoValue}
    /\ v.deleted => v.ua > t
    /\ ~v.deleted => v.ua = t

OneHash(p) == \E h \in Content, t \in Nat : \A v \in Versions(p) : Fits(v, h, t)

\* Nobody has the paper live, publishes it live or is about to copy its PDF.
Settled(p) ==
    \A d \in Device : /\ ~Live(rows[d][p]) /\ ~Live(files[d].rows[p])
                      /\ ~(step[d] = "pdfs" /\ p \in todo[d])

\* Who wrote a tombstone has one, and none older.
AuthorsAhead(p) ==
    \A v \in Versions(p) : v.deleted => Dead(rows[v.ub][p]) /\ ~Newer(v, rows[v.ub][p])

\* d's row names the PDF, nothing is newer, and if it is a tombstone it is d's own.
Keeps(d, p) ==
    /\ rows[d][p] # NoRow /\ rows[d][p].val # NoValue
    /\ rows[d][p].deleted => rows[d][p].ub = d
    /\ \A v \in Versions(p) : ~Newer(v, rows[d][p])

\* A step that only copies the paper's versions about: no clock is new, no hash is,
\* and no device goes back.
Spreads(p) ==
    /\ \A v \in Versions(p)' :
          /\ \E w \in Versions(p) : SameClock(v, w) /\ v.deleted = w.deleted
          /\ v.val = NoValue \/ \E w \in Versions(p) : v.val = w.val
    /\ \A d \in Device : rows[d][p] # NoRow =>
          /\ rows'[d][p] # NoRow
          /\ \/ Newer(rows'[d][p], rows[d][p])
             \/ /\ SameClock(rows'[d][p], rows[d][p])
                /\ rows'[d][p].deleted = rows[d][p].deleted
                /\ rows[d][p].val # NoValue => rows'[d][p].val = rows[d][p].val

LEMMA VersionsAreRows ==
    ASSUME Typed, NEW p \in Paper
    PROVE  /\ \A v \in Versions(p) : v \in Row
           /\ \A d \in Device : /\ rows[d][p] \in MaybeRow /\ files[d].rows[p] \in MaybeRow
                                /\ rows[d][p] # NoRow => rows[d][p] \in Versions(p)
                                /\ files[d].rows[p] # NoRow => files[d].rows[p] \in Versions(p)
BY DEF Versions, Typed, Snapshot, MaybeRow

\* A step that leaves the paper's rows alone spreads nothing at all.
LEMMA SameSpreads ==
    ASSUME Typed, NEW p \in Paper,
           \A d \in Device : rows'[d][p] = rows[d][p] /\ files'[d].rows[p] = files[d].rows[p]
    PROVE  Spreads(p)
<1>1. Versions(p)' = Versions(p)
  BY DEF Versions
<1>2. \A v \in Versions(p) : SameClock(v, v)
  BY DEF SameClock
<1>3. \A d \in Device : SameClock(rows[d][p], rows[d][p])
  BY DEF SameClock
<1> QED BY <1>1, <1>2, <1>3 DEF Spreads

LEMMA ExportSpreads ==
    ASSUME Typed, NEW p \in Paper, NEW d \in Device, Export(d)
    PROVE  Spreads(p)
<1>1. /\ rows' = rows /\ files'[d].rows[p] = Published(rows[d][p])
      /\ \A e \in Device \ {d} : files'[e] = files[e]
  BY DEF Export, Typed
<1>2. \A v \in Versions(p)' : v \in Versions(p) \/ (v = Published(rows[d][p]) /\ v # NoRow)
  BY <1>1 DEF Versions
<1>3. ASSUME NEW v, v = Published(rows[d][p]), v # NoRow
      PROVE  /\ rows[d][p] \in Versions(p) /\ SameClock(v, rows[d][p])
             /\ v.deleted = rows[d][p].deleted /\ v.val \in {rows[d][p].val, NoValue}
  <2>1. rows[d][p] \in Versions(p)
    BY <1>3, VersionsAreRows, PublishedKeepsClock
  <2>2. v.val \in {rows[d][p].val, NoValue}
    BY <1>3, <2>1, VersionsAreRows DEF Published, Row
  <2> QED BY <1>3, <2>1, <2>2, VersionsAreRows, PublishedKeepsClock
<1>4. \A v \in Versions(p) : SameClock(v, v)
  BY DEF SameClock
<1>5. \A e \in Device : SameClock(rows[e][p], rows[e][p])
  BY DEF SameClock
<1> QED BY <1>1, <1>2, <1>3, <1>4, <1>5 DEF Spreads

\* What a merge leaves has the clock of one of the two, its fate, and a hash of theirs.
LEMMA MergePaperPicks ==
    ASSUME NEW local \in MaybeRow, NEW incoming \in MaybeRow
    PROVE  LET m == MergePaper(local, incoming)
           IN  /\ incoming = NoRow => m = local
               /\ incoming # NoRow /\ (local = NoRow \/ Newer(incoming, local)) =>
                     m # NoRow /\ SameClock(m, incoming) /\ m.deleted = incoming.deleted
               /\ incoming # NoRow /\ ~(local = NoRow \/ Newer(incoming, local)) =>
                     m # NoRow /\ SameClock(m, local) /\ m.deleted = local.deleted
               /\ incoming # NoRow =>
                     m.val = IF local # NoRow /\ local.val # NoValue
                             THEN local.val ELSE incoming.val
<1>1. CASE incoming = NoRow
  BY <1>1 DEF MergePaper
<1>2. CASE incoming # NoRow
  <2> DEFINE won == MergeRow(local, incoming)
             named == IF local # NoRow /\ local.val # NoValue THEN local ELSE incoming
             m == [won EXCEPT !.val = named.val]
  <2>1. MergePaper(local, incoming) = m
    BY <1>2 DEF MergePaper
  <2>2. won = IF local = NoRow \/ Newer(incoming, local) THEN incoming ELSE local
    BY DEF MergeRow
  <2>3. won \in Row
    BY <1>2, <2>2 DEF MaybeRow
  <2>4. m \in [ua : Nat, ub : Device \union {Nobody}, deleted : BOOLEAN, val : {named.val}]
    BY <2>3 DEF Row
  <2>5. m # NoRow
    <3>1. named \in Row
      BY <1>2 DEF MaybeRow
    <3>2. m \in Row
      BY <2>4, <3>1 DEF Row
    <3> QED BY <3>2, NoRowAssumption
  <2>6. m.ua = won.ua /\ m.ub = won.ub /\ m.deleted = won.deleted /\ m.val = named.val
    BY <2>3 DEF Row
  <2> HIDE DEF m, won
  <2> QED BY <1>2, <2>1, <2>2, <2>5, <2>6 DEF SameClock
<1> QED BY <1>1, <1>2

LEMMA ImportSpreads ==
    ASSUME Typed, NEW p \in Paper, NEW d \in Device, NEW e \in Peers(d), ImportFrom(d, e)
    PROVE  Spreads(p)
<1> DEFINE local == rows[d][p]
           incoming == files[e].rows[p]
           m == rows'[d][p]
<1>0. e \in Device
  BY DEF Peers
<1>1. /\ files' = files /\ m = MergePaper(local, incoming)
      /\ \A x \in Device \ {d} : rows'[x] = rows[x]
  BY DEF ImportFrom, Typed
<1>2. /\ local \in MaybeRow /\ incoming \in MaybeRow
      /\ local # NoRow => local \in Versions(p)
      /\ incoming # NoRow => incoming \in Versions(p)
  BY <1>0, VersionsAreRows
<1>3. \A v \in Versions(p)' : v \in Versions(p) \/ (v = m /\ v # NoRow)
  BY <1>1 DEF Versions
<1>4. \A v \in Versions(p) : SameClock(v, v)
  BY DEF SameClock
<1>5. \A x \in Device : SameClock(rows[x][p], rows[x][p])
  BY DEF SameClock
<1> HIDE DEF m, local, incoming
<1>6. m # NoRow =>
        /\ \E w \in Versions(p) : SameClock(m, w) /\ m.deleted = w.deleted
        /\ m.val = NoValue \/ \E w \in Versions(p) : m.val = w.val
  BY <1>1, <1>2, <1>4, MergePaperPicks
<1>7. local # NoRow =>
        /\ m # NoRow
        /\ \/ Newer(m, local)
           \/ /\ SameClock(m, local) /\ m.deleted = local.deleted
              /\ local.val # NoValue => m.val = local.val
  <2>1. CASE incoming = NoRow
    BY <1>1, <1>2, <2>1, MergePaperPicks DEF SameClock
  <2>2. CASE incoming # NoRow /\ Newer(incoming, local)
    BY <1>1, <1>2, <2>2, MergePaperPicks DEF SameClock, Newer
  <2>3. CASE incoming # NoRow /\ ~Newer(incoming, local)
    BY <1>1, <1>2, <2>3, MergePaperPicks
  <2> QED BY <2>1, <2>2, <2>3
<1>8. \A v \in Versions(p)' :
        /\ \E w \in Versions(p) : SameClock(v, w) /\ v.deleted = w.deleted
        /\ v.val = NoValue \/ \E w \in Versions(p) : v.val = w.val
  BY <1>3, <1>4, <1>6
<1> USE DEF m, local
<1> QED BY <1>1, <1>5, <1>7, <1>8 DEF Spreads

LEMMA SpreadKeepsHash ==
    ASSUME NEW p \in Paper, OneHash(p), Spreads(p)
    PROVE  /\ OneHash(p)'
           /\ \A v \in Versions(p), w \in Versions(p)' : v.deleted /\ ~w.deleted => v.ua > w.ua
<1>1. PICK h \in Content, t \in Nat : \A v \in Versions(p) : Fits(v, h, t)
  BY DEF OneHash
<1>2. ASSUME NEW v \in Versions(p)' PROVE Fits(v, h, t)
  BY <1>1 DEF Spreads, Fits, SameClock
<1> QED BY <1>1, <1>2 DEF OneHash, Fits

\* A dead row is not brought back to life: a live version is older than any tombstone.
LEMMA SpreadKeepsDead ==
    ASSUME Typed, Typed', NEW p \in Paper, OneHash(p), OneHash(p)', Spreads(p),
           NEW d \in Device, Dead(rows[d][p])
    PROVE  Dead(rows'[d][p])
<1> DEFINE r == rows[d][p]  s == rows'[d][p]
<1>1. r \in Versions(p) /\ r \in Row /\ s # NoRow
  BY VersionsAreRows DEF Dead, Spreads
<1>2. s \in Row /\ s \in Versions(p)'
  BY <1>1 DEF Typed, MaybeRow, Versions
<1>3. ~s.deleted => r.ua > s.ua
  BY <1>1, <1>2, SpreadKeepsHash DEF Dead
<1>4. CASE Newer(s, r)
  BY <1>1, <1>2, <1>3, <1>4 DEF Newer, Row, Dead
<1>5. CASE s.deleted = r.deleted
  BY <1>1, <1>5 DEF Dead
<1> QED BY <1>1, <1>4, <1>5 DEF Spreads, Dead

LEMMA SpreadKeepsAuthors ==
    ASSUME Typed, Typed', NEW p \in Paper, OneHash(p), OneHash(p)', AuthorsAhead(p), Spreads(p)
    PROVE  AuthorsAhead(p)'
<1> SUFFICES ASSUME NEW v \in Versions(p)', v.deleted
             PROVE  Dead(rows'[v.ub][p]) /\ ~Newer(v, rows'[v.ub][p])
  BY DEF AuthorsAhead
<1>1. PICK w \in Versions(p) : SameClock(v, w) /\ v.deleted = w.deleted
  BY DEF Spreads
<1> DEFINE x == v.ub  r == rows[x][p]  s == rows'[x][p]
<1>2. x \in Device /\ w.ub = x
  BY <1>1 DEF SameClock, OneHash, Fits
<1>3. Dead(r) /\ ~Newer(w, r) /\ r \in Row /\ w \in Row
  BY <1>1, <1>2, VersionsAreRows DEF AuthorsAhead, Dead
<1>4. v \in Row /\ s # NoRow /\ s \in Row
  <2>1. s # NoRow
    BY <1>2, <1>3 DEF Spreads, Dead
  <2> QED BY <1>2, <2>1 DEF Typed, MaybeRow, Versions, Snapshot
<1>5. Dead(s)
  BY <1>2, <1>3, SpreadKeepsDead
<1>6. ~Newer(v, r)
  BY <1>1, <1>3, <1>4, NewerOrders
<1>7. Newer(s, r) \/ SameClock(s, r)
  BY <1>2, <1>3 DEF Spreads, Dead
<1>8. ~Newer(v, s)
  BY <1>3, <1>4, <1>6, <1>7, NewerOrders
<1> QED BY <1>5, <1>8

\* The row that keeps the paper's PDF keeps it.
LEMMA SpreadKeepsKeeper ==
    ASSUME Typed, Typed', NEW p \in Paper, Spreads(p), NEW d \in Device, Keeps(d, p)
    PROVE  /\ Keeps(d, p)' /\ rows'[d][p].val = rows[d][p].val
           /\ rows'[d][p].ua = rows[d][p].ua /\ rows'[d][p].deleted = rows[d][p].deleted
<1> DEFINE r == rows[d][p]  s == rows'[d][p]
<1>1. r \in Versions(p) /\ r \in Row /\ s # NoRow
  BY VersionsAreRows DEF Keeps, Spreads
<1>2. s \in Row /\ s \in Versions(p)'
  BY <1>1 DEF Typed, MaybeRow, Versions
<1>3. ~Newer(s, r)
  <2>1. PICK w \in Versions(p) : SameClock(s, w)
    BY <1>2 DEF Spreads
  <2>2. ~Newer(w, r) /\ w \in Row
    BY <2>1, VersionsAreRows DEF Keeps
  <2> QED BY <1>1, <1>2, <2>1, <2>2, NewerOrders
<1>4. SameClock(s, r) /\ s.deleted = r.deleted /\ s.val = r.val
  BY <1>1, <1>3 DEF Spreads, Keeps
<1>5. ASSUME NEW v \in Versions(p)' PROVE ~Newer(v, s)
  <2>1. PICK w \in Versions(p) : SameClock(v, w)
    BY DEF Spreads
  <2>2. ~Newer(w, r) /\ w \in Row
    BY <2>1, VersionsAreRows DEF Keeps
  <2>3. v \in Row
    BY DEF Versions, Typed, Snapshot, MaybeRow
  <2> QED BY <1>1, <1>2, <1>4, <2>1, <2>2, <2>3, NewerOrders
<1>6. s # NoRow /\ s.val # NoValue /\ (s.deleted => s.ub = d)
  BY <1>1, <1>4 DEF Keeps, SameClock
<1> QED BY <1>4, <1>5, <1>6 DEF Keeps, SameClock

\* A step copies a PDF, or lists a paper whose PDF it will copy, only if it may.
ListsLive(p) ==
    \A d \in Device : step'[d] = "pdfs" /\ p \in todo'[d] =>
        (step[d] = "pdfs" /\ p \in todo[d]) \/ Live(rows[d][p])

LEMMA SpreadKeepsSettled ==
    ASSUME Typed, NEW p \in Paper, Spreads(p), ListsLive(p), Settled(p)
    PROVE  Settled(p)'
<1>1. \A w \in Versions(p) : w.deleted
  BY DEF Versions, Settled, Live
<1>2. \A v \in Versions(p)' : v.deleted
  BY <1>1 DEF Spreads
<1>3. ASSUME NEW d \in Device
      PROVE  /\ rows'[d][p] # NoRow => rows'[d][p] \in Versions(p)'
             /\ files'[d].rows[p] # NoRow => files'[d].rows[p] \in Versions(p)'
  BY DEF Versions
<1> QED BY <1>2, <1>3 DEF Settled, Live, ListsLive
----------------------------------------------------------------------------
(* Who has heard of a deletion, by when.                                   *)

\* No device has been away for longer than it may.
Punctual == \A d \in Device : lastTick[d] <= now /\ now - lastTick[d] <= MaxAway

Own(x, p) == Dead(rows[x][p]) /\ rows[x][p].ub = x

\* A device that wrote a tombstone has published it once a tick that began after ends.
AuthorPublished(x, p) ==
    ~Dead(files[x].rows[p]) =>
        lastTick[x] <= rows[x][p].ua + (IF step[x] = "export" THEN MaxAway ELSE 0)

\* Another has read it two ticks later, from the moment its tick reads x's file.
PeerRead(x, e, p) ==
    ~Dead(rows[e][p]) =>
        lastTick[e] <= rows[x][p].ua
                        + (IF step[e] = "export" \/ (step[e] = "import" /\ x \in todo[e])
                           THEN 3 * MaxAway ELSE 2 * MaxAway)

\* Its own file says so in the tick after.
PeerPublished(x, e, p) ==
    Live(files[e].rows[p]) =>
        lastTick[e] <= rows[x][p].ua
                        + (IF step[e] = "export" THEN 5 * MaxAway ELSE 4 * MaxAway)

\* A tick that is still to copy the PDF listed the paper before.
StillListed(x, e, p) ==
    step[e] = "pdfs" /\ p \in todo[e] => lastTick[e] <= rows[x][p].ua + 2 * MaxAway

Told(x, p) ==
    /\ AuthorPublished(x, p)
    /\ \A e \in Peers(x) : PeerRead(x, e, p) /\ PeerPublished(x, e, p)
    /\ \A e \in Device : StillListed(x, e, p)

Timeline(p) == \A x \in Device : Own(x, p) => Told(x, p)

LEMMA PunctualInit == Init => Punctual
<1>1. MaxAway \in Nat /\ MaxAway >= 1
  BY TimesAssumption
<1> SUFFICES ASSUME Init, NEW d \in Device
             PROVE  lastTick[d] <= now /\ now - lastTick[d] <= MaxAway
  BY DEF Punctual
<1>2. now = 1 /\ lastTick[d] = 0
  BY DEF Init
<1> QED BY <1>1, <1>2

LEMMA PunctualNext == Typed /\ Punctual /\ [Next]_vars => Punctual'
<1> SUFFICES ASSUME Typed, Punctual, [Next]_vars PROVE Punctual'
  OBVIOUS
<1>1. CASE Pass
  BY <1>1, TimesAssumption DEF Pass, Punctual, Typed
<1>2. ASSUME NEW d \in Device, EndTick(d) PROVE Punctual'
  BY <1>2, TimesAssumption DEF EndTick, Punctual, Typed
<1>3. CASE UNCHANGED <<now, lastTick>>
  BY <1>3 DEF Punctual
<1> QED BY <1>1, <1>2, <1>3 DEF Next, TickStep, Fails, vars, AddPaper, DeletePaper, Export,
      ImportFrom, ListOrphans, Reap, DropBlob, ListPdfs, TransferPdf, ListingFails, ReapFails,
      DropFails, StopApp, ReapingOnly

\* While versions only spread a tombstone is its author's only if it was.
LEMMA OwnWasOwn ==
    ASSUME Typed, Typed', NEW p \in Paper, OneHash(p), AuthorsAhead(p), Spreads(p),
           NEW x \in Device, Own(x, p)'
    PROVE  Own(x, p) /\ rows'[x][p].ua = rows[x][p].ua
<1> DEFINE r == rows[x][p]  s == rows'[x][p]
<1>1. s \in Row /\ s \in Versions(p)' /\ s.deleted /\ s.ub = x
  BY DEF Own, Dead, Typed, MaybeRow, Versions
<1>2. PICK w \in Versions(p) : SameClock(s, w) /\ s.deleted = w.deleted
  BY <1>1 DEF Spreads
<1>3. w \in Row /\ Dead(r) /\ ~Newer(w, r)
  BY <1>1, <1>2, VersionsAreRows DEF AuthorsAhead, SameClock
<1>4. r \in Row
  BY <1>3, VersionsAreRows DEF Dead, MaybeRow
<1>5. ~Newer(s, r)
  BY <1>1, <1>2, <1>3, <1>4, NewerOrders
<1>6. SameClock(s, r)
  BY <1>3, <1>5 DEF Spreads, Dead
<1> QED BY <1>1, <1>3, <1>6 DEF Own, SameClock

\* The numbers of a timeline are numbers.
LEMMA Clocks ==
    ASSUME Typed, NEW p \in Paper, NEW x \in Device, rows[x][p] # NoRow
    PROVE  /\ rows[x][p].ua \in Nat /\ now \in Nat /\ MaxAway \in Nat
           /\ \A e \in Device : lastTick[e] \in Nat
<1>1. rows[x][p] \in Row
  BY DEF Typed, MaybeRow
<1> QED BY <1>1, TimesAssumption DEF Typed, Row

LEMMA ExportTells ==
    ASSUME Typed, Typed', NEW p \in Paper, NEW x \in Device, Own(x, p), Told(x, p),
           NEW d \in Device, Export(d)
    PROVE  Told(x, p)'
<1>1. /\ rows' = rows /\ lastTick' = lastTick /\ step[d] = "export"
      /\ files'[d].rows[p] = Published(rows[d][p])
      /\ step'[d] = "import" /\ todo'[d] = Peers(d)
      /\ \A e \in Device \ {d} :
            files'[e] = files[e] /\ step'[e] = step[e] /\ todo'[e] = todo[e]
  BY DEF Export, Typed
<1>2. (Dead(files'[d].rows[p]) <=> Dead(rows[d][p])) /\ (Live(files'[d].rows[p]) => ~Dead(rows[d][p]))
  BY <1>1, VersionsAreRows, PublishedKeepsClock DEF Dead, Live
<1>3. /\ rows[x][p].ua \in Nat /\ MaxAway \in Nat /\ \A e \in Device : lastTick[e] \in Nat
  BY Clocks DEF Own, Dead
<1>4. AuthorPublished(x, p)'
  BY <1>1, <1>2 DEF Told, AuthorPublished, Own
<1>5. ASSUME NEW e \in Peers(x) PROVE PeerRead(x, e, p)' /\ PeerPublished(x, e, p)'
  <2>1. PeerRead(x, e, p) /\ PeerPublished(x, e, p) /\ e \in Device /\ e # x
    BY DEF Told, Peers
  <2>2. CASE e = d
    <3>1. x \in todo'[e]
      BY <1>1, <2>1, <2>2 DEF Peers
    <3> QED BY <1>1, <1>2, <1>3, <2>1, <2>2, <3>1 DEF PeerRead, PeerPublished
  <2>3. CASE e # d
    BY <1>1, <2>1, <2>3 DEF PeerRead, PeerPublished
  <2> QED BY <2>2, <2>3
<1>6. ASSUME NEW e \in Device PROVE StillListed(x, e, p)'
  BY <1>1 DEF Told, StillListed
<1> QED BY <1>4, <1>5, <1>6 DEF Told

LEMMA ImportTells ==
    ASSUME Typed, Typed', NEW p \in Paper, OneHash(p), OneHash(p)', Spreads(p), Punctual,
           NEW x \in Device, Own(x, p), Told(x, p), rows'[x][p].ua = rows[x][p].ua,
           NEW d \in Device, NEW f \in Peers(d), ImportFrom(d, f)
    PROVE  Told(x, p)'
<1>1. /\ files' = files /\ lastTick' = lastTick /\ step' = step /\ step[d] = "import"
      /\ rows'[d][p] = MergePaper(rows[d][p], files[f].rows[p])
      /\ todo'[d] = todo[d] \ {f} /\ \A e \in Device \ {d} : todo'[e] = todo[e]
  BY DEF ImportFrom, Typed
<1>2. \A e \in Device : ~Dead(rows'[e][p]) => ~Dead(rows[e][p])
  BY SpreadKeepsDead
<1>3. /\ rows[x][p].ua \in Nat /\ MaxAway \in Nat /\ now \in Nat
      /\ \A e \in Device : lastTick[e] \in Nat
  BY Clocks DEF Own, Dead
<1>4. AuthorPublished(x, p)'
  BY <1>1 DEF Told, AuthorPublished
<1>5. ASSUME f = x, ~Dead(rows'[d][p])
      PROVE  lastTick[d] <= rows[x][p].ua + 2 * MaxAway
  <2>1. ASSUME Dead(files[x].rows[p]) PROVE FALSE
    <3> DEFINE local == rows[d][p]  incoming == files[x].rows[p]
    <3>1. /\ local \in MaybeRow /\ incoming \in Row /\ incoming \in Versions(p)
          /\ local # NoRow => local \in Versions(p)
      BY <2>1, VersionsAreRows DEF Dead, MaybeRow
    <3>2. Live(local) => incoming.ua > local.ua
      BY <2>1, <3>1 DEF OneHash, Fits, Dead, Live
    <3>3. Live(local) => Newer(incoming, local)
      BY <3>2 DEF Newer
    <3>4. local = NoRow \/ Live(local)
      BY <1>2, <1>5 DEF Live, Dead
    <3> QED BY <1>1, <1>5, <2>1, <3>1, <3>3, <3>4, MergePaperPicks DEF Dead, MaybeRow
  <2>2. lastTick[x] <= rows[x][p].ua + MaxAway
    BY <1>3, <2>1 DEF Told, AuthorPublished
  <2>3. now - lastTick[x] <= MaxAway /\ lastTick[d] <= now
    BY DEF Punctual
  <2> QED BY <1>3, <2>2, <2>3
<1>6. ASSUME NEW e \in Peers(x) PROVE PeerRead(x, e, p)' /\ PeerPublished(x, e, p)'
  <2>1. PeerRead(x, e, p) /\ PeerPublished(x, e, p) /\ e \in Device /\ e # x
    BY DEF Told, Peers
  <2>2. PeerPublished(x, e, p)'
    BY <1>1, <2>1 DEF PeerPublished
  <2>3. ASSUME e = d, f = x PROVE PeerRead(x, e, p)'
    <3>1. step'[e] = "import" /\ x \notin todo'[e]
      BY <1>1, <2>3
    <3> QED BY <1>1, <1>5, <2>3, <3>1 DEF PeerRead
  <2>4. ASSUME e # d \/ f # x PROVE PeerRead(x, e, p)'
    <3>1. x \in todo'[e] <=> x \in todo[e]
      BY <1>1, <2>1, <2>4
    <3> QED BY <1>1, <1>2, <2>1, <3>1 DEF PeerRead
  <2> QED BY <2>2, <2>3, <2>4
<1>7. ASSUME NEW e \in Device PROVE StillListed(x, e, p)'
  BY <1>1 DEF Told, StillListed
<1> QED BY <1>4, <1>6, <1>7 DEF Told

LEMMA ListTells ==
    ASSUME Typed, Typed', NEW p \in Paper, NEW x \in Device, Own(x, p), Told(x, p),
           NEW d \in Device, ListPdfs(d)
    PROVE  Told(x, p)'
<1>1. /\ rows' = rows /\ files' = files /\ lastTick' = lastTick /\ step[d] = "drop"
      /\ step'[d] = "pdfs" /\ todo'[d] = WithPdf(d)
      /\ \A e \in Device \ {d} : step'[e] = step[e] /\ todo'[e] = todo[e]
  BY DEF ListPdfs, Go, ReapingOnly, Typed
<1>2. AuthorPublished(x, p)'
  BY <1>1 DEF Told, AuthorPublished
<1>3. ASSUME NEW e \in Peers(x) PROVE PeerRead(x, e, p)' /\ PeerPublished(x, e, p)'
  <2>1. PeerRead(x, e, p) /\ PeerPublished(x, e, p) /\ e \in Device
    BY DEF Told, Peers
  <2> QED BY <1>1, <2>1 DEF PeerRead, PeerPublished
<1>4. ASSUME NEW e \in Device PROVE StillListed(x, e, p)'
  <2>1. CASE e = d /\ p \in WithPdf(d)
    <3>1. Live(rows[d][p]) /\ d \in Peers(x)
      BY <2>1 DEF WithPdf, Peers, Own, Live, Dead
    <3> QED BY <1>1, <2>1, <3>1 DEF Told, PeerRead, StillListed, Live, Dead
  <2>2. CASE ~(e = d /\ p \in WithPdf(d))
    BY <1>1, <2>2 DEF Told, StillListed
  <2> QED BY <2>1, <2>2
<1> QED BY <1>2, <1>3, <1>4 DEF Told

\* A tick moves on behind its imports, or begins again.
Moves(d) ==
    /\ UNCHANGED <<now, files, lastTick>>
    /\ \A e \in Device \ {d} : step'[e] = step[e] /\ todo'[e] = todo[e]
    /\ \/ step'[d] = "export"
       \/ /\ step'[d] \in {"reap", "drop"}
          /\ step[d] \in {"reap", "drop"} \/ (step[d] = "import" /\ todo[d] = {})

LEMMA MoveTells ==
    ASSUME Typed, NEW p \in Paper, NEW x \in Device, Own(x, p), Told(x, p),
           NEW d \in Device, Moves(d), \A e \in Device : rows'[e][p] = rows[e][p]
    PROVE  Told(x, p)'
<1>1. rows[x][p].ua \in Nat /\ MaxAway \in Nat /\ \A e \in Device : lastTick[e] \in Nat
  BY Clocks DEF Own, Dead
<1>2. AuthorPublished(x, p)'
  BY <1>1 DEF Told, AuthorPublished, Moves
<1>3. ASSUME NEW e \in Peers(x) PROVE PeerRead(x, e, p)' /\ PeerPublished(x, e, p)'
  <2>1. PeerRead(x, e, p) /\ PeerPublished(x, e, p) /\ e \in Device
    BY DEF Told, Peers
  <2>2. CASE e # d
    BY <2>1, <2>2 DEF Moves, PeerRead, PeerPublished
  <2>3. CASE e = d /\ step'[d] = "export"
    BY <1>1, <2>1, <2>3 DEF Moves, PeerRead, PeerPublished
  <2>4. CASE e = d /\ step'[d] # "export"
    BY <1>1, <2>1, <2>4 DEF Moves, PeerRead, PeerPublished
  <2> QED BY <2>2, <2>3, <2>4
<1>4. ASSUME NEW e \in Device PROVE StillListed(x, e, p)'
  BY DEF Told, StillListed, Moves
<1> QED BY <1>2, <1>3, <1>4 DEF Told

\* Behind the imports a tick only moves: it lists, drops, fails, or is stopped.
LEMMA MovesBehindImports ==
    ASSUME Typed, NEW d \in Device,
           \/ ListOrphans(d) \/ ListingFails(d) \/ StopApp(d)
           \/ \E h \in Value : DropBlob(d, h) \/ DropFails(d, h)
    PROVE  Moves(d) /\ rows' = rows
<1>1. CASE ListOrphans(d) \/ ListingFails(d) \/ StopApp(d)
  BY <1>1 DEF ListOrphans, ListingFails, StopApp, Go, ReapingOnly, Moves, Typed
<1>2. CASE \E h \in Value : DropBlob(d, h) \/ DropFails(d, h)
  BY <1>2 DEF DropBlob, DropFails, ReapingOnly, Moves, Typed
<1> QED BY <1>1, <1>2

LEMMA EndTickTells ==
    ASSUME Typed, Typed', NEW p \in Paper, Punctual,
           NEW x \in Device, Own(x, p), Told(x, p), NEW d \in Device, EndTick(d)
    PROVE  Told(x, p)'
<1>1. /\ rows' = rows /\ files' = files /\ todo' = todo
      /\ step[d] = "pdfs" /\ step'[d] = "export" /\ lastTick'[d] = now
      /\ \A e \in Device \ {d} : step'[e] = step[e] /\ lastTick'[e] = lastTick[e]
  BY DEF EndTick, Typed
<1>2. /\ rows[x][p].ua \in Nat /\ MaxAway \in Nat /\ now \in Nat
      /\ \A e \in Device : lastTick[e] \in Nat
  BY Clocks DEF Own, Dead
<1>3. now <= lastTick[d] + MaxAway
  BY <1>2 DEF Punctual
<1>4. AuthorPublished(x, p)'
  BY <1>1, <1>2, <1>3 DEF Told, AuthorPublished
<1>5. ASSUME NEW e \in Peers(x) PROVE PeerRead(x, e, p)' /\ PeerPublished(x, e, p)'
  <2>1. PeerRead(x, e, p) /\ PeerPublished(x, e, p) /\ e \in Device
    BY DEF Told, Peers
  <2> QED BY <1>1, <1>2, <1>3, <2>1 DEF PeerRead, PeerPublished
<1>6. ASSUME NEW e \in Device PROVE StillListed(x, e, p)'
  BY <1>1 DEF Told, StillListed
<1> QED BY <1>4, <1>5, <1>6 DEF Told

\* A step that leaves the ticks where they are, revives nobody, and if anything shortens
\* the list of PDFs to copy.
LEMMA OtherTells ==
    ASSUME Typed, NEW p \in Paper, NEW x \in Device, Own(x, p), Told(x, p),
           rows'[x][p].ua = rows[x][p].ua,
           \A e \in Device : Dead(rows[e][p]) => Dead(rows'[e][p]),
           UNCHANGED <<files, step, lastTick>>,
           \A e \in Device : \/ todo'[e] = todo[e]
                             \/ step[e] = "pdfs" /\ todo'[e] \subseteq todo[e]
    PROVE  Told(x, p)'
<1>1. AuthorPublished(x, p)'
  BY DEF Told, AuthorPublished
<1>2. ASSUME NEW e \in Peers(x) PROVE PeerRead(x, e, p)' /\ PeerPublished(x, e, p)'
  <2>1. PeerRead(x, e, p) /\ PeerPublished(x, e, p) /\ e \in Device
    BY DEF Told, Peers
  <2> QED BY <2>1 DEF PeerRead, PeerPublished
<1>3. ASSUME NEW e \in Device PROVE StillListed(x, e, p)'
  BY DEF Told, StillListed
<1> QED BY <1>1, <1>2, <1>3 DEF Told
----------------------------------------------------------------------------
(* Reaping.                                                                *)

\* The oldest of the times at which peers published is one of them.
LEMMA PeerHorizonIsTime ==
    ASSUME Typed, NEW d \in Device, HeardFrom(d) # {}
    PROVE  PeerHorizon(d) \in Int
<1> DEFINE S == {files[e].at : e \in HeardFrom(d)}
           T == {t + 1 : t \in S}
           Less == OpToRel(<, Nat)
<1>0. \A e \in HeardFrom(d) : files[e].at \in Times
  BY DEF HeardFrom, Peers, Typed, Snapshot
<1>1. S \subseteq Times /\ S # {}
  BY <1>0
<1>t. \A t \in Times : t \in Int /\ t + 1 \in Nat
  BY TimesAssumption DEF Times
<1> HIDE DEF S
<1>2. T \subseteq Nat /\ T # {}
  BY <1>1, <1>t
<1>3. IsWellFoundedOn(Less, Nat)
  BY NatLessThanWellFounded
<1> HIDE DEF T, Less
<1>4. PICK m \in T : \A y \in T : ~(<<y, m>> \in Less)
  BY <1>2, <1>3, WFMin
<1> USE DEF T, Less
<1>5. \A y \in T : ~(y < m)
  BY <1>2, <1>4 DEF OpToRel
<1>6. PICK s \in S : m = s + 1
  BY <1>4
<1>7. ASSUME NEW t \in S PROVE s <= t
  <2>1. t + 1 \in T /\ t \in Int /\ s \in Int
    BY <1>1, <1>t
  <2> HIDE DEF T
  <2>2. ~(t + 1 < s + 1)
    BY <2>1, <1>5, <1>6
  <2> QED BY <2>1, <2>2
<1>8. Min(S) \in S
  BY <1>7 DEF Min
<1> QED BY <1>1, <1>t, <1>8 DEF PeerHorizon, S

\* No tombstone goes before it has lived twice its lifetime.
LEMMA CutoffBound ==
    ASSUME Typed, NEW d \in Device, HeardFrom(d) # {}
    PROVE  Cutoff(d) \in Int /\ Cutoff(d) <= now - 2 * TTL
<1> DEFINE a == PeerHorizon(d)  b == now - TTL  S == {a, b}
<1>1. a \in Int /\ b \in Int /\ TTL \in Int /\ now \in Int
  BY PeerHorizonIsTime, TimesAssumption DEF Typed
<1> HIDE DEF a
<1>2. \E x \in S : \A y \in S : x <= y
  BY <1>1
<1>3. Min(S) \in S /\ \A y \in S : Min(S) <= y
  BY <1>2 DEF Min
<1>4. Min(S) \in Int /\ Min(S) <= b
  BY <1>1, <1>3
<1>5. Cutoff(d) = Min(S) - TTL
  BY DEF Cutoff, a
<1> HIDE DEF S
<1> QED BY <1>1, <1>4, <1>5

\* By the time a device may forget a deletion everyone has heard of it.
LEMMA ReapsSettled ==
    ASSUME LongLived, Typed, Punctual, NEW p \in Paper, Timeline(p),
           NEW d \in Device, HeardFrom(d) # {}, p \in Reapable(d)
    PROVE  Settled(p)
<1>1. Own(d, p) /\ Told(d, p) /\ rows[d][p] # NoRow
  BY DEF Reapable, Own, Timeline, Dead
<1>2. /\ rows[d][p].ua \in Nat /\ now \in Nat /\ MaxAway \in Nat \ {0} /\ TTL \in Nat
      /\ \A e \in Device : lastTick[e] \in Nat
  BY <1>1, Clocks, TimesAssumption
<1>3. rows[d][p].ua < now - 2 * TTL
  BY <1>2, CutoffBound DEF Reapable
<1>4. ASSUME NEW e \in Device PROVE lastTick[e] > rows[d][p].ua + 5 * MaxAway
  <2>1. now - lastTick[e] <= MaxAway /\ 3 * MaxAway <= TTL
    BY DEF Punctual, LongLived
  <2> QED BY <1>2, <1>3, <2>1
<1>5. Dead(files[d].rows[p])
  BY <1>1, <1>2, <1>4 DEF Told, AuthorPublished
<1>6. ASSUME NEW e \in Peers(d) PROVE Dead(rows[e][p]) /\ ~Live(files[e].rows[p])
  <2>1. PeerRead(d, e, p) /\ PeerPublished(d, e, p) /\ e \in Device
    BY <1>1 DEF Told, Peers
  <2> QED BY <1>2, <1>4, <2>1 DEF PeerRead, PeerPublished
<1>7. ASSUME NEW e \in Device PROVE ~(step[e] = "pdfs" /\ p \in todo[e])
  BY <1>1, <1>2, <1>4 DEF Told, StillListed
<1>8. Dead(rows[d][p])
  BY <1>1 DEF Own
<1> QED BY <1>5, <1>6, <1>7, <1>8 DEF Settled, Peers, Live, Dead
----------------------------------------------------------------------------
(* The steps, paper by paper.                                              *)

Tracked(p) == AuthorsAhead(p) /\ Timeline(p) /\ \E d \in Device : Keeps(d, p)

PaperOK(p) == OneHash(p) /\ (Settled(p) \/ Tracked(p))

\* While versions only spread the paper stays in order if its timeline does.
LEMMA SpreadKeepsPaper ==
    ASSUME Typed, Typed', NEW p \in Paper, PaperOK(p), Spreads(p), ListsLive(p),
           ~Settled(p) => Timeline(p)'
    PROVE  PaperOK(p)'
<1>1. OneHash(p) /\ OneHash(p)'
  BY SpreadKeepsHash DEF PaperOK
<1>2. CASE Settled(p)
  BY <1>1, <1>2, SpreadKeepsSettled DEF PaperOK
<1>3. CASE ~Settled(p)
  <2>1. AuthorsAhead(p) /\ \E d \in Device : Keeps(d, p)
    BY <1>3 DEF PaperOK, Tracked
  <2>2. AuthorsAhead(p)'
    BY <1>1, <2>1, SpreadKeepsAuthors
  <2>3. \E d \in Device : Keeps(d, p)'
    BY <2>1, SpreadKeepsKeeper
  <2> QED BY <1>1, <1>3, <2>2, <2>3 DEF PaperOK, Tracked
<1> QED BY <1>2, <1>3

LEMMA ExportKeepsPaper ==
    ASSUME Typed, Typed', Punctual, NEW p \in Paper, PaperOK(p), NEW d \in Device, Export(d)
    PROVE  PaperOK(p)'
<1>1. Spreads(p)
  BY ExportSpreads
<1>2. ListsLive(p)
  BY DEF ListsLive, Export, Typed
<1>4. ASSUME ~Settled(p), NEW x \in Device, Own(x, p)' PROVE Told(x, p)'
  <2>1. Own(x, p) /\ Told(x, p)
    BY <1>1, <1>4, OwnWasOwn DEF PaperOK, Tracked, Timeline
  <2> QED BY <2>1, ExportTells
<1> QED BY <1>1, <1>2, <1>4, SpreadKeepsPaper DEF Timeline

LEMMA ImportKeepsPaper ==
    ASSUME Typed, Typed', Punctual, NEW p \in Paper, PaperOK(p),
           NEW d \in Device, NEW e \in Peers(d), ImportFrom(d, e)
    PROVE  PaperOK(p)'
<1>1. Spreads(p)
  BY ImportSpreads
<1>2. ListsLive(p)
  BY DEF ListsLive, ImportFrom, Typed
<1>4. ASSUME ~Settled(p), NEW x \in Device, Own(x, p)' PROVE Told(x, p)'
  <2>1. OneHash(p) /\ OneHash(p)'
    BY <1>1, SpreadKeepsHash DEF PaperOK
  <2>2. Own(x, p) /\ Told(x, p) /\ rows'[x][p].ua = rows[x][p].ua
    BY <1>1, <1>4, OwnWasOwn DEF PaperOK, Tracked, Timeline
  <2> QED BY <1>1, <2>1, <2>2, ImportTells
<1> QED BY <1>1, <1>2, <1>4, SpreadKeepsPaper DEF Timeline

LEMMA EndTickKeepsPaper ==
    ASSUME Typed, Typed', Punctual, NEW p \in Paper, PaperOK(p), NEW d \in Device, EndTick(d)
    PROVE  PaperOK(p)'
<1>1. Spreads(p)
  BY SameSpreads DEF EndTick
<1>2. ListsLive(p)
  BY DEF ListsLive, EndTick, Typed
<1>4. ASSUME ~Settled(p), NEW x \in Device, Own(x, p)' PROVE Told(x, p)'
  <2>1. Own(x, p) /\ Told(x, p)
    BY <1>1, <1>4, OwnWasOwn DEF PaperOK, Tracked, Timeline
  <2> QED BY <2>1, EndTickTells
<1> QED BY <1>1, <1>2, <1>4, SpreadKeepsPaper DEF Timeline

\* A step that leaves the paper's rows, the files and the ticks' progress alone.
LEMMA OtherKeepsPaper ==
    ASSUME Typed, Typed', NEW p \in Paper, PaperOK(p),
           \A e \in Device : rows'[e][p] = rows[e][p],
           UNCHANGED <<files, step, lastTick>>,
           \A e \in Device : \/ todo'[e] = todo[e]
                             \/ step[e] = "pdfs" /\ todo'[e] \subseteq todo[e]
    PROVE  PaperOK(p)'
<1>1. Spreads(p)
  BY SameSpreads
<1>2. ListsLive(p)
  BY DEF ListsLive
<1>4. ASSUME ~Settled(p), NEW x \in Device, Own(x, p)' PROVE Told(x, p)'
  <2>1. Own(x, p) /\ Told(x, p)
    BY <1>1, <1>4, OwnWasOwn DEF PaperOK, Tracked, Timeline
  <2> QED BY <2>1, OtherTells
<1> QED BY <1>1, <1>2, <1>4, SpreadKeepsPaper DEF Timeline

LEMMA ListKeepsPaper ==
    ASSUME Typed, Typed', NEW p \in Paper, PaperOK(p), NEW d \in Device, ListPdfs(d)
    PROVE  PaperOK(p)'
<1>1. rows' = rows /\ files' = files
  BY DEF ListPdfs, ReapingOnly
<1>2. Spreads(p) /\ ListsLive(p)
  BY <1>1, SameSpreads DEF ListsLive, ListPdfs, Go, WithPdf, Typed
<1>4. ASSUME ~Settled(p), NEW x \in Device, Own(x, p)' PROVE Told(x, p)'
  <2>1. Own(x, p) /\ Told(x, p)
    BY <1>2, <1>4, OwnWasOwn DEF PaperOK, Tracked, Timeline
  <2> QED BY <2>1, ListTells
<1> QED BY <1>2, <1>4, SpreadKeepsPaper DEF Timeline

LEMMA MoveKeepsPaper ==
    ASSUME Typed, Typed', NEW p \in Paper, PaperOK(p), NEW d \in Device, Moves(d),
           \A e \in Device : rows'[e][p] = rows[e][p]
    PROVE  PaperOK(p)'
<1>1. Spreads(p) /\ ListsLive(p)
  BY SameSpreads DEF ListsLive, Moves
<1>4. ASSUME ~Settled(p), NEW x \in Device, Own(x, p)' PROVE Told(x, p)'
  <2>1. Own(x, p) /\ Told(x, p)
    BY <1>1, <1>4, OwnWasOwn DEF PaperOK, Tracked, Timeline
  <2> QED BY <2>1, MoveTells
<1> QED BY <1>1, <1>4, SpreadKeepsPaper DEF Timeline

\* A paper whose tombstone goes is settled, and stays so.
LEMMA ForgetKeepsPaper ==
    ASSUME LongLived, Typed, Typed', Punctual, NEW p \in Paper, PaperOK(p),
           NEW d \in Device, NEW gone, Forgets(d, gone)
    PROVE  PaperOK(p)'
<1>1. /\ rows'[d][p] = IF p \in gone THEN NoRow ELSE rows[d][p]
      /\ \A e \in Device \ {d} : rows'[e] = rows[e]
      /\ files' = files /\ Moves(d)
  BY DEF Forgets, Forget, Go, ReapingOnly, Moves, Typed
<1>2. CASE p \notin gone
  <2>1. \A e \in Device : rows'[e][p] = rows[e][p]
    BY <1>1, <1>2
  <2> QED BY <1>1, <2>1, MoveKeepsPaper
<1>3. CASE p \in gone
  <2>1. HeardFrom(d) # {} /\ p \in Reapable(d)
    BY <1>3 DEF Forgets
  <2>2. Settled(p)
    BY <2>1, ReapsSettled DEF PaperOK, Tracked
  <2>3. Settled(p)'
    BY <1>1, <1>3, <2>2 DEF Settled, Moves, Live
  <2>4. Versions(p)' \subseteq Versions(p)
    BY <1>1, <1>3 DEF Versions
  <2>5. OneHash(p)'
    BY <2>4 DEF OneHash, PaperOK
  <2> QED BY <2>3, <2>5 DEF PaperOK
<1> QED BY <1>2, <1>3

\* What deleting a paper changes: one row, of one version, under a clock past its own.
LEMMA Deletion ==
    ASSUME Typed, NEW p \in Paper, OneHash(p), NEW d \in Device, DeletePaper(d, p)
    PROVE  LET r == rows[d][p]  s == rows'[d][p]
           IN  /\ Live(r) /\ r \in Row /\ r \in Versions(p)
               /\ s \in Row /\ s # NoRow /\ s.ub = d /\ s.deleted /\ s.val = r.val
               /\ s.ua > r.ua /\ s.ua >= now
               /\ \A e \in Device \ {d} : rows'[e] = rows[e]
               /\ \A v \in Versions(p)' : v \in Versions(p) \/ v = s
               /\ UNCHANGED <<now, files, step, todo, lastTick>>
<1> DEFINE r == rows[d][p]
           s == rows'[d][p]
           t == StampRow(r, now, d, TRUE)
<1>1. /\ Live(r) /\ r \in Row /\ r \in Versions(p)
      /\ now \in 1 .. MaxTime /\ now \in Nat
  BY VersionsAreRows, TimesAssumption DEF DeletePaper, Live, MaybeRow, Typed
<1>2. /\ s = t
      /\ \A e \in Device \ {d} : rows'[e] = rows[e]
      /\ UNCHANGED <<now, files, step, todo, lastTick>>
  BY DEF DeletePaper, Typed
<1>3. t \in Row /\ t # NoRow /\ t.ub = d /\ t.deleted = TRUE /\ t.val = r.val
  BY <1>1, Stamped
<1>4. t.ua >= now /\ t.ua > r.ua
  BY <1>1 DEF StampRow, Clamp, Row
<1>5. \A v \in Versions(p)' : v \in Versions(p) \/ v = s
  BY <1>2 DEF Versions
<1> QED BY <1>1, <1>2, <1>3, <1>4, <1>5

\* The paper keeps its PDF: who kept it does, or who deletes it will.
LEMMA DeleteKeepsKeeper ==
    ASSUME Typed, PdfsNamed, NEW p \in Paper, OneHash(p),
           NEW d \in Device, DeletePaper(d, p), NEW x \in Device, Keeps(x, p)
    PROVE  \E y \in Device : /\ Keeps(y, p)' /\ rows'[y][p].val = rows[x][p].val
                             /\ rows'[y][p].ua >= now
<1> DEFINE r == rows[d][p]
           s == rows'[d][p]
<1>1. /\ Live(r) /\ r \in Row /\ r \in Versions(p)
      /\ s \in Row /\ s # NoRow /\ s.ub = d /\ s.deleted /\ s.val = r.val /\ s.ua > r.ua
      /\ s.ua >= now
      /\ \A e \in Device \ {d} : rows'[e] = rows[e]
      /\ \A v \in Versions(p)' : v \in Versions(p) \/ v = s
  BY Deletion
<1> HIDE DEF s
<1>2. /\ rows[x][p] \in Row /\ rows[x][p] # NoRow /\ rows[x][p] \in Versions(p)
      /\ \A v \in Versions(p) : v \in Row /\ ~Newer(v, rows[x][p])
  BY VersionsAreRows DEF Keeps, MaybeRow
<1>3. Newer(s, r)
  BY <1>1 DEF Newer
<1>4. r.val # NoValue /\ r.val = rows[x][p].val
  <2>1. r.val # NoValue
    BY <1>1, ValueAssumption DEF PdfsNamed, Named
  <2> QED BY <1>1, <1>2, <2>1 DEF Keeps, OneHash, Fits
<1>5. CASE x = d \/ Newer(s, rows[x][p])
  <2>1. Newer(s, rows[x][p])
    BY <1>3, <1>5
  <2>2. \A v \in Versions(p)' : ~Newer(v, s)
    <3>1. \A v \in Versions(p) : ~Newer(v, s)
      BY <1>1, <1>2, <2>1, NewerOrders
    <3>2. ~Newer(s, s)
      BY <1>1, NewerOrders
    <3> QED BY <1>1, <3>1, <3>2
  <2>3. Keeps(d, p)'
    BY <1>1, <1>4, <2>2 DEF s, Keeps
  <2> QED BY <1>1, <1>4, <2>3 DEF s
<1>6. CASE x # d /\ ~Newer(s, rows[x][p])
  <2>1. Keeps(x, p)'
    BY <1>1, <1>2, <1>6 DEF Keeps
  <2>2. now \in Nat /\ s.ua \in Nat /\ rows[x][p].ua \in Nat
    BY <1>1, <1>2, TimesAssumption DEF Typed, Row
  <2>3. rows[x][p].ua >= now
    BY <1>1, <1>6, <2>2 DEF Newer
  <2> QED BY <1>1, <1>6, <2>1, <2>3
<1> QED BY <1>5, <1>6

LEMMA DeleteKeepsPaper ==
    ASSUME Typed, Typed', PdfsNamed, Punctual, NEW p \in Paper, PaperOK(p),
           NEW d \in Device, DeletePaper(d, p)
    PROVE  PaperOK(p)'
<1> DEFINE r == rows[d][p]
           s == rows'[d][p]
<1>1. /\ Live(r) /\ r \in Row /\ r \in Versions(p)
      /\ \A e \in Device \ {d} : rows'[e] = rows[e]
      /\ UNCHANGED <<now, files, step, todo, lastTick>>
  BY Deletion DEF PaperOK
<1>2. /\ s \in Row /\ s # NoRow /\ s.ub = d /\ s.deleted /\ s.val = r.val
      /\ s.ua > r.ua /\ s.ua >= now
  BY Deletion DEF PaperOK
<1>3. \A v \in Versions(p)' : v \in Versions(p) \/ v = s
  BY Deletion DEF PaperOK
<1>4. ~Settled(p) /\ Tracked(p) /\ OneHash(p)
  BY <1>1 DEF Settled, PaperOK
<1>5. PICK h \in Content, t \in Nat : \A v \in Versions(p) : Fits(v, h, t)
  BY <1>4 DEF OneHash
<1> HIDE DEF s
<1>6. OneHash(p)'
  <2>0. Fits(r, h, t) /\ r.ua = t
    BY <1>1, <1>5 DEF Fits, Live
  <2>1. Fits(s, h, t)
    BY <1>2, <2>0 DEF Fits
  <2> QED BY <1>3, <1>5, <2>1 DEF OneHash
<1>7. AuthorsAhead(p)'
  <2> SUFFICES ASSUME NEW v \in Versions(p)', v.deleted
               PROVE  Dead(rows'[v.ub][p]) /\ ~Newer(v, rows'[v.ub][p])
    BY DEF AuthorsAhead
  <2>1. CASE v = s
    <3>1. rows'[v.ub][p] = s
      BY <1>2, <2>1 DEF s
    <3>2. ~Newer(s, s)
      BY <1>2, NewerOrders
    <3> QED BY <1>2, <2>1, <3>1, <3>2 DEF Dead
  <2>2. CASE v \in Versions(p)
    <3>1. Dead(rows[v.ub][p]) /\ ~Newer(v, rows[v.ub][p]) /\ v.ub \in Device
      BY <1>4, <1>5, <2>2 DEF Tracked, AuthorsAhead, Fits
    <3>2. v.ub # d
      BY <1>1, <3>1 DEF Live, Dead
    <3> QED BY <1>1, <3>1, <3>2
  <2> QED BY <1>3, <2>1, <2>2
<1>8. Timeline(p)'
  <2> SUFFICES ASSUME NEW x \in Device, Own(x, p)' PROVE Told(x, p)'
    BY DEF Timeline
  <2>1. CASE x = d
    <3>1. ASSUME NEW e \in Device PROVE lastTick'[e] <= s.ua /\ lastTick'[e] \in Nat
      <4>1. /\ lastTick'[e] = lastTick[e] /\ lastTick[e] \in Nat /\ lastTick[e] <= now
            /\ now \in Nat
        BY <1>1, TimesAssumption DEF Punctual, Typed
      <4>2. s.ua \in Nat
        BY <1>2 DEF Row
      <4> QED BY <1>2, <4>1, <4>2
    <3>2. MaxAway \in Nat /\ s.ua \in Nat /\ rows'[x][p] = s
      BY <1>2, <2>1, TimesAssumption DEF s, Row
    <3>3. \A e \in Peers(x) : e \in Device
      BY DEF Peers
    <3> QED BY <3>1, <3>2, <3>3 DEF Told, AuthorPublished, PeerRead, PeerPublished, StillListed
  <2>2. CASE x # d
    <3>1. rows'[x] = rows[x] /\ Own(x, p)
      BY <1>1, <2>2 DEF Own
    <3>2. \A e \in Device : Dead(rows[e][p]) => Dead(rows'[e][p])
      BY <1>1, <1>2 DEF s, Dead
    <3>3. Told(x, p)
      BY <1>4, <3>1 DEF Tracked, Timeline
    <3> QED BY <1>1, <3>1, <3>2, <3>3, OtherTells
  <2> QED BY <2>1, <2>2
<1>9. \E x \in Device : Keeps(x, p)'
  BY <1>4, DeleteKeepsKeeper DEF Tracked
<1> QED BY <1>6, <1>7, <1>8, <1>9 DEF PaperOK, Tracked

LEMMA AddKeepsPaper ==
    ASSUME Typed, Typed', NEW p \in Paper, PaperOK(p),
           NEW d \in Device, NEW h \in Value, AddPaper(d, p, h)
    PROVE  PaperOK(p)'
<1> DEFINE s == rows'[d][p]
<1>1. /\ now \in Nat /\ now' = now /\ files' = files
      /\ \A e \in Device : rows[e][p] = NoRow /\ files[e].rows[p] = NoRow
      /\ s = StampRow(Unstamped(h), now, d, FALSE)
      /\ \A e \in Device \ {d} : rows'[e][p] = NoRow
  BY TimesAssumption DEF AddPaper, Typed
<1>2. /\ s \in Row /\ s # NoRow /\ s.ub = d /\ ~s.deleted /\ s.val = h
  <2>1. Unstamped(h) \in Row /\ Unstamped(h).ua = 0 /\ Unstamped(h).val = h
    BY UnstampedType DEF Unstamped
  <2> DEFINE t == StampRow(Unstamped(h), now, d, FALSE)
  <2>2. /\ t \in Row /\ t # NoRow
        /\ t.ub = d /\ t.deleted = FALSE /\ t.val = h
    <3>1. PICK r \in Row : r = Unstamped(h) /\ r.val = h
      BY <2>1
    <3>2. PICK n \in Nat, dead \in BOOLEAN : n = now /\ dead = FALSE
      BY <1>1
    <3>3. PICK u : u = StampRow(r, n, d, dead)
      OBVIOUS
    <3>4. u \in Row /\ u # NoRow /\ u.ub = d /\ u.deleted = dead /\ u.val = r.val
      BY <3>3, Stamped
    <3> QED BY <3>1, <3>2, <3>3, <3>4
  <2> QED BY <1>1, <2>2
<1>3. \A v \in Versions(p)' : v = s
  BY <1>1 DEF Versions
<1> HIDE DEF s
<1>4. OneHash(p)'
  <2>1. Fits(s, h, s.ua) /\ h \in Content /\ s.ua \in Nat
    BY <1>2 DEF Fits, Content, Row
  <2> QED BY <1>3, <2>1 DEF OneHash
<1>5. AuthorsAhead(p)'
  BY <1>2, <1>3 DEF AuthorsAhead
<1>6. \A e \in Device : ~Dead(rows'[e][p])
  BY <1>1, <1>2 DEF s, Dead
<1>7. Timeline(p)'
  BY <1>6 DEF Timeline, Own
<1>8. Keeps(d, p)'
  <2>1. ~Newer(s, s)
    BY <1>2, NewerOrders
  <2> QED BY <1>2, <1>3, <2>1, ValueAssumption DEF s, Keeps
<1> QED BY <1>4, <1>5, <1>7, <1>8 DEF PaperOK, Tracked
----------------------------------------------------------------------------
(* The specification.                                                      *)

Papers == \A p \in Paper : PaperOK(p)


\* A shared PDF is kept by a row nothing is newer than, is being removed, or was lost.
BlobsKept ==
    \A h \in Value : blobs[h] # Missing =>
        \/ \E d \in Device, p \in Paper : Keeps(d, p) /\ rows[d][p].val = h
        \/ \E d \in Device : step[d] = "drop" /\ h \in orphans[d]
        \/ h \in history.lost

\* A row that d's tick does not outlive: live, or not long dead when d's last tick ended.
Young(d, r) == r.deleted => lastTick[d] <= r.ua + 3 * MaxAway

\* A row keeps h that no device reaps before d's next tick has ended.
Spared(d, h) ==
    \E e \in Device, q \in Paper :
        Keeps(e, q) /\ rows[e][q].val = h /\ Young(d, rows[e][q])

\* What d's dead rows name is on d's list, or was missed, or need not be there.
Listed(d) ==
    \A p \in Paper, h \in Value : Dead(rows[d][p]) /\ rows[d][p].val = h =>
        h \in orphans[d] \union history.missed[d] \/ Spared(d, h)

ListSound == \A d \in Device : step[d] = "reap" => Listed(d)

Inv == Typed /\ PdfsNamed /\ Punctual /\ Papers /\ ListSound /\ BlobsKept

LEMMA InvInit == Init => Inv
<1> SUFFICES ASSUME Init PROVE Inv
  OBVIOUS
<1>1. Typed /\ PdfsNamed /\ Punctual
  BY TypedInit, PunctualInit
<1>2. ASSUME NEW p \in Paper PROVE PaperOK(p)
  <2>1. \A d \in Device : rows[d][p] = NoRow /\ files[d].rows[p] = NoRow /\ step[d] = "export"
    BY DEF Init, NoSnapshot
  <2>2. Versions(p) = {}
    BY <2>1 DEF Versions
  <2>3. NoValue \in Content /\ 0 \in Nat
    BY DEF Content
  <2>4. OneHash(p)
    BY <2>2, <2>3 DEF OneHash
  <2> QED BY <2>1, <2>4 DEF PaperOK, Settled, Live
<1>3. BlobsKept
  BY DEF Init, BlobsKept
<1>4. ListSound
  BY DEF Init, ListSound
<1> QED BY <1>1, <1>2, <1>3, <1>4 DEF Inv, Papers

LEMMA PapersNext ==
    LongLived /\ Typed /\ Typed' /\ PdfsNamed /\ Punctual /\ Papers /\ [Next]_vars => Papers'
<1> SUFFICES ASSUME LongLived, Typed, Typed', PdfsNamed, Punctual, Papers, [Next]_vars,
                    NEW p \in Paper
             PROVE  PaperOK(p)'
  BY DEF Papers
<1>0. PaperOK(p)
  BY DEF Papers
<1>1. ASSUME NEW d \in Device, NEW q \in Paper, NEW h \in Value, AddPaper(d, q, h)
      PROVE  PaperOK(p)'
  <2>1. CASE q = p
    BY <1>0, <1>1, <2>1, AddKeepsPaper
  <2>2. CASE q # p
    <3>1. \A e \in Device : rows'[e][p] = rows[e][p]
      <4>1. PICK x : rows' = [rows EXCEPT ![d][q] = x]
        BY <1>1 DEF AddPaper
      <4>2. rows \in [Device -> [Paper -> MaybeRow]]
        BY DEF Typed
      <4> QED BY <2>2, <4>1, <4>2
    <3>2. UNCHANGED <<files, step, lastTick>> /\ todo' = todo
      BY <1>1 DEF AddPaper
    <3> QED BY <1>0, <3>1, <3>2, OtherKeepsPaper
  <2> QED BY <2>1, <2>2
<1>2. ASSUME NEW d \in Device, NEW q \in Paper, DeletePaper(d, q) PROVE PaperOK(p)'
  <2>1. CASE q = p
    BY <1>0, <1>2, <2>1, DeleteKeepsPaper
  <2>2. CASE q # p
    <3>1. \A e \in Device : rows'[e][p] = rows[e][p]
      BY <1>2, <2>2 DEF DeletePaper, Typed
    <3>2. UNCHANGED <<files, step, lastTick>> /\ todo' = todo
      BY <1>2 DEF DeletePaper
    <3> QED BY <1>0, <3>1, <3>2, OtherKeepsPaper
  <2> QED BY <2>1, <2>2
<1>3. ASSUME NEW d \in Device, Export(d) PROVE PaperOK(p)'
  BY <1>0, <1>3, ExportKeepsPaper
<1>4. ASSUME NEW d \in Device, NEW e \in Peers(d), ImportFrom(d, e) PROVE PaperOK(p)'
  BY <1>0, <1>4, ImportKeepsPaper
<1>5. ASSUME NEW d \in Device, Reap(d) \/ ReapFails(d) PROVE PaperOK(p)'
  <2>1. PICK gone : Forgets(d, gone)
    BY <1>5, ReapForgets
  <2> QED BY <1>0, <2>1, ForgetKeepsPaper
<1>6. ASSUME NEW d \in Device,
             \/ ListOrphans(d) \/ ListingFails(d) \/ StopApp(d)
             \/ \E h \in Value : DropBlob(d, h) \/ DropFails(d, h)
      PROVE  PaperOK(p)'
  <2>1. Moves(d) /\ rows' = rows
    BY <1>6, MovesBehindImports
  <2> QED BY <1>0, <2>1, MoveKeepsPaper
<1>7. ASSUME NEW d \in Device, ListPdfs(d) PROVE PaperOK(p)'
  BY <1>0, <1>7, ListKeepsPaper
<1>8. ASSUME NEW d \in Device, NEW q \in Paper, TransferPdf(d, q) PROVE PaperOK(p)'
  <2>1. \A e \in Device : \/ todo'[e] = todo[e]
                          \/ step[e] = "pdfs" /\ todo'[e] \subseteq todo[e]
    BY <1>8 DEF TransferPdf, Typed
  <2> QED BY <1>0, <1>8, <2>1, OtherKeepsPaper DEF TransferPdf
<1>9. ASSUME NEW d \in Device, EndTick(d) PROVE PaperOK(p)'
  BY <1>0, <1>9, EndTickKeepsPaper
<1>10. CASE Pass
  BY <1>0, <1>10, OtherKeepsPaper DEF Pass
<1>11. CASE UNCHANGED vars
  BY <1>0, <1>11, OtherKeepsPaper DEF vars
<1> QED BY <1>1, <1>2, <1>3, <1>4, <1>5, <1>6, <1>7, <1>8, <1>9, <1>10, <1>11
        DEF Next, TickStep, Fails
----------------------------------------------------------------------------
(* Who keeps a PDF.                                                        *)

\* Where no tombstone goes what is kept stays kept, by a row that is no older.
KeepersStay ==
    \A d \in Device, p \in Paper : Keeps(d, p) =>
        \E e \in Device :
            /\ Keeps(e, p)' /\ rows'[e][p].val = rows[d][p].val
            /\ rows'[e][p].deleted =>
                  \/ rows'[e][p].ua >= now
                  \/ rows[d][p].deleted /\ rows'[e][p].ua = rows[d][p].ua

LEMMA SpreadKeepersStay ==
    ASSUME Typed, Typed', \A p \in Paper : Spreads(p)
    PROVE  KeepersStay
<1> SUFFICES ASSUME NEW d \in Device, NEW p \in Paper, Keeps(d, p)
             PROVE  /\ Keeps(d, p)' /\ rows'[d][p].val = rows[d][p].val
                    /\ rows'[d][p].ua = rows[d][p].ua
                    /\ rows'[d][p].deleted = rows[d][p].deleted
  BY DEF KeepersStay
<1> QED BY SpreadKeepsKeeper

LEMMA SameKeepersStay ==
    ASSUME Typed, Typed', rows' = rows, files' = files
    PROVE  KeepersStay
BY SameSpreads, SpreadKeepersStay

LEMMA UserKeepersStay ==
    ASSUME Typed, Typed', PdfsNamed, Papers, NEW d \in Device, NEW q \in Paper,
           DeletePaper(d, q) \/ \E h \in Value : AddPaper(d, q, h)
    PROVE  KeepersStay
<1> SUFFICES ASSUME NEW x \in Device, NEW p \in Paper, Keeps(x, p)
             PROVE  \E e \in Device :
                       /\ Keeps(e, p)' /\ rows'[e][p].val = rows[x][p].val
                       /\ rows'[e][p].deleted =>
                             \/ rows'[e][p].ua >= now
                             \/ rows[x][p].deleted /\ rows'[e][p].ua = rows[x][p].ua
  BY DEF KeepersStay
<1>1. CASE p # q
  <2>1. \A e \in Device : rows'[e][p] = rows[e][p] /\ files'[e].rows[p] = files[e].rows[p]
    <3>1. CASE DeletePaper(d, q)
      BY <1>1, <3>1 DEF DeletePaper, Typed
    <3>2. CASE \E h \in Value : AddPaper(d, q, h)
      BY <1>1, <3>2 DEF AddPaper, Typed
    <3> QED BY <3>1, <3>2
  <2>2. Spreads(p)
    BY <2>1, SameSpreads
  <2>3. /\ Keeps(x, p)' /\ rows'[x][p].val = rows[x][p].val
        /\ rows'[x][p].ua = rows[x][p].ua /\ rows'[x][p].deleted = rows[x][p].deleted
    BY <2>2, SpreadKeepsKeeper
  <2> QED BY <2>3
<1>2. CASE p = q /\ DeletePaper(d, q)
  BY <1>2, DeleteKeepsKeeper DEF Papers, PaperOK
<1>3. CASE p = q /\ \E h \in Value : AddPaper(d, q, h)
  BY <1>3 DEF AddPaper, Keeps
<1> QED BY <1>1, <1>2, <1>3

\* A paper that is live somewhere has a row that keeps its PDF.
LEMMA LiveIsKept ==
    ASSUME Typed, PdfsNamed, Papers, NEW d \in Device, NEW q \in Paper,
           rows[d][q] # NoRow, rows[d][q].val \in Value, ~Settled(q)
    PROVE  Tracked(q) /\ \E y \in Device : Keeps(y, q) /\ rows[y][q].val = rows[d][q].val
<1>1. OneHash(q) /\ Tracked(q)
  BY DEF Papers, PaperOK
<1>2. PICK y \in Device : Keeps(y, q)
  BY <1>1 DEF Tracked
<1>3. rows[d][q] \in Versions(q) /\ rows[y][q] \in Versions(q)
  BY <1>2 DEF Versions, Keeps
<1>4. rows[y][q].val = rows[d][q].val
  BY <1>1, <1>2, <1>3, ValueAssumption DEF OneHash, Fits, Keeps
<1> QED BY <1>1, <1>2, <1>4

\* What a device reaps was dead before any device's last tick began.
LEMMA ReapedNotYoung ==
    ASSUME LongLived, Typed, Punctual, NEW d \in Device, HeardFrom(d) # {},
           NEW q \in Paper, q \in Reapable(d), NEW x \in Device
    PROVE  ~Young(x, rows[d][q])
<1>1. rows[d][q] # NoRow /\ rows[d][q].deleted /\ rows[d][q].ua < Cutoff(d)
  BY DEF Reapable, Dead
<1>2. /\ rows[d][q].ua \in Nat /\ now \in Nat /\ MaxAway \in Nat \ {0} /\ TTL \in Nat
      /\ lastTick[x] \in Nat
  BY <1>1, Clocks, TimesAssumption
<1>3. rows[d][q].ua < now - 2 * TTL
  BY <1>1, <1>2, CutoffBound
<1>4. now - lastTick[x] <= MaxAway /\ 3 * MaxAway <= TTL
  BY DEF Punctual, LongLived
<1>5. ~(lastTick[x] <= rows[d][q].ua + 3 * MaxAway)
  BY <1>2, <1>3, <1>4
<1> QED BY <1>1, <1>5 DEF Young

\* A row that keeps a PDF and does not go keeps it.
LEMMA ForgetKeepsKeeper ==
    ASSUME Typed, NEW d \in Device, NEW gone, Forgets(d, gone),
           NEW x \in Device, NEW p \in Paper, Keeps(x, p), x # d \/ p \notin gone
    PROVE  Keeps(x, p)' /\ rows'[x][p] = rows[x][p]
<1>1. /\ \A q \in Paper : rows'[d][q] = IF q \in gone THEN NoRow ELSE rows[d][q]
      /\ \A e \in Device \ {d} : rows'[e] = rows[e]
      /\ files' = files
  BY DEF Forgets, Forget, ReapingOnly, Typed
<1>2. Versions(p)' \subseteq Versions(p)
  BY <1>1 DEF Versions
<1>3. rows'[x][p] = rows[x][p]
  BY <1>1
<1> QED BY <1>2, <1>3 DEF Keeps

LEMMA ForgetKeepsSpared ==
    ASSUME LongLived, Typed, Punctual, NEW d \in Device, NEW gone, Forgets(d, gone),
           NEW x \in Device, NEW h, Spared(x, h)
    PROVE  Spared(x, h)'
<1>1. PICK e \in Device, q \in Paper : Keeps(e, q) /\ rows[e][q].val = h /\ Young(x, rows[e][q])
  BY DEF Spared
<1>2. e # d \/ q \notin gone
  <2> SUFFICES ASSUME e = d, q \in gone PROVE FALSE
    OBVIOUS
  <2>1. HeardFrom(d) # {} /\ q \in Reapable(d)
    BY DEF Forgets
  <2> QED BY <1>1, <2>1, ReapedNotYoung
<1>3. Keeps(e, q)' /\ rows'[e][q] = rows[e][q]
  BY <1>1, <1>2, ForgetKeepsKeeper
<1>4. lastTick' = lastTick
  BY DEF Forgets, ReapingOnly
<1>5. Young(x, rows[e][q])'
  BY <1>1, <1>3, <1>4 DEF Young
<1> QED BY <1>1, <1>3, <1>5 DEF Spared
----------------------------------------------------------------------------
(* What a tick lists.                                                      *)

LEMMA StaySpared ==
    ASSUME Typed, Typed', Punctual, KeepersStay, NEW x \in Device,
           lastTick'[x] = lastTick[x], NEW h, Spared(x, h)
    PROVE  Spared(x, h)'
<1>1. PICK d \in Device, q \in Paper : Keeps(d, q) /\ rows[d][q].val = h /\ Young(x, rows[d][q])
  BY DEF Spared
<1>2. PICK e \in Device :
            /\ Keeps(e, q)' /\ rows'[e][q].val = rows[d][q].val
            /\ rows'[e][q].deleted =>
                  \/ rows'[e][q].ua >= now
                  \/ rows[d][q].deleted /\ rows'[e][q].ua = rows[d][q].ua
  BY <1>1 DEF KeepersStay
<1>3. rows'[e][q] # NoRow /\ rows'[e][q] \in Row
  BY <1>2 DEF Keeps, Typed, MaybeRow
<1>4. /\ rows'[e][q].ua \in Nat /\ now \in Nat /\ MaxAway \in Nat /\ lastTick[x] \in Nat
      /\ lastTick[x] <= now
  BY <1>3, TimesAssumption DEF Row, Typed, Punctual
<1>5. rows'[e][q].deleted => lastTick'[x] <= rows'[e][q].ua + 3 * MaxAway
  BY <1>1, <1>2, <1>4 DEF Young
<1> QED BY <1>1, <1>2, <1>5 DEF Spared, Young

\* A device between its listing and its reaping keeps the list.
Waits(x) ==
    /\ step[x] = "reap" /\ lastTick'[x] = lastTick[x]
    /\ orphans'[x] = orphans[x] /\ history'.missed[x] = history.missed[x]

LEMMA ListStays ==
    ASSUME Typed, Typed', Punctual, ListSound, KeepersStay,
           \A x \in Device : step'[x] = "reap" => Waits(x) /\ rows'[x] = rows[x]
    PROVE  ListSound'
<1> SUFFICES ASSUME NEW x \in Device, step'[x] = "reap", NEW p \in Paper, NEW h \in Value,
                    Dead(rows'[x][p]), rows'[x][p].val = h
             PROVE  h \in orphans'[x] \union history'.missed[x] \/ Spared(x, h)'
  BY DEF ListSound, Listed
<1>1. Waits(x) /\ rows'[x] = rows[x]
  OBVIOUS
<1>2. h \in orphans[x] \union history.missed[x] \/ Spared(x, h)
  BY <1>1 DEF ListSound, Listed, Waits
<1>3. ASSUME Spared(x, h) PROVE Spared(x, h)'
  BY <1>1, <1>3, StaySpared DEF Waits
<1> QED BY <1>1, <1>2, <1>3 DEF Waits

LEMMA ForgetKeepsLists ==
    ASSUME LongLived, Typed, Typed', Punctual, ListSound, NEW d \in Device, NEW gone, Forgets(d, gone)
    PROVE  ListSound'
<1> SUFFICES ASSUME NEW x \in Device, step'[x] = "reap", NEW p \in Paper, NEW h \in Value,
                    Dead(rows'[x][p]), rows'[x][p].val = h
             PROVE  h \in orphans'[x] \union history'.missed[x] \/ Spared(x, h)'
  BY DEF ListSound, Listed
<1>1. x # d /\ step[x] = "reap" /\ rows'[x] = rows[x]
  BY DEF Forgets, Forget, Go, Typed
<1>2. orphans'[x] = orphans[x] /\ history'.missed[x] = history.missed[x]
  BY <1>1 DEF Forgets
<1>3. h \in orphans[x] \union history.missed[x] \/ Spared(x, h)
  BY <1>1 DEF ListSound, Listed
<1>4. ASSUME Spared(x, h) PROVE Spared(x, h)'
  BY <1>4, ForgetKeepsSpared
<1> QED BY <1>1, <1>2, <1>3, <1>4

\* A dead row's PDF that a live paper names too is kept by a row that stays.
LEMMA ListingLists ==
    ASSUME Typed, Typed', PdfsNamed, Punctual, Papers, ListSound,
           NEW d \in Device, ListOrphans(d) \/ ListingFails(d)
    PROVE  ListSound'
<1>1. /\ rows' = rows /\ files' = files /\ lastTick' = lastTick
      /\ orphans'[d] \union history'.missed[d] \in
            {Orphans(rows[d]) \union history.missed[d], orphans[d] \union Orphans(rows[d])}
      /\ \A e \in Device \ {d} : /\ step'[e] = step[e] /\ orphans'[e] = orphans[e]
                                 /\ history'.missed[e] = history.missed[e]
      /\ step[d] = "import"
  <2>1. CASE ListOrphans(d)
    BY <2>1 DEF ListOrphans, Go, ReapingOnly, Typed
  <2>2. CASE ListingFails(d)
    BY <2>2 DEF ListingFails, Fault, Go, ReapingOnly, Typed, Histories
  <2> QED BY <2>1, <2>2
<1>2. KeepersStay
  BY <1>1, SameKeepersStay
<1>k. ASSUME NEW x \in Device, NEW h \in Value, Spared(x, h) PROVE Spared(x, h)'
  BY <1>1, <1>2, <1>k, StaySpared
<1>3. Orphans(rows[d]) \subseteq orphans'[d] \union history'.missed[d]
  BY <1>1
<1> SUFFICES ASSUME NEW x \in Device, step'[x] = "reap", NEW p \in Paper, NEW h \in Value,
                    Dead(rows[x][p]), rows[x][p].val = h
             PROVE  h \in orphans'[x] \union history'.missed[x] \/ Spared(x, h)'
  BY <1>1 DEF ListSound, Listed
<1>4. CASE x # d
  <2>1. h \in orphans[x] \union history.missed[x] \/ Spared(x, h)
    BY <1>1, <1>4 DEF ListSound, Listed
  <2> QED BY <1>1, <1>4, <1>k, <2>1
<1>5. CASE x = d /\ h \in Orphans(rows[d])
  BY <1>3, <1>5
<1>6. CASE x = d /\ h \notin Orphans(rows[d])
  <2>0. h # NoValue
    BY ValueAssumption
  <2>1. PICK q \in Paper : Live(rows[d][q]) /\ rows[d][q].val = h
    BY <1>6, <2>0 DEF Orphans
  <2>2. rows[d][q] # NoRow /\ rows[d][q].val \in Value /\ ~Settled(q)
    BY <2>1 DEF PdfsNamed, Named, Live, Settled
  <2>3. Tracked(q) /\ \E y \in Device : Keeps(y, q) /\ rows[y][q].val = h
    BY <2>1, <2>2, LiveIsKept
  <2>4. PICK y \in Device : Keeps(y, q) /\ rows[y][q].val = h
    BY <2>3
  <2>5. Young(d, rows[y][q])
    <3> SUFFICES ASSUME rows[y][q].deleted
                 PROVE  lastTick[d] <= rows[y][q].ua + 3 * MaxAway
      BY DEF Young
    <3>1. Own(y, q) /\ d # y
      BY <2>1, <2>4 DEF Keeps, Own, Dead, Live
    <3>2. PeerRead(y, d, q) /\ ~Dead(rows[d][q])
      BY <2>1, <2>3, <3>1 DEF Tracked, Timeline, Told, Peers, Live, Dead
    <3>3. rows[y][q].ua \in Nat /\ MaxAway \in Nat /\ lastTick[d] \in Nat
      BY <2>4, Clocks DEF Keeps
    <3> QED BY <3>2, <3>3 DEF PeerRead
  <2>6. Spared(d, h)
    BY <2>4, <2>5 DEF Spared
  <2> QED BY <1>6, <1>k, <2>6
<1> QED BY <1>4, <1>5, <1>6

\* A paper deleted while a tick is between the two is young.
LEMMA UserKeepsLists ==
    ASSUME Typed, Typed', PdfsNamed, Punctual, Papers, ListSound, NEW d \in Device, NEW q \in Paper,
           DeletePaper(d, q) \/ \E h \in Value : AddPaper(d, q, h)
    PROVE  ListSound'
<1>1. /\ now' = now /\ lastTick' = lastTick /\ step' = step
      /\ orphans' = orphans /\ history' = history
      /\ \A e \in Device, p \in Paper : e # d \/ p # q => rows'[e][p] = rows[e][p]
  <2>1. CASE DeletePaper(d, q)
    BY <2>1 DEF DeletePaper, listing, Typed
  <2>2. CASE \E h \in Value : AddPaper(d, q, h)
    <3>1. PICK r : rows' = [rows EXCEPT ![d][q] = r]
      BY <2>2 DEF AddPaper
    <3>2. \A e \in Device, p \in Paper : e # d \/ p # q => rows'[e][p] = rows[e][p]
      BY <3>1 DEF Typed
    <3> QED BY <2>2, <3>2 DEF AddPaper, listing
  <2> QED BY <2>1, <2>2
<1>2. KeepersStay
  BY UserKeepersStay
<1>k. ASSUME NEW x \in Device, NEW h \in Value, Spared(x, h) PROVE Spared(x, h)'
  BY <1>1, <1>2, <1>k, StaySpared
<1> SUFFICES ASSUME NEW x \in Device, step[x] = "reap", NEW p \in Paper, NEW h \in Value,
                    Dead(rows'[x][p]), rows'[x][p].val = h
             PROVE  h \in orphans[x] \union history.missed[x] \/ Spared(x, h)'
  BY <1>1 DEF ListSound, Listed
<1>3. CASE x # d \/ p # q
  <2>1. rows'[x][p] = rows[x][p]
    BY <1>1, <1>3
  <2>2. h \in orphans[x] \union history.missed[x] \/ Spared(x, h)
    BY <2>1 DEF ListSound, Listed
  <2> QED BY <1>k, <2>1, <2>2
<1>4. CASE x = d /\ p = q /\ DeletePaper(d, q)
  <2>1. Live(rows[d][q]) /\ rows'[d][q].val = rows[d][q].val
    BY <1>4, Deletion DEF Papers, PaperOK
  <2>2. rows[d][q] # NoRow /\ rows[d][q].val \in Value /\ ~Settled(q) /\ OneHash(q)
    BY <2>1 DEF PdfsNamed, Named, Live, Settled, Papers, PaperOK
  <2>3. PICK z \in Device : Keeps(z, q) /\ rows[z][q].val = rows[d][q].val
    BY <2>2, LiveIsKept
  <2>4. PICK y \in Device : /\ Keeps(y, q)' /\ rows'[y][q].val = rows[z][q].val
                            /\ rows'[y][q].ua >= now
    BY <1>4, <2>2, <2>3, DeleteKeepsKeeper
  <2>5. rows'[y][q] \in Row
    BY <2>4 DEF Keeps, Typed, MaybeRow
  <2>6. /\ rows'[y][q].ua \in Nat /\ now \in Nat /\ MaxAway \in Nat /\ lastTick[d] \in Nat
        /\ lastTick[d] <= now
    BY <2>5, TimesAssumption DEF Row, Typed, Punctual
  <2>7. lastTick'[d] <= rows'[y][q].ua + 3 * MaxAway
    BY <1>1, <2>4, <2>6
  <2>8. rows'[y][q].val = h
    BY <1>4, <2>1, <2>3, <2>4
  <2>9. Spared(d, h)'
    BY <2>4, <2>7, <2>8 DEF Spared, Young
  <2> QED BY <1>4, <2>9
<1>5. CASE x = d /\ p = q /\ \E k \in Value : AddPaper(d, q, k)
  <2>1. PICK k \in Value : AddPaper(d, q, k)
    BY <1>5
  <2>2. ~Dead(rows'[d][q])
    <3>1. rows'[d][q] = StampRow(Unstamped(k), now, d, FALSE)
      BY <2>1 DEF AddPaper, Typed
    <3>2. Unstamped(k) \in Row /\ now \in Nat
      BY UnstampedType, TimesAssumption DEF Typed
    <3>3. PICK u \in Row : u = Unstamped(k)
      BY <3>2
    <3>4. PICK t \in Nat, dead \in BOOLEAN : t = now /\ dead = FALSE
      BY <3>2
    <3>5. StampRow(u, t, d, dead).deleted = dead
      BY Stamped
    <3> QED BY <3>1, <3>3, <3>4, <3>5 DEF Dead
  <2> QED BY <1>5, <2>2
<1> QED BY <1>3, <1>4, <1>5

LEMMA ListsNext == LongLived /\ Inv /\ Typed' /\ [Next]_vars => ListSound'
<1> SUFFICES ASSUME LongLived, Typed, PdfsNamed, Punctual, Papers, ListSound, Typed', [Next]_vars
             PROVE  ListSound'
  BY DEF Inv
<1>1. ASSUME NEW d \in Device, NEW q \in Paper,
             DeletePaper(d, q) \/ \E h \in Value : AddPaper(d, q, h)
      PROVE  ListSound'
  BY <1>1, UserKeepsLists
<1>2. ASSUME NEW d \in Device, Export(d) PROVE ListSound'
  <2>1. KeepersStay
    BY <1>2, ExportSpreads, SpreadKeepersStay
  <2>2. \A x \in Device : step'[x] = "reap" => Waits(x) /\ rows'[x] = rows[x]
    BY <1>2 DEF Export, listing, Waits, Typed
  <2> QED BY <2>1, <2>2, ListStays
<1>3. ASSUME NEW d \in Device, NEW e \in Peers(d), ImportFrom(d, e) PROVE ListSound'
  <2>1. KeepersStay
    BY <1>3, ImportSpreads, SpreadKeepersStay
  <2>2. \A x \in Device : step'[x] = "reap" => Waits(x) /\ rows'[x] = rows[x]
    BY <1>3 DEF ImportFrom, listing, Waits, Typed
  <2> QED BY <2>1, <2>2, ListStays
<1>4. ASSUME NEW d \in Device, ListOrphans(d) \/ ListingFails(d) PROVE ListSound'
  BY <1>4, ListingLists
<1>5. ASSUME NEW d \in Device, Reap(d) \/ ReapFails(d) PROVE ListSound'
  <2>1. PICK gone : Forgets(d, gone)
    BY <1>5, ReapForgets
  <2> QED BY <2>1, ForgetKeepsLists
<1>s. ASSUME rows' = rows, files' = files, \A x \in Device : step'[x] = "reap" => Waits(x)
      PROVE  ListSound'
  BY <1>s, SameKeepersStay, ListStays
<1>6. ASSUME NEW d \in Device, NEW h \in Value, DropBlob(d, h) \/ DropFails(d, h) PROVE ListSound'
  <2>1. rows' = rows /\ files' = files /\ step' = step /\ lastTick' = lastTick /\ step[d] = "drop"
    BY <1>6 DEF DropBlob, DropFails, ReapingOnly
  <2>2. \A x \in Device \ {d} :
           orphans'[x] = orphans[x] /\ history'.missed[x] = history.missed[x]
    BY <1>6 DEF DropBlob, DropFails, Fault, Typed, Histories
  <2> QED BY <1>s, <2>1, <2>2 DEF Waits
<1>7. ASSUME NEW d \in Device, StopApp(d) PROVE ListSound'
  <2>1. /\ rows' = rows /\ files' = files /\ lastTick' = lastTick /\ step'[d] = "export"
        /\ \A x \in Device \ {d} :
              /\ step'[x] = step[x] /\ orphans'[x] = orphans[x]
              /\ history'.missed[x] = history.missed[x]
    BY <1>7 DEF StopApp, Go, ReapingOnly, Fault, Typed, Histories
  <2> QED BY <1>s, <2>1 DEF Waits
<1>8. ASSUME NEW d \in Device, ListPdfs(d) PROVE ListSound'
  <2>1. /\ rows' = rows /\ files' = files /\ lastTick' = lastTick /\ step'[d] = "pdfs"
        /\ orphans' = orphans /\ history' = history
        /\ \A x \in Device \ {d} : step'[x] = step[x]
    BY <1>8 DEF ListPdfs, Go, ReapingOnly, Typed
  <2> QED BY <1>s, <2>1 DEF Waits
<1>9. ASSUME NEW d \in Device, EndTick(d) PROVE ListSound'
  <2>1. /\ rows' = rows /\ files' = files /\ step'[d] = "export"
        /\ orphans' = orphans /\ history' = history
        /\ \A x \in Device \ {d} : step'[x] = step[x] /\ lastTick'[x] = lastTick[x]
    BY <1>9 DEF EndTick, listing, Typed
  <2> QED BY <1>s, <2>1 DEF Waits
<1>10. CASE UNCHANGED <<rows, files, step, lastTick, orphans, history>>
  BY <1>10, <1>s DEF Waits
<1> QED BY <1>1, <1>2, <1>3, <1>4, <1>5, <1>6, <1>7, <1>8, <1>9, <1>10
        DEF Next, TickStep, Fails, TransferPdf, Pass, listing, vars
----------------------------------------------------------------------------
(* What becomes of a shared PDF.                                           *)

\* Blobs stay kept where no tombstone goes and no file is published.
LEMMA BlobsStay ==
    ASSUME BlobsKept, KeepersStay, history.lost \subseteq history'.lost,
           \A h \in Value : blobs'[h] # Missing =>
              /\ blobs[h] # Missing
              /\ \A d \in Device : step[d] = "drop" /\ h \in orphans[d] =>
                    (step'[d] = "drop" /\ h \in orphans'[d]) \/ h \in history'.lost
    PROVE  BlobsKept'
<1> SUFFICES ASSUME NEW h \in Value, blobs'[h] # Missing
             PROVE  \/ \E d \in Device, p \in Paper : Keeps(d, p)' /\ rows'[d][p].val = h
                    \/ \E d \in Device : step'[d] = "drop" /\ h \in orphans'[d]
                    \/ h \in history'.lost
  BY DEF BlobsKept
<1>1. CASE \E d \in Device, p \in Paper : Keeps(d, p) /\ rows[d][p].val = h
  BY <1>1 DEF KeepersStay
<1>2. CASE \E d \in Device : step[d] = "drop" /\ h \in orphans[d]
  BY <1>2
<1>3. CASE h \in history.lost
  BY <1>3
<1> QED BY <1>1, <1>2, <1>3 DEF BlobsKept

\* When a tombstone goes, the shared file it names is on the list that is dropped then,
\* was lost, or is kept by a row that stays.
LEMMA ForgetKeepsBlobs ==
    ASSUME LongLived, Typed, Typed', Punctual, ListSound, BlobsKept,
           NEW d \in Device, NEW gone, Forgets(d, gone)
    PROVE  BlobsKept'
<1> SUFFICES ASSUME NEW h \in Value, blobs'[h] # Missing
             PROVE  \/ \E x \in Device, p \in Paper : Keeps(x, p)' /\ rows'[x][p].val = h
                    \/ \E x \in Device : step'[x] = "drop" /\ h \in orphans'[x]
                    \/ h \in history'.lost
  BY DEF BlobsKept
<1>1. /\ step[d] = "reap" /\ step'[d] = "drop" /\ blobs' = blobs
      /\ \A e \in Device \ {d} : step'[e] = step[e] /\ orphans'[e] = orphans[e]
  BY DEF Forgets, Go, Typed
<1>2. PICK lost \in SUBSET Value :
          /\ orphans'[d] \union lost =
                IF gone = {} THEN {} ELSE orphans[d] \union history.missed[d]
          /\ history'.lost = history.lost \union lost
  BY DEF Forgets
<1>3. CASE \E x \in Device : step[x] = "drop" /\ h \in orphans[x]
  BY <1>1, <1>3
<1>4. CASE h \in history.lost
  BY <1>2, <1>4
<1>5. ASSUME NEW x \in Device, NEW p \in Paper, Keeps(x, p), rows[x][p].val = h,
             x # d \/ p \notin gone
      PROVE  \E y \in Device, q \in Paper : Keeps(y, q)' /\ rows'[y][q].val = h
  <2>1. Keeps(x, p)' /\ rows'[x][p] = rows[x][p]
    BY <1>5, ForgetKeepsKeeper
  <2> QED BY <1>5, <2>1
<1>6. ASSUME NEW p \in Paper, Keeps(d, p), rows[d][p].val = h, p \in gone
      PROVE  \/ \E x \in Device, q \in Paper : Keeps(x, q)' /\ rows'[x][q].val = h
             \/ \E x \in Device : step'[x] = "drop" /\ h \in orphans'[x]
             \/ h \in history'.lost
  <2>1. Dead(rows[d][p]) /\ h # NoValue
    BY <1>6, ValueAssumption DEF Forgets, Reapable
  <2>2. h \in orphans[d] \union history.missed[d] \/ Spared(d, h)
    BY <1>1, <1>6, <2>1 DEF ListSound, Listed
  <2>3. CASE h \in orphans[d] \union history.missed[d]
    BY <1>1, <1>2, <1>6, <2>3
  <2>4. CASE Spared(d, h)
    <3>1. Spared(d, h)'
      BY <2>4, ForgetKeepsSpared
    <3> QED BY <3>1 DEF Spared
  <2> QED BY <2>2, <2>3, <2>4
<1>7. CASE \E x \in Device, p \in Paper : Keeps(x, p) /\ rows[x][p].val = h
  BY <1>5, <1>6, <1>7
<1> QED BY <1>1, <1>3, <1>4, <1>7 DEF BlobsKept

\* A shared file is published for a paper that somebody keeps.
LEMMA TransferKeepsBlobs ==
    ASSUME Typed, Typed', PdfsNamed, Papers, BlobsKept,
           NEW d \in Device, NEW q \in Paper, TransferPdf(d, q)
    PROVE  BlobsKept'
<1> DEFINE k == rows[d][q].val
<1>1. /\ rows' = rows /\ files' = files /\ step' = step /\ orphans' = orphans
      /\ history' = history /\ blobs' = ExportPdf(disk[d][PathOf[q]], k)
      /\ step[d] = "pdfs" /\ q \in todo[d] /\ rows[d][q] # NoRow /\ k \in Value
  BY DEF TransferPdf, PdfsNamed, listing
<1>2. KeepersStay
  BY <1>1, SameKeepersStay
<1> SUFFICES ASSUME NEW h \in Value, blobs'[h] # Missing
             PROVE  \/ \E x \in Device, p \in Paper : Keeps(x, p)' /\ rows'[x][p].val = h
                    \/ \E x \in Device : step'[x] = "drop" /\ h \in orphans'[x]
                    \/ h \in history'.lost
  BY DEF BlobsKept
<1>3. CASE blobs[h] # Missing
  BY <1>1, <1>2, <1>3 DEF BlobsKept, KeepersStay
<1>4. CASE blobs[h] = Missing
  <2>1. h = k
    BY <1>1, <1>4 DEF ExportPdf, Typed
  <2>2. ~Settled(q)
    BY <1>1 DEF Settled
  <2>3. PICK x \in Device : Keeps(x, q) /\ rows[x][q].val = h
    BY <1>1, <2>1, <2>2, LiveIsKept
  <2> QED BY <1>2, <2>3 DEF KeepersStay
<1> QED BY <1>3, <1>4

LEMMA BlobsNext == LongLived /\ Inv /\ Typed' /\ [Next]_vars => BlobsKept'
<1> SUFFICES ASSUME LongLived, Typed, PdfsNamed, Punctual, Papers, ListSound, BlobsKept,
                    Typed', [Next]_vars
             PROVE  BlobsKept'
  BY DEF Inv
<1>s. ASSUME KeepersStay, UNCHANGED <<step, blobs, orphans, history>> PROVE BlobsKept'
  BY <1>s, BlobsStay
<1>1. ASSUME NEW d \in Device, NEW q \in Paper,
             DeletePaper(d, q) \/ \E h \in Value : AddPaper(d, q, h)
      PROVE  BlobsKept'
  BY <1>1, <1>s, UserKeepersStay DEF DeletePaper, AddPaper, listing
<1>2. ASSUME NEW d \in Device, Export(d) PROVE BlobsKept'
  <2>1. KeepersStay
    BY <1>2, ExportSpreads, SpreadKeepersStay
  <2>2. /\ blobs' = blobs /\ orphans' = orphans /\ history' = history
        /\ \A x \in Device : step[x] = "drop" => step'[x] = "drop"
    BY <1>2 DEF Export, listing, Typed
  <2> QED BY <2>1, <2>2, BlobsStay
<1>3. ASSUME NEW d \in Device, NEW e \in Peers(d), ImportFrom(d, e) PROVE BlobsKept'
  <2>1. KeepersStay
    BY <1>3, ImportSpreads, SpreadKeepersStay
  <2> QED BY <1>3, <1>s, <2>1 DEF ImportFrom, listing
<1>4. ASSUME NEW d \in Device, Reap(d) \/ ReapFails(d) PROVE BlobsKept'
  <2>1. PICK gone : Forgets(d, gone)
    BY <1>4, ReapForgets
  <2> QED BY <2>1, ForgetKeepsBlobs
<1>5. ASSUME NEW d \in Device, ListOrphans(d) \/ ListingFails(d) PROVE BlobsKept'
  <2>1. /\ rows' = rows /\ files' = files /\ blobs' = blobs /\ step[d] = "import"
        /\ \A x \in Device \ {d} : step'[x] = step[x] /\ orphans'[x] = orphans[x]
    BY <1>5 DEF ListOrphans, ListingFails, Go, ReapingOnly, Typed
  <2>2. history.lost \subseteq history'.lost
    BY <1>5 DEF ListOrphans, ListingFails, Fault
  <2> QED BY <2>1, <2>2, SameKeepersStay, BlobsStay
<1>6. ASSUME NEW d \in Device, NEW h \in Value, DropBlob(d, h) PROVE BlobsKept'
  <2>1. rows' = rows /\ files' = files /\ step' = step /\ history' = history
    BY <1>6 DEF DropBlob, ReapingOnly
  <2>2. /\ \A k \in Value : blobs'[k] # Missing => k # h /\ blobs[k] # Missing
        /\ orphans'[d] = orphans[d] \ {h}
        /\ \A x \in Device \ {d} : orphans'[x] = orphans[x]
    BY <1>6 DEF DropBlob, Typed
  <2> QED BY <2>1, <2>2, SameKeepersStay, BlobsStay
<1>7. ASSUME NEW d \in Device, NEW h \in Value, DropFails(d, h) PROVE BlobsKept'
  <2>1. /\ rows' = rows /\ files' = files /\ step' = step /\ blobs' = blobs
        /\ history'.lost = history.lost \union {h}
        /\ orphans'[d] = orphans[d] \ {h}
        /\ \A x \in Device \ {d} : orphans'[x] = orphans[x]
    BY <1>7 DEF DropFails, Fault, ReapingOnly, Typed
  <2> QED BY <2>1, SameKeepersStay, BlobsStay
<1>8. ASSUME NEW d \in Device, StopApp(d) PROVE BlobsKept'
  <2>1. /\ rows' = rows /\ files' = files /\ blobs' = blobs
        /\ history'.lost = history.lost \union (IF step[d] = "drop" THEN orphans[d] ELSE {})
        /\ \A x \in Device \ {d} : step'[x] = step[x] /\ orphans'[x] = orphans[x]
    BY <1>8 DEF StopApp, Fault, Go, ReapingOnly, Typed
  <2> QED BY <2>1, SameKeepersStay, BlobsStay
<1>9. ASSUME NEW d \in Device, ListPdfs(d) PROVE BlobsKept'
  <2>1. /\ rows' = rows /\ files' = files /\ blobs' = blobs /\ orphans[d] = {}
        /\ orphans' = orphans /\ history' = history
        /\ \A x \in Device \ {d} : step'[x] = step[x]
    BY <1>9 DEF ListPdfs, Go, ReapingOnly, Typed
  <2> QED BY <2>1, SameKeepersStay, BlobsStay
<1>10. ASSUME NEW d \in Device, NEW q \in Paper, TransferPdf(d, q) PROVE BlobsKept'
  BY <1>10, TransferKeepsBlobs
<1>11. ASSUME NEW d \in Device, EndTick(d) PROVE BlobsKept'
  <2>1. /\ rows' = rows /\ files' = files /\ blobs' = blobs /\ step[d] = "pdfs"
        /\ orphans' = orphans /\ history' = history
        /\ \A x \in Device \ {d} : step'[x] = step[x]
    BY <1>11 DEF EndTick, listing, Typed
  <2> QED BY <2>1, SameKeepersStay, BlobsStay
<1>12. CASE UNCHANGED <<rows, files, step, blobs, orphans, history>>
  BY <1>12, <1>s, SameKeepersStay
<1> QED BY <1>1, <1>2, <1>3, <1>4, <1>5, <1>6, <1>7, <1>8, <1>9, <1>10, <1>11, <1>12
        DEF Next, TickStep, Fails, Pass, listing, vars

LEMMA InvNext == LongLived /\ Inv /\ [Next]_vars => Inv'
<1> SUFFICES ASSUME LongLived, Inv, [Next]_vars PROVE Inv'
  OBVIOUS
<1>1. Typed' /\ PdfsNamed' /\ Punctual'
  BY TypedNext, NamedNext, PunctualNext DEF Inv
<1> QED BY <1>1, PapersNext, ListsNext, BlobsNext DEF Inv

\* Where a tombstone lives three ticks or more, what every reachable state has: who has
\* heard of a deletion is bounded by when it was made, and a shared PDF is kept by someone,
\* is about to be removed, or was lost to a fault.
THEOREM InvHolds == ASSUME LongLived PROVE Spec => []Inv
<1>1. Inv /\ [Next]_vars => Inv'
  BY InvNext
<1> QED BY <1>1, InvInit, PTL DEF Spec

\* Where a tombstone lives three ticks or more, no device forgets that it deleted a paper
\* while another has it, or publishes it, live: twice the lifetime is long enough, whatever
\* the order of the ticks, whatever the peers' horizon and whatever fails.
THEOREM ForgottenWhenHeard == ASSUME LongLived PROVE Spec => ReapedWasSeen
<1>1. ASSUME Inv, [Next]_vars, NEW d \in Device, NEW p \in Paper,
             rows[d][p] # NoRow, rows'[d][p] = NoRow
      PROVE  \A e \in Device \ {d} : ~Live(rows[e][p]) /\ ~Live(files[e].rows[p])
  <2>0. Typed /\ Punctual /\ PaperOK(p)
    BY <1>1 DEF Inv, Papers
  <2>1. ASSUME Spreads(p) PROVE FALSE
    BY <1>1, <2>1 DEF Spreads
  <2>2. ASSUME \A e \in Device : rows'[e][p] = rows[e][p] PROVE FALSE
    BY <1>1, <2>2
  <2>3. ASSUME NEW x \in Device, NEW q \in Paper, DeletePaper(x, q) PROVE FALSE
    <3>1. CASE x = d /\ q = p
      BY <1>1, <2>0, <2>3, <3>1, Deletion DEF PaperOK
    <3>2. CASE x # d \/ q # p
      <4>1. rows'[d][p] = rows[d][p]
        BY <2>0, <2>3, <3>2 DEF DeletePaper, Typed
      <4> QED BY <1>1, <4>1
    <3> QED BY <3>1, <3>2
  <2>4. ASSUME NEW x \in Device, NEW q \in Paper, NEW h \in Value, AddPaper(x, q, h) PROVE FALSE
    <3>1. q # p
      BY <1>1, <2>4 DEF AddPaper
    <3>2. rows'[d][p] = rows[d][p]
      BY <2>0, <2>4, <3>1 DEF AddPaper, Typed
    <3> QED BY <1>1, <3>2
  <2>5. ASSUME NEW x \in Device, NEW e \in Peers(x), ImportFrom(x, e) PROVE FALSE
    BY <2>0, <2>1, <2>5, ImportSpreads
  <2>6. ASSUME NEW x \in Device, Reap(x) \/ ReapFails(x)
        PROVE  \A e \in Device \ {d} : ~Live(rows[e][p]) /\ ~Live(files[e].rows[p])
    <3>1. PICK gone : Forgets(x, gone)
      BY <2>0, <2>6, ReapForgets
    <3>2. /\ rows'[x][p] = IF p \in gone THEN NoRow ELSE rows[x][p]
          /\ \A e \in Device \ {x} : rows'[e] = rows[e]
      BY <2>0, <3>1 DEF Forgets, Forget, Typed
    <3>3. x = d /\ p \in gone
      BY <1>1, <3>2
    <3>4. HeardFrom(x) # {} /\ p \in Reapable(x)
      BY <3>1, <3>3 DEF Forgets
    <3>5. Settled(p)
      BY <2>0, <3>4, ReapsSettled DEF PaperOK, Tracked
    <3> QED BY <3>5 DEF Settled
  <2>7. ASSUME NEW x \in Device,
               \/ ListOrphans(x) \/ ListingFails(x) \/ StopApp(x)
               \/ \E h \in Value : DropBlob(x, h) \/ DropFails(x, h)
        PROVE  FALSE
    BY <2>0, <2>2, <2>7, MovesBehindImports
  <2>8. CASE rows' = rows
    BY <2>2, <2>8
  <2> QED BY <1>1, <2>3, <2>4, <2>5, <2>6, <2>7, <2>8 DEF Next, TickStep, Fails, Export,
        ListPdfs, TransferPdf, EndTick, Pass, vars
<1>2. Inv /\ [Next]_vars =>
        [\A d \in Device, p \in Paper :
            rows[d][p] # NoRow /\ rows'[d][p] = NoRow =>
               \A e \in Device \ {d} : ~Live(rows[e][p]) /\ ~Live(files[e].rows[p])]_vars
  BY <1>1
<1> QED BY <1>2, InvHolds, PTL DEF Spec, ReapedWasSeen

\* Where a tombstone lives three ticks or more, no shared PDF outlives everything that would
\* ever remove it, though the orphans are listed, reaped and dropped in steps of their own
\* and papers come and go in between: a live paper has it, or a tombstone its author will
\* reap names it, or a tick is removing it.  What a failed listing or drop, or a stop
\* before the drop, left behind is the exception.
THEOREM BlobsAccountedFor == ASSUME LongLived PROVE Spec => []NoBlobForgotten
<1>1. Inv => NoBlobForgotten
  BY DEF Inv, BlobsKept, NoBlobForgotten, Kept, Keeps
<1> QED BY <1>1, InvHolds, PTL

=============================================================================
