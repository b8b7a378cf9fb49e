--------------------------- MODULE LwwRow_proofs ---------------------------
(***************************************************************************)
(* Lemmas about the operators of LwwRow: what stamping, publishing and     *)
(* merging a row do to its clock.  The proofs about tables merged by the   *)
(* row and by the column rest on them.                                     *)
(***************************************************************************)
EXTENDS LwwRow, TLAPS

\* The clamp yields a time past the row's, whatever the wall clock reads.
LEMMA ClampAdvances ==
    ASSUME NEW now \in Nat, NEW ua \in Nat
    PROVE  Clamp(now, ua) \in Nat /\ Clamp(now, ua) > ua
BY DEF Clamp

\* A stamped row is a row, newer than it was, under the stamping device's name; its
\* payload is as it was.
LEMMA StampRowAdvances ==
    ASSUME NEW r \in Row, NEW now \in Nat, NEW d \in Device, NEW dead \in BOOLEAN
    PROVE  /\ StampRow(r, now, d, dead) \in Row
           /\ StampRow(r, now, d, dead).ub = d
           /\ StampRow(r, now, d, dead).ua > r.ua
           /\ StampRow(r, now, d, dead).deleted = dead
           /\ StampRow(r, now, d, dead).val = r.val
BY ClampAdvances DEF StampRow, Row

\* Adding a membership yields a row of the device, newer than the one it revives.
LEMMA UpsertJunctionAdvances ==
    ASSUME NEW r \in MaybeRow, NEW now \in Nat, NEW d \in Device
    PROVE  /\ UpsertJunction(r, now, d) \in Row
           /\ UpsertJunction(r, now, d).ub = d
           /\ r # NoRow => UpsertJunction(r, now, d).ua > r.ua
<1>1. CASE r = NoRow
  BY <1>1 DEF UpsertJunction, Row, Content
<1>2. CASE r \in Row
  BY <1>2, NoRowAssumption, StampRowAdvances DEF UpsertJunction
<1> QED BY <1>1, <1>2 DEF MaybeRow

\* Publishing keeps the clock and the flag, and is done once.
LEMMA PublishedKeepsClock ==
    ASSUME NEW r \in MaybeRow
    PROVE  /\ Published(r) \in MaybeRow
           /\ Published(r) = NoRow <=> r = NoRow
           /\ Published(Published(r)) = Published(r)
           /\ r # NoRow => /\ SameClock(Published(r), r)
                           /\ Published(r).deleted = r.deleted
                           /\ Published(r).deleted => Published(r).val = NoValue
<1>1. CASE r = NoRow
  BY <1>1 DEF Published, MaybeRow
<1>2. CASE r \in Row
  <2>1. r # NoRow
    BY <1>2, NoRowAssumption
  <2>2. Published(r) \in Row
    BY <1>2 DEF Published, Row, Content
  <2>3. SameClock(Published(r), r) /\ Published(r).deleted = r.deleted
    BY <1>2, <2>1 DEF Published, Row, SameClock
  <2>4. Published(r).deleted => Published(r).val = NoValue
    BY <1>2, <2>1 DEF Published, Row
  <2>5. Published(r) # NoRow
    BY <2>2, NoRowAssumption
  <2>6. Published(Published(r)) = Published(r)
    BY <1>2, <2>1, <2>5 DEF Published, Row
  <2> QED BY <2>1, <2>2, <2>3, <2>4, <2>5, <2>6 DEF MaybeRow
<1> QED BY <1>1, <1>2 DEF MaybeRow

\* A merge keeps one of the two copies, and never the older one.
LEMMA MergeRowAdvances ==
    ASSUME NEW local \in MaybeRow, NEW incoming \in Row
    PROVE  /\ MergeRow(local, incoming) \in {local, incoming} \ {NoRow}
           /\ local # NoRow /\ MergeRow(local, incoming) # local =>
                  Newer(MergeRow(local, incoming), local)
BY NoRowAssumption DEF MergeRow

\* Of two clocks one is newer or they are the same, and newer is transitive.
LEMMA NewerOrders ==
    ASSUME NEW a \in Row, NEW b \in Row, NEW c \in Row
    PROVE  /\ Newer(a, b) \/ Newer(b, a) \/ SameClock(a, b)
           /\ ~(Newer(a, b) /\ Newer(b, a)) /\ ~(Newer(a, b) /\ SameClock(a, b))
           /\ Newer(a, b) /\ Newer(b, c) => Newer(a, c)
           /\ SameClock(a, b) => (Newer(a, c) <=> Newer(b, c))
           /\ SameClock(a, b) => (Newer(c, a) <=> Newer(c, b))
<1>1. Device \union {Nobody} \subseteq Nat
  BY DeviceAssumption DEF Nobody
<1>2. \A r \in Row : r.ua \in Nat /\ r.ub \in Nat
  BY <1>1 DEF Row
<1> QED BY <1>2 DEF Newer, SameClock

\* Two copies merged in either order leave the same row, unless they tie.
LEMMA MergeRowCommutes ==
    ASSUME NEW local \in MaybeRow, NEW a \in Row, NEW b \in Row,
           MergeRow(MergeRow(local, a), b) # MergeRow(MergeRow(local, b), a)
    PROVE  /\ SameClock(a, b)
           /\ MergeRow(MergeRow(local, a), b) = a
           /\ MergeRow(MergeRow(local, b), a) = b
<1>1. CASE local = NoRow
  BY <1>1, NoRowAssumption, NewerOrders DEF MergeRow
<1>2. CASE local \in Row
  BY <1>2, NoRowAssumption, NewerOrders DEF MergeRow
<1> QED BY <1>1, <1>2 DEF MaybeRow

=============================================================================
