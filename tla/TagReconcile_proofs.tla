------------------------ MODULE TagReconcile_proofs ------------------------
(***************************************************************************)
(* Theorems about TagReconcile, for any devices, tags, names, operations   *)
(* and bounds: types, that a name is one tag's on a device, that the       *)
(* repair makes room for the row that lands, and what becomes of           *)
(* memberships.                                                            *)
(***************************************************************************)
EXTENDS TagReconcile, LwwRow_proofs, FiniteSetTheorems, WellFoundedInduction

----------------------------------------------------------------------------
(* What is true of every state.                                            *)

\* A made-up name is found on the tag it was made up for only.
OwnName(t, r) == r # NoRow /\ r.val \in RetiredNames => r.val = RetiredName(t)

\* No two tags of a device have one name, dead or alive.
TagsOK ==
    /\ tags \in [Device -> TagTable]
    /\ \A d \in Device, t \in Tag : OwnName(t, tags[d][t])
    /\ \A d \in Device, t, u \in Tag :
           tags[d][t] # NoRow /\ tags[d][u] # NoRow /\ tags[d][t].val = tags[d][u].val => t = u

CopiesOK ==
    /\ copies \in [Device -> SUBSET Copy]
    /\ \A d \in Device : \A c \in copies[d] : \A t \in Tag : OwnName(t, c.tags[t])

Repairs == {"repoint", "tombstone", "retire"}

\* What a merge has in hand, when tg and mb are the tags and members of its device:
\* a row whose name no other tag has but those that still have to give it up.
MergeFine(m, tg, mb) ==
    LET t == Min(m.todo) IN
    /\ m.todo \subseteq {u \in Tag : m.file.tags[u] # NoRow}
    /\ \A u \in Tag : OwnName(u, m.file.tags[u])
    /\ m.pc \in Repairs \union {"find", "land"} => m.todo # {}
    /\ m.losers \subseteq {u \in Tag : tg[u] # NoRow}
    /\ m.pc \in Repairs <=> m.losers # {}
    /\ m.pc \in Repairs \union {"land"} =>
           /\ m.row \in TagRow /\ OwnName(t, m.row) /\ t \notin m.losers
           /\ ~m.raced /\ ~m.row.deleted =>
                  \A u \in Tag \ {t} : tg[u] # NoRow /\ tg[u].val = m.row.val => u \in m.losers
    /\ m.pc = "tombstone" /\ ~m.raced /\ Live(mb[Min(m.losers)]) => Live(mb[t])

MergesOK ==
    /\ merge \in [Device -> MergeState]
    /\ \A d \in Device : MergeFine(merge[d], tags[d], members[d])

CountsOK == used \subseteq Ops /\ writes \in 0 .. MaxWrites

Inv == TagsOK /\ members \in [Device -> MemberTable] /\ CopiesOK /\ MergesOK /\ CountsOK
----------------------------------------------------------------------------
(* Rows of tags, and the least of a set of them.                           *)

LEMMA RetiredNamesDiffer == \A t, u \in Tag : RetiredName(t) = RetiredName(u) => t = u
BY DEF RetiredName

LEMMA OwnRetired ==
    ASSUME NEW t \in Tag, NEW r, r # NoRow => r.val \in Content \/ r.val = RetiredName(t)
    PROVE  OwnName(t, r)
BY NamesAssumption DEF OwnName

\* Stamping keeps the name and leaves a row.
LEMMA StampedTag ==
    ASSUME NEW r \in TagRow, NEW now \in Time, NEW d \in Device, NEW dead \in BOOLEAN
    PROVE  /\ StampRow(r, now, d, dead) \in TagRow
           /\ StampRow(r, now, d, dead).val = r.val
<1>1. now \in Nat /\ r.ua \in Nat
  BY DEF Time, TagRow
<1>2. Clamp(now, r.ua) \in Nat
  BY <1>1, ClampAdvances
<1>3. PICK c \in Nat : c = Clamp(now, r.ua)
  BY <1>2
<1> QED BY <1>3 DEF StampRow, TagRow

LEMMA NewTagRow ==
    ASSUME NEW n \in Value, NEW now \in Time, NEW d \in Device
    PROVE  /\ StampRow(Unstamped(n), now, d, FALSE) \in TagRow
           /\ StampRow(Unstamped(n), now, d, FALSE).val = n
<1>1. Unstamped(n) \in TagRow /\ Unstamped(n).val = n
  BY DEF Unstamped, TagRow, Content
<1> QED BY <1>1, StampedTag

\* The least of some tags is one of them.
LEMMA MinOf ==
    ASSUME NEW S, S \subseteq Tag, S # {}
    PROVE  Min(S) \in S
<1> DEFINE Less == OpToRel(<, Nat)
<1>1. IsWellFoundedOn(Less, Nat) /\ S \subseteq Nat
  BY NatLessThanWellFounded, TagAssumption
<1> HIDE DEF Less
<1>2. PICK m \in S : \A y \in S : ~(<<y, m>> \in Less)
  BY <1>1, WFMin
<1>3. \A y \in S : ~(y < m)
  BY <1>1, <1>2 DEF OpToRel, Less
<1>4. \A y \in S : m <= y
  BY <1>1, <1>3
<1> QED BY <1>4 DEF Min

\* Of the devices, which are some and finitely many, one is the least and one the last.
LEMMA EndsOfDevice == Min(Device) \in Device /\ Max(Device) \in Device
<1> DEFINE Less == OpToRel(<, Nat)
           Above(d) == {e \in Device : e > d}
           T == {Cardinality(Above(d)) : d \in Device}
<1>0. Device \subseteq Nat /\ IsFiniteSet(Device) /\ Device # {}
  BY DeviceAssumption, DevicesAssumption
<1>i. \A d, e \in Device : d \in Int /\ (~(e < d) => d <= e) /\ (~(e > d) => d >= e) /\ ~(d > d)
                           /\ \A f \in Device : f > e /\ e > d => f > d
  BY <1>0
<1>1. IsWellFoundedOn(Less, Nat)
  BY NatLessThanWellFounded
<1>2. \A d \in Device : IsFiniteSet(Above(d)) /\ Cardinality(Above(d)) \in Nat
  BY <1>0, FS_Subset, FS_CardinalityType
<1> HIDE DEF Less
<1>3. Min(Device) \in Device
  <2>1. PICK m \in Device : \A y \in Device : ~(<<y, m>> \in Less)
    BY <1>0, <1>1, WFMin
  <2>2. \A y \in Device : ~(y < m)
    BY <1>0, <2>1 DEF OpToRel, Less
  <2>3. \A y \in Device : m <= y
    BY <1>i, <2>2
  <2> QED BY <2>3 DEF Min
<1>4. Max(Device) \in Device
  <2>1. T \subseteq Nat /\ T # {}
    BY <1>0, <1>2
  <2> HIDE DEF T
  <2>2. PICK n \in T : \A y \in T : ~(<<y, n>> \in Less)
    BY <1>1, <2>1, WFMin
  <2>3. \A y \in T : ~(y < n)
    BY <2>1, <2>2 DEF OpToRel, Less
  <2>4. PICK m \in Device : n = Cardinality(Above(m))
    BY <2>2 DEF T
  <2>5. ASSUME NEW e \in Device, e > m PROVE FALSE
    <3>1. Above(e) \in SUBSET Above(m) /\ e \in Above(m) /\ e \notin Above(e)
      BY <1>i, <2>5
    <3>2. Above(e) # Above(m)
      BY <3>1
    <3>3. Cardinality(Above(e)) \in T
      BY DEF T
    <3> HIDE DEF Above
    <3>4. /\ Cardinality(Above(e)) <= Cardinality(Above(m))
          /\ Cardinality(Above(e)) # Cardinality(Above(m))
      BY <1>2, <3>1, <3>2, FS_Subset
    <3> QED BY <1>2, <2>3, <2>4, <3>3, <3>4
  <2>6. \A e \in Device : m >= e
    BY <1>i, <2>5
  <2> QED BY <2>6 DEF Max
<1> QED BY <1>3, <1>4
----------------------------------------------------------------------------
(* The initial states, and what steps leave alone.                         *)

LEMMA IdleFine ==
    /\ Idle \in MergeState
    /\ \A tg, mb : MergeFine(Idle, tg, mb)
<1>1. 1 \in Time
  BY BoundAssumption DEF Time
<1>2. NoTags \in TagTable /\ NoTags \in MemberTable /\ \A t \in Tag : NoTags[t] = NoRow
  BY DEF NoTags, TagTable, MemberTable, MaybeRow
<1>3. Idle \in MergeState
  BY <1>1, <1>2 DEF Idle, MergeState, Copy
<1>4. /\ Idle.pc = "idle" /\ Idle.todo = {} /\ Idle.losers = {}
      /\ \A t \in Tag : Idle.file.tags[t] = NoRow
  BY <1>2 DEF Idle
<1> QED BY <1>3, <1>4 DEF MergeFine, Repairs, OwnName

LEMMA InvInit == Init => Inv
<1> SUFFICES ASSUME Init PROVE Inv
  OBVIOUS
<1>1. PICK name \in [Before -> Value], member \in [Before -> Memberships] :
          /\ \A t, u \in Before : name[t] = name[u] => t = u
          /\ tags = [d \in Device |-> [t \in Tag |->
                IF t \in Before THEN StampRow(Unstamped(name[t]), 1, Min(Device), FALSE)
                ELSE NoRow]]
          /\ members = [d \in Device |-> [t \in Tag |->
                IF t \in Before THEN member[t] ELSE NoRow]]
  BY DEF Init
<1>2. 1 \in Time /\ Before \subseteq Tag /\ MaxWrites \in Nat
  BY BoundAssumption, TagAssumption DEF Time
<1>3. \A d \in Device, t \in Tag :
          IF t \in Before THEN tags[d][t] \in TagRow /\ tags[d][t].val = name[t]
          ELSE tags[d][t] = NoRow
  BY <1>1, <1>2, EndsOfDevice, NewTagRow
<1>4. TagsOK
  <2>1. tags \in [Device -> TagTable]
    <3>1. \A d \in Device : tags[d] = [t \in Tag |-> tags[d][t]]
      BY <1>1
    <3>2. \A d \in Device : tags[d] \in TagTable
      BY <1>3, <3>1 DEF TagTable
    <3> QED BY <1>1, <3>2
  <2>2. \A d \in Device, t \in Tag : OwnName(t, tags[d][t])
    <3> SUFFICES ASSUME NEW d \in Device, NEW t \in Tag PROVE OwnName(t, tags[d][t])
      OBVIOUS
    <3>1. t \in Before => tags[d][t].val \in Value
      BY <1>3
    <3> QED BY <1>3, <3>1, OwnRetired DEF Content
  <2>3. ASSUME NEW d \in Device, NEW t \in Tag, NEW u \in Tag, tags[d][t] # NoRow,
               tags[d][u] # NoRow, tags[d][t].val = tags[d][u].val
        PROVE  t = u
    <3>1. t \in Before /\ u \in Before /\ name[t] = name[u]
      BY <1>3, <2>3
    <3>2. \A v, w \in Before : name[v] = name[w] => v = w
      BY <1>1
    <3> QED BY <3>1, <3>2
  <2> QED BY <2>1, <2>2, <2>3 DEF TagsOK
<1>5. members \in [Device -> MemberTable]
  <2>1. Max(Device) \in Device /\ 1 \in Nat
    BY EndsOfDevice
  <2>2. NoRow \in MaybeRow /\ UpsertJunction(NoRow, 1, Max(Device)) \in Row
    BY <2>1, UpsertJunctionAdvances DEF MaybeRow
  <2>3. PICK r \in Row : r = UpsertJunction(NoRow, 1, Max(Device))
    BY <2>2
  <2>4. StampRow(r, 1, Max(Device), TRUE) \in Row
    BY <2>1, StampRowAdvances
  <2>5. Memberships \subseteq MaybeRow
    BY <2>2, <2>3, <2>4 DEF Memberships, MaybeRow
  <2>6. \A t \in Before : member[t] \in MaybeRow
    BY <2>5
  <2> HIDE DEF Memberships
  <2> QED BY <1>1, <2>2, <2>6 DEF MemberTable
<1>6. CopiesOK
  BY DEF Init, CopiesOK
<1>7. MergesOK
  <2>1. merge = [d \in Device |-> Idle]
    BY DEF Init
  <2> HIDE DEF Idle
  <2> QED BY <2>1, IdleFine DEF MergesOK
<1>8. CountsOK
  BY <1>2 DEF Init, CountsOK
<1> QED BY <1>4, <1>5, <1>6, <1>7, <1>8 DEF Inv

\* No tag of d but t has the name n.
FreeFor(d, t, n) == \A u \in Tag : tags[d][u] # NoRow /\ tags[d][u].val = n => u = t

\* A tag gets a name no other tag of the device has.
LEMMA TagSet ==
    ASSUME TagsOK, NEW d \in Device, NEW t \in Tag, NEW r \in TagRow, OwnName(t, r),
           FreeFor(d, t, r.val), tags' = [tags EXCEPT ![d][t] = r]
    PROVE  /\ TagsOK'
           /\ \A e \in Device, u \in Tag :
                 tags'[e][u] = IF e = d /\ u = t THEN r ELSE tags[e][u]
           /\ \A e \in Device : e # d => tags'[e] = tags[e]
           /\ \A u \in Tag : tags[d][u] # NoRow => tags'[d][u] # NoRow
<1>1. /\ tags \in [Device -> TagTable] /\ \A e \in Device : tags[e] \in [Tag -> TagRow \union {NoRow}]
      /\ tags[d] \in [Tag -> TagRow \union {NoRow}]
  BY DEF TagsOK, TagTable
<1>2. PICK row : row = [tags[d] EXCEPT ![t] = r]
  OBVIOUS
<1>3. row \in TagTable /\ \A u \in Tag : row[u] = IF u = t THEN r ELSE tags[d][u]
  BY <1>1, <1>2 DEF TagTable
<1>4. tags' = [tags EXCEPT ![d] = row]
  BY <1>2
<1>5. tags' \in [Device -> TagTable]
  BY <1>1, <1>3, <1>4
<1>6. /\ \A e \in Device, u \in Tag : tags'[e][u] = IF e = d /\ u = t THEN r ELSE tags[e][u]
      /\ \A e \in Device : e # d => tags'[e] = tags[e]
  BY <1>1, <1>3, <1>4
<1>7. ASSUME NEW e \in Device, NEW u \in Tag PROVE OwnName(u, tags[e][u])'
  BY <1>6 DEF TagsOK, OwnName
<1>8. ASSUME NEW e \in Device, NEW u \in Tag, NEW v \in Tag, tags'[e][u] # NoRow,
             tags'[e][v] # NoRow, tags'[e][u].val = tags'[e][v].val
      PROVE  u = v
  BY <1>6, <1>8 DEF TagsOK, FreeFor
<1>9. \A u \in Tag : tags[d][u] # NoRow => tags'[d][u] # NoRow
  BY <1>6, NamesAssumption
<1> QED BY <1>5, <1>6, <1>7, <1>8, <1>9 DEF TagsOK

\* A step of d's leaves the merges of other devices alone.
LEMMA OneMerge ==
    ASSUME MergesOK, NEW d \in Device, NEW m \in MergeState, merge' = [merge EXCEPT ![d] = m],
           MergeFine(m, tags'[d], members'[d]),
           \A e \in Device : e # d => tags'[e] = tags[e] /\ members'[e] = members[e]
    PROVE  MergesOK'
<1>1. merge' \in [Device -> MergeState] /\ merge'[d] = m
      /\ \A e \in Device : e # d => merge'[e] = merge[e]
  BY DEF MergesOK
<1>2. ASSUME NEW e \in Device PROVE MergeFine(merge'[e], tags'[e], members'[e])
  BY <1>1 DEF MergesOK
<1> QED BY <1>1, <1>2 DEF MergesOK

\* A merge the user races has less to keep, as long as no tag disappears.
LEMMA RacedFine ==
    ASSUME NEW m \in MergeState, NEW tg, NEW mb, MergeFine(m, tg, mb), NEW tg1, NEW mb1,
           \A u \in Tag : tg[u] # NoRow => tg1[u] # NoRow
    PROVE  /\ [m EXCEPT !.raced = m.pc # "idle"] \in MergeState
           /\ MergeFine([m EXCEPT !.raced = m.pc # "idle"], tg1, mb1)
<1>1. PICK n : n = [m EXCEPT !.raced = m.pc # "idle"]
  OBVIOUS
<1>2. /\ n \in MergeState /\ n.pc = m.pc /\ n.todo = m.todo /\ n.file = m.file
      /\ n.losers = m.losers /\ n.row = m.row /\ (n.pc # "idle" => n.raced)
  BY <1>1 DEF MergeState
<1>3. MergeFine(n, tg1, mb1)
  BY <1>2 DEF MergeFine, Repairs
<1> QED BY <1>1, <1>2, <1>3

LEMMA SameTags ==
    ASSUME TagsOK, tags' = tags
    PROVE  TagsOK'
BY DEF TagsOK, OwnName

LEMMA SameCopies ==
    ASSUME CopiesOK, copies' = copies
    PROVE  CopiesOK'
BY DEF CopiesOK, OwnName

\* One membership of d's changes.
LEMMA MemberSet ==
    ASSUME members \in [Device -> MemberTable], NEW d \in Device, NEW t \in Tag, NEW r \in MaybeRow,
           members' = [members EXCEPT ![d][t] = r]
    PROVE  /\ members' \in [Device -> MemberTable]
           /\ \A e \in Device, u \in Tag :
                 members'[e][u] = IF e = d /\ u = t THEN r ELSE members[e][u]
           /\ \A e \in Device : e # d => members'[e] = members[e]
<1>1. members[d] \in [Tag -> MaybeRow]
  BY DEF MemberTable
<1>2. PICK row : row = [members[d] EXCEPT ![t] = r]
  OBVIOUS
<1>3. row \in MemberTable /\ \A u \in Tag : row[u] = IF u = t THEN r ELSE members[d][u]
  BY <1>1, <1>2 DEF MemberTable
<1>4. members' = [members EXCEPT ![d] = row]
  BY <1>2
<1> QED BY <1>3, <1>4
----------------------------------------------------------------------------
(* What users do.                                                          *)

LEMMA WriteKeeps ==
    ASSUME Inv, NEW d \in Device, NEW op, Write(d, op), TagsOK',
           members' \in [Device -> MemberTable],
           \A u \in Tag : tags[d][u] # NoRow => tags'[d][u] # NoRow,
           \A e \in Device : e # d => tags'[e] = tags[e] /\ members'[e] = members[e]
    PROVE  Inv'
<1>1. CountsOK'
  <2>1. writes' \in 0 .. MaxWrites
    BY BoundAssumption DEF Inv, CountsOK, Write
  <2>2. used' \subseteq Ops
    BY DEF Inv, CountsOK, Write
  <2> QED BY <2>1, <2>2 DEF CountsOK
<1>2. CopiesOK'
  BY SameCopies DEF Inv, Write
<1>3. MergesOK'
  <2>1. MergesOK /\ merge[d] \in MergeState /\ MergeFine(merge[d], tags[d], members[d])
    BY DEF Inv, MergesOK
  <2>2. PICK m : m = [merge[d] EXCEPT !.raced = merge[d].pc # "idle"]
    OBVIOUS
  <2>3. m \in MergeState /\ MergeFine(m, tags'[d], members'[d])
    BY <2>1, <2>2, RacedFine
  <2>4. merge' = [merge EXCEPT ![d] = m]
    BY <2>2 DEF Write
  <2> QED BY <2>1, <2>3, <2>4, OneMerge
<1> QED BY <1>1, <1>2, <1>3 DEF Inv

LEMMA CreateTagKeeps ==
    ASSUME Inv, NEW d \in Device, NEW t \in Tag, NEW n \in Value, NEW now \in Time,
           CreateTag(d, t, n, now)
    PROVE  Inv'
<1>1. PICK r : r = StampRow(Unstamped(n), now, d, FALSE)
  OBVIOUS
<1>2. r \in TagRow /\ r.val = n
  BY <1>1, NewTagRow
<1>3. OwnName(t, r)
  BY <1>2, OwnRetired DEF Content
<1>4. tags' = [tags EXCEPT ![d][t] = r] /\ Named(d, n) = {} /\ members' = members /\ Write(d, "create")
  BY <1>1 DEF CreateTag, SetTag
<1>5. FreeFor(d, t, r.val)
  BY <1>2, <1>4 DEF Named, FreeFor
<1>6. /\ TagsOK' /\ \A e \in Device : e # d => tags'[e] = tags[e]
      /\ \A u \in Tag : tags[d][u] # NoRow => tags'[d][u] # NoRow
  BY <1>2, <1>3, <1>4, <1>5, TagSet DEF Inv
<1> QED BY <1>4, <1>6, WriteKeeps DEF Inv

\* A tag keeps its name under a new stamp.
LEMMA Restamped ==
    ASSUME TagsOK, NEW d \in Device, NEW t \in Tag, tags[d][t] # NoRow, NEW now \in Time,
           NEW dead \in BOOLEAN,
           tags' = [tags EXCEPT ![d][t] = StampRow(tags[d][t], now, d, dead)]
    PROVE  /\ TagsOK' /\ \A e \in Device : e # d => tags'[e] = tags[e]
           /\ \A u \in Tag : tags[d][u] # NoRow => tags'[d][u] # NoRow
<1>1. tags[d][t] \in TagRow
  BY DEF TagsOK, TagTable
<1>2. PICK r : r = StampRow(tags[d][t], now, d, dead)
  OBVIOUS
<1>3. r \in TagRow /\ r.val = tags[d][t].val
  BY <1>1, <1>2, StampedTag
<1>4. OwnName(t, r) /\ FreeFor(d, t, r.val)
  BY <1>3 DEF TagsOK, OwnName, FreeFor
<1>5. tags' = [tags EXCEPT ![d][t] = r]
  BY <1>2
<1> QED BY <1>3, <1>4, <1>5, TagSet

LEMMA ReviveTagKeeps ==
    ASSUME Inv, NEW d \in Device, NEW t \in Tag, NEW n \in Value, NEW now \in Time,
           ReviveTag(d, t, n, now)
    PROVE  Inv'
<1>1. /\ tags[d][t] # NoRow /\ members' = members /\ Write(d, "create")
      /\ tags' = [tags EXCEPT ![d][t] = StampRow(tags[d][t], now, d, FALSE)]
  BY DEF ReviveTag, SetTag, Named
<1>2. /\ TagsOK' /\ \A e \in Device : e # d => tags'[e] = tags[e]
      /\ \A u \in Tag : tags[d][u] # NoRow => tags'[d][u] # NoRow
  BY <1>1, Restamped DEF Inv
<1> QED BY <1>1, <1>2, WriteKeeps DEF Inv

LEMMA RenameTagKeeps ==
    ASSUME Inv, NEW d \in Device, NEW t \in Tag, NEW n \in Value, NEW now \in Time,
           RenameTag(d, t, n, now)
    PROVE  Inv'
<1>1. tags[d][t] # NoRow /\ Named(d, n) = {} /\ members' = members /\ Write(d, "rename")
  BY DEF RenameTag, Live
<1>2. PICK q : q = [tags[d][t] EXCEPT !.val = n]
  OBVIOUS
<1>3. q \in TagRow /\ q.val = n
  <2>1. tags[d][t] \in TagRow
    BY <1>1 DEF Inv, TagsOK, TagTable
  <2> QED BY <1>2, <2>1 DEF TagRow, Content
<1>4. PICK r : r = StampRow(q, now, d, FALSE)
  OBVIOUS
<1>5. r \in TagRow /\ r.val = n
  BY <1>3, <1>4, StampedTag
<1>6. tags' = [tags EXCEPT ![d][t] = r]
  BY <1>2, <1>4 DEF RenameTag, SetTag
<1>7. OwnName(t, r) /\ FreeFor(d, t, r.val)
  BY <1>1, <1>5, OwnRetired DEF Content, Named, FreeFor
<1>8. /\ TagsOK' /\ \A e \in Device : e # d => tags'[e] = tags[e]
      /\ \A u \in Tag : tags[d][u] # NoRow => tags'[d][u] # NoRow
  BY <1>5, <1>6, <1>7, TagSet DEF Inv
<1> QED BY <1>1, <1>8, WriteKeeps DEF Inv

\* A membership under a stamp is a row, newer than it was.
LEMMA StampedMember ==
    ASSUME NEW r \in MaybeRow, NEW now \in Time, NEW d \in Device, NEW dead \in BOOLEAN
    PROVE  /\ UpsertJunction(r, now, d) \in Row /\ Live(UpsertJunction(r, now, d))
           /\ r # NoRow => /\ StampRow(r, now, d, dead) \in Row
                           /\ Newer(StampRow(r, now, d, dead), r)
                           /\ Newer(UpsertJunction(r, now, d), r)
<1>1. now \in Nat
  BY DEF Time
<1>2. UpsertJunction(r, now, d) \in Row /\ (r # NoRow => UpsertJunction(r, now, d).ua > r.ua)
  BY <1>1, UpsertJunctionAdvances
<1>3. r # NoRow => StampRow(r, now, d, dead) \in Row /\ StampRow(r, now, d, dead).ua > r.ua
  BY <1>1, StampRowAdvances DEF MaybeRow
<1>4. ~UpsertJunction(r, now, d).deleted
  <2>1. CASE r = NoRow
    BY <2>1 DEF UpsertJunction
  <2>2. CASE r # NoRow
    BY <1>1, <2>2, StampRowAdvances DEF UpsertJunction, MaybeRow
  <2> QED BY <2>1, <2>2
<1>5. UpsertJunction(r, now, d) # NoRow
  BY <1>2, NoRowAssumption
<1> QED BY <1>2, <1>3, <1>4, <1>5 DEF Newer, Live

LEMMA DeleteTagKeeps ==
    ASSUME Inv, NEW d \in Device, NEW t \in Tag, NEW now \in Time, DeleteTag(d, t, now)
    PROVE  Inv'
<1>1. /\ tags[d][t] # NoRow /\ Write(d, "delete")
      /\ tags' = [tags EXCEPT ![d][t] = StampRow(tags[d][t], now, d, TRUE)]
  BY DEF DeleteTag, SetTag, Live
<1>2. /\ TagsOK' /\ \A e \in Device : e # d => tags'[e] = tags[e]
      /\ \A u \in Tag : tags[d][u] # NoRow => tags'[d][u] # NoRow
  BY <1>1, Restamped DEF Inv
<1>3. PICK r : r = IF members[d][t] = NoRow THEN NoRow ELSE StampRow(members[d][t], now, d, TRUE)
  OBVIOUS
<1>4. r \in MaybeRow /\ members \in [Device -> MemberTable]
  <2>1. members[d][t] \in MaybeRow
    BY DEF Inv, MemberTable
  <2> QED BY <1>3, <2>1, StampedMember DEF MaybeRow, Inv
<1>5. members' = [members EXCEPT ![d][t] = r]
  BY <1>3 DEF DeleteTag, SetMember
<1>6. /\ members' \in [Device -> MemberTable]
      /\ \A e \in Device : e # d => members'[e] = members[e]
  BY <1>4, <1>5, MemberSet
<1> QED BY <1>1, <1>2, <1>6, WriteKeeps

LEMMA TagPaperKeeps ==
    ASSUME Inv, NEW d \in Device, NEW t \in Tag, NEW now \in Time,
           AddTagToPaper(d, t, now) \/ RemoveTagFromPaper(d, t, now)
    PROVE  Inv'
<1>1. members[d][t] \in MaybeRow /\ members \in [Device -> MemberTable]
  BY DEF Inv, MemberTable
<1>2. /\ tags' = tags /\ \E op : Write(d, op)
      /\ \E r \in MaybeRow : members' = [members EXCEPT ![d][t] = r]
  <2>1. CASE AddTagToPaper(d, t, now)
    BY <1>1, <2>1, StampedMember DEF AddTagToPaper, SetMember, MaybeRow
  <2>2. CASE RemoveTagFromPaper(d, t, now)
    BY <1>1, <2>2, StampedMember DEF RemoveTagFromPaper, SetMember, MaybeRow, Live
  <2> QED BY <2>1, <2>2
<1>3. TagsOK'
  BY <1>2, SameTags DEF Inv
<1>4. /\ members' \in [Device -> MemberTable]
      /\ \A e \in Device : e # d => members'[e] = members[e]
  BY <1>1, <1>2, MemberSet
<1> QED BY <1>2, <1>3, <1>4, WriteKeeps
----------------------------------------------------------------------------
(* Files.                                                                  *)

LEMMA PublishedTag ==
    ASSUME NEW t \in Tag, NEW r \in TagRow \union {NoRow}, OwnName(t, r)
    PROVE  Published(r) \in TagRow \union {NoRow} /\ OwnName(t, Published(r))
<1>1. CASE r = NoRow \/ ~r.deleted
  BY <1>1 DEF Published
<1>2. CASE r # NoRow /\ r.deleted
  <2>1. PICK q : q = [r EXCEPT !.val = NoValue]
    OBVIOUS
  <2>2. q \in TagRow /\ q.val = NoValue
    BY <1>2, <2>1 DEF TagRow, Content
  <2>3. OwnName(t, q)
    BY <2>2, OwnRetired DEF Content
  <2> QED BY <1>2, <2>1, <2>2, <2>3 DEF Published
<1> QED BY <1>1, <1>2

LEMMA PublishTablesKeeps ==
    ASSUME Inv, NEW d \in Device, PublishTables(d)
    PROVE  Inv'
<1>1. CountsOK' /\ TagsOK' /\ members' \in [Device -> MemberTable] /\ MergesOK'
  BY SameTags DEF PublishTables, Inv, CountsOK, MergesOK
<1>2. PICK c : c = CurrentCopy(d)
  OBVIOUS
<1>3. c \in Copy /\ \A t \in Tag : OwnName(t, c.tags[t])
  <2>1. ASSUME NEW t \in Tag
        PROVE  /\ Published(tags[d][t]) \in TagRow \union {NoRow}
               /\ OwnName(t, Published(tags[d][t]))
    <3>1. tags[d][t] \in TagRow \union {NoRow} /\ OwnName(t, tags[d][t])
      BY DEF Inv, TagsOK, TagTable
    <3> QED BY <3>1, PublishedTag
  <2>2. ASSUME NEW t \in Tag PROVE Published(members[d][t]) \in MaybeRow
    <3>1. members[d][t] \in MaybeRow
      BY DEF Inv, MemberTable
    <3> QED BY <3>1, PublishedKeepsClock
  <2>3. /\ c = [tags |-> c.tags, members |-> c.members]
        /\ c.tags = [t \in Tag |-> Published(tags[d][t])]
        /\ c.members = [t \in Tag |-> Published(members[d][t])]
    BY <1>2 DEF CurrentCopy
  <2>4. c.tags \in TagTable /\ c.members \in MemberTable
    BY <2>1, <2>2, <2>3 DEF TagTable, MemberTable
  <2>5. c \in Copy
    BY <2>3, <2>4 DEF Copy
  <2> QED BY <2>1, <2>3, <2>5
<1>4. PICK kept \in SUBSET copies[d] : copies' = [copies EXCEPT ![d] = kept \union {c}]
  BY <1>2 DEF PublishTables
<1>5. CopiesOK /\ kept \union {c} \in SUBSET Copy
  BY <1>3 DEF Inv, CopiesOK
<1>6. copies' \in [Device -> SUBSET Copy]
  BY <1>4, <1>5 DEF CopiesOK
<1>7. \A e \in Device : \A f \in copies'[e] : f = c \/ f \in copies[e]
  BY <1>4, <1>5 DEF CopiesOK
<1>8. \A e \in Device : \A f \in copies'[e] : \A t \in Tag : OwnName(t, f.tags[t])
  BY <1>3, <1>5, <1>7 DEF CopiesOK
<1>9. CopiesOK'
  BY <1>6, <1>8 DEF CopiesOK, OwnName
<1> QED BY <1>1, <1>9 DEF Inv
----------------------------------------------------------------------------
(* Merges.                                                                 *)

\* Every step of a merge keeps the files and the user's counts.
LEMMA MergeKeeps ==
    ASSUME Inv, NEW d \in Device, NEW m \in MergeState, merge' = [merge EXCEPT ![d] = m],
           MergeFine(m, tags'[d], members'[d]),
           TagsOK', members' \in [Device -> MemberTable],
           \A e \in Device : e # d => tags'[e] = tags[e] /\ members'[e] = members[e],
           UNCHANGED <<copies, used, writes>>
    PROVE  Inv'
<1>1. CountsOK' /\ CopiesOK'
  BY SameCopies DEF Inv, CountsOK
<1>2. MergesOK'
  BY OneMerge DEF Inv
<1> QED BY <1>1, <1>2 DEF Inv

LEMMA BeginMergeKeeps ==
    ASSUME Inv, NEW d \in Device, NEW p \in Device, NEW c \in copies[p], BeginMerge(d, p, c)
    PROVE  Inv'
<1>1. c \in Copy /\ \A t \in Tag : OwnName(t, c.tags[t])
  BY DEF Inv, CopiesOK
<1> DEFINE todo == {t \in Tag : c.tags[t] # NoRow}
<1>2. PICK m : m = [Idle EXCEPT !.pc = IF todo = {} THEN "members" ELSE "find",
                                !.file = c, !.todo = todo]
  OBVIOUS
<1>3. /\ m \in MergeState /\ m.todo = todo /\ m.file = c /\ m.losers = {}
      /\ m.pc = IF todo = {} THEN "members" ELSE "find"
  <2>1. todo \in SUBSET Tag /\ Idle \in MergeState /\ Idle.losers = {}
    BY IdleFine DEF Idle
  <2> HIDE DEF todo, Idle
  <2> QED BY <1>1, <1>2, <2>1 DEF MergeState
<1>4. MergeFine(m, tags[d], members[d])
  BY <1>1, <1>3 DEF MergeFine, Repairs
<1>5. /\ merge' = [merge EXCEPT ![d] = m] /\ TagsOK' /\ members' \in [Device -> MemberTable]
      /\ tags' = tags /\ members' = members /\ UNCHANGED <<copies, used, writes>>
  BY <1>2, SameTags DEF BeginMerge, SetMerge, Inv
<1> QED BY <1>3, <1>4, <1>5, MergeKeeps

\* What a merge that looks at a row has in hand.
LEMMA InHand ==
    ASSUME Inv, NEW d \in Device, merge[d].pc \in Repairs \union {"find", "land"}
    PROVE  /\ merge[d] \in MergeState /\ MergeFine(merge[d], tags[d], members[d])
           /\ Current(d) \in Tag /\ Current(d) \in merge[d].todo
           /\ Incoming(d) \in TagRow /\ OwnName(Current(d), Incoming(d))
           /\ \A t \in Tag : tags[d][t] \in TagRow \union {NoRow} /\ OwnName(t, tags[d][t])
           /\ \A t \in Tag : members[d][t] \in MaybeRow
<1>1. merge[d] \in MergeState /\ MergeFine(merge[d], tags[d], members[d])
  BY DEF Inv, MergesOK
<1>2. merge[d].todo \subseteq Tag /\ merge[d].todo # {}
  BY <1>1 DEF MergeFine
<1>3. Current(d) \in merge[d].todo /\ Current(d) \in Tag
  BY <1>2, MinOf DEF Current
<1>4. merge[d].file.tags[Current(d)] \in TagRow \union {NoRow}
  BY <1>1, <1>3 DEF MergeState, Copy, TagTable
<1>5. merge[d].file.tags[Current(d)] # NoRow /\ OwnName(Current(d), merge[d].file.tags[Current(d)])
  BY <1>1, <1>3 DEF MergeFine
<1>6. \A t \in Tag : tags[d][t] \in TagRow \union {NoRow} /\ OwnName(t, tags[d][t])
  BY DEF Inv, TagsOK, TagTable
<1>7. \A t \in Tag : members[d][t] \in MaybeRow
  BY DEF Inv, MemberTable
<1> QED BY <1>1, <1>3, <1>4, <1>5, <1>6, <1>7 DEF Incoming

LEMMA FindClashKeeps ==
    ASSUME Inv, NEW d \in Device, NEW now \in Time, FindClash(d, now)
    PROVE  Inv'
<1> DEFINE t == Current(d)
           wins == Survivor(d) = Current(d)
           losers == IF wins THEN Clashing(d) ELSE {}
           row == IF wins THEN Incoming(d) ELSE Surrendered(d)
<1>1. merge[d].pc = "find"
  BY DEF FindClash
<1>2. /\ merge[d] \in MergeState /\ MergeFine(merge[d], tags[d], members[d])
      /\ t \in Tag /\ Incoming(d) \in TagRow /\ OwnName(t, Incoming(d))
      /\ \A u \in Tag : tags[d][u] \in TagRow \union {NoRow} /\ OwnName(u, tags[d][u])
  BY <1>1, InHand
<1>3. /\ losers \subseteq {u \in Tag : tags[d][u] # NoRow} /\ t \notin losers
      /\ wins /\ ~Incoming(d).deleted =>
             \A u \in Tag \ {t} : tags[d][u] # NoRow /\ tags[d][u].val = Incoming(d).val => u \in losers
  BY DEF Clashing, Named
<1>4. row \in TagRow /\ OwnName(t, row)
  <2>1. CASE wins
    BY <1>2, <2>1
  <2>2. CASE ~wins
    <3>1. PICK q : q = [Incoming(d) EXCEPT !.val = RetiredName(t)]
      OBVIOUS
    <3>2. q \in TagRow /\ q.val = RetiredName(t)
      BY <1>2, <3>1 DEF TagRow, RetiredNames
    <3> QED BY <2>2, <3>1, <3>2 DEF Surrendered, OwnName
  <2> QED BY <2>1, <2>2
<1>5. ~row.deleted => \A u \in Tag \ {t} : tags[d][u] # NoRow /\ tags[d][u].val = row.val => u \in losers
  <2>1. CASE wins
    BY <1>3, <2>1
  <2>2. CASE ~wins
    <3>1. row.val = RetiredName(t)
      BY <1>2, <2>2 DEF Surrendered, TagRow
    <3>2. \A u \in Tag : tags[d][u] # NoRow /\ tags[d][u].val = RetiredName(t) => u = t
      BY <1>2, RetiredNamesDiffer DEF OwnName, RetiredNames
    <3> QED BY <3>1, <3>2
  <2> QED BY <2>1, <2>2
<1>6. merge' = [merge EXCEPT ![d] = [merge[d] EXCEPT
            !.pc = IF losers = {} THEN "land" ELSE "repoint",
            !.row = row, !.losers = losers,
            !.at = IF losers = {} THEN merge[d].at ELSE now]]
  BY DEF FindClash, SetMerge
<1> HIDE DEF wins, losers, row
<1>7. PICK m : m = [merge[d] EXCEPT
            !.pc = IF losers = {} THEN "land" ELSE "repoint",
            !.row = row, !.losers = losers,
            !.at = IF losers = {} THEN merge[d].at ELSE now]
  OBVIOUS
<1>8. /\ m \in MergeState /\ m.todo = merge[d].todo /\ m.file = merge[d].file
      /\ m.row = row /\ m.losers = losers /\ m.raced = merge[d].raced
      /\ m.pc = IF losers = {} THEN "land" ELSE "repoint"
  BY <1>2, <1>3, <1>4, <1>7 DEF MergeState
<1>9. MergeFine(m, tags[d], members[d])
  <2>1. t = Min(m.todo)
    BY <1>8 DEF Current
  <2> HIDE DEF t
  <2> QED BY <1>1, <1>2, <1>3, <1>4, <1>5, <1>8, <2>1 DEF MergeFine, Repairs
<1>10. /\ merge' = [merge EXCEPT ![d] = m] /\ TagsOK' /\ members' \in [Device -> MemberTable]
       /\ tags' = tags /\ members' = members /\ UNCHANGED <<copies, used, writes>>
  BY <1>6, <1>7, SameTags DEF FindClash, Inv
<1> QED BY <1>8, <1>9, <1>10, MergeKeeps

\* The tag that gives its name up next.
LEMMA LoserFacts ==
    ASSUME Inv, NEW d \in Device, merge[d].pc \in Repairs
    PROVE  LET loser == Min(merge[d].losers) IN
           /\ loser \in merge[d].losers /\ loser \in Tag /\ loser # Current(d)
           /\ tags[d][loser] # NoRow
           /\ merge[d].row \in TagRow /\ OwnName(Current(d), merge[d].row)
<1>1. MergeFine(merge[d], tags[d], members[d])
  BY InHand
<1>2. /\ merge[d].losers \subseteq Tag /\ merge[d].losers # {}
      /\ \A u \in merge[d].losers : tags[d][u] # NoRow
      /\ Current(d) \notin merge[d].losers
      /\ merge[d].row \in TagRow /\ OwnName(Current(d), merge[d].row)
  BY <1>1 DEF MergeFine, Current
<1>3. Min(merge[d].losers) \in merge[d].losers
  BY <1>2, MinOf
<1> QED BY <1>2, <1>3

LEMMA RepointKeeps ==
    ASSUME Inv, NEW d \in Device, Repoint(d)
    PROVE  Inv'
<1> DEFINE t == Current(d)
           loser == Min(merge[d].losers)
<1>1. merge[d].pc = "repoint"
  BY DEF Repoint
<1>2. /\ merge[d] \in MergeState /\ MergeFine(merge[d], tags[d], members[d]) /\ t \in Tag
      /\ \A u \in Tag : members[d][u] \in MaybeRow
      /\ loser \in Tag /\ loser # t /\ merge[d].at \in Time
  BY <1>1, InHand, LoserFacts DEF Repairs, MergeState
<1>3. PICK m : m = [merge[d] EXCEPT !.pc = "tombstone"]
  OBVIOUS
<1>4. /\ m \in MergeState /\ m.todo = merge[d].todo /\ m.file = merge[d].file
      /\ m.row = merge[d].row /\ m.losers = merge[d].losers /\ m.raced = merge[d].raced
      /\ m.pc = "tombstone"
  BY <1>2, <1>3 DEF MergeState
<1>5. PICK r : r = Moved(members[d][t], merge[d].at, d)
  OBVIOUS
<1>6. r \in Row /\ Live(r)
  BY <1>2, <1>5, StampedMember DEF Moved
<1>7. IF Live(members[d][loser]) THEN members' = [members EXCEPT ![d][t] = r] ELSE members' = members
  BY <1>5 DEF Repoint, SetMember
<1>8. /\ members' \in [Device -> MemberTable]
      /\ \A e \in Device : e # d => members'[e] = members[e]
      /\ Live(members'[d][loser]) => Live(members'[d][t])
  <2>1. members \in [Device -> MemberTable] /\ r \in MaybeRow
    BY <1>6 DEF Inv, MaybeRow
  <2>2. CASE Live(members[d][loser])
    <3>1. /\ members' \in [Device -> MemberTable]
          /\ \A e \in Device, u \in Tag :
                members'[e][u] = IF e = d /\ u = t THEN r ELSE members[e][u]
          /\ \A e \in Device : e # d => members'[e] = members[e]
      BY <1>2, <1>7, <2>1, <2>2, MemberSet
    <3> QED BY <1>2, <1>6, <3>1
  <2>3. CASE ~Live(members[d][loser])
    BY <1>7, <2>1, <2>3
  <2> QED BY <2>2, <2>3
<1>9. MergeFine(m, tags[d], members'[d])
  <2>1. t = Min(m.todo) /\ loser = Min(m.losers)
    BY <1>4 DEF Current
  <2> HIDE DEF t, loser
  <2> QED BY <1>1, <1>2, <1>4, <1>8, <2>1 DEF MergeFine, Repairs
<1>10. /\ merge' = [merge EXCEPT ![d] = m] /\ TagsOK' /\ tags' = tags
       /\ UNCHANGED <<copies, used, writes>>
  BY <1>3, SameTags DEF Repoint, SetMerge, Inv
<1> QED BY <1>4, <1>8, <1>9, <1>10, MergeKeeps

LEMMA TombstoneMembersKeeps ==
    ASSUME Inv, NEW d \in Device, TombstoneMembers(d)
    PROVE  Inv'
<1> DEFINE loser == Min(merge[d].losers)
<1>1. merge[d].pc = "tombstone"
  BY DEF TombstoneMembers
<1>2. /\ merge[d] \in MergeState /\ MergeFine(merge[d], tags[d], members[d])
      /\ loser \in Tag /\ merge[d].at \in Time /\ members[d][loser] \in MaybeRow
  BY <1>1, InHand, LoserFacts DEF Repairs, MergeState
<1>3. PICK m : m = [merge[d] EXCEPT !.pc = "retire"]
  OBVIOUS
<1>4. /\ m \in MergeState /\ m.todo = merge[d].todo /\ m.file = merge[d].file
      /\ m.row = merge[d].row /\ m.losers = merge[d].losers /\ m.raced = merge[d].raced
      /\ m.pc = "retire"
  BY <1>2, <1>3 DEF MergeState
<1>5. /\ members' \in [Device -> MemberTable]
      /\ \A e \in Device : e # d => members'[e] = members[e]
  <2>1. CASE members[d][loser] = NoRow
    BY <2>1 DEF TombstoneMembers, Inv
  <2>2. CASE members[d][loser] # NoRow
    <3>1. PICK r : r = StampRow(members[d][loser], merge[d].at, d, TRUE)
      OBVIOUS
    <3>2. r \in MaybeRow
      BY <1>2, <2>2, <3>1, StampedMember DEF MaybeRow
    <3>3. members' = [members EXCEPT ![d][loser] = r]
      BY <2>2, <3>1 DEF TombstoneMembers, SetMember
    <3> QED BY <1>2, <3>2, <3>3, MemberSet DEF Inv
  <2> QED BY <2>1, <2>2
<1>6. MergeFine(m, tags[d], members'[d])
  BY <1>1, <1>2, <1>4 DEF MergeFine, Repairs
<1>7. /\ merge' = [merge EXCEPT ![d] = m] /\ TagsOK' /\ tags' = tags
      /\ UNCHANGED <<copies, used, writes>>
  BY <1>3, SameTags DEF TombstoneMembers, SetMerge, Inv
<1> QED BY <1>4, <1>5, <1>6, <1>7, MergeKeeps

LEMMA RetireKeeps ==
    ASSUME Inv, NEW d \in Device, Retire(d)
    PROVE  Inv'
<1> DEFINE t == Current(d)
           loser == Min(merge[d].losers)
           rest == merge[d].losers \ {loser}
<1>1. merge[d].pc = "retire"
  BY DEF Retire
<1>2. /\ merge[d] \in MergeState /\ MergeFine(merge[d], tags[d], members[d]) /\ t \in Tag
      /\ \A u \in Tag : tags[d][u] \in TagRow \union {NoRow} /\ OwnName(u, tags[d][u])
      /\ loser \in Tag /\ loser # t /\ loser \in merge[d].losers /\ tags[d][loser] # NoRow
      /\ merge[d].row \in TagRow /\ OwnName(t, merge[d].row)
  BY <1>1, InHand, LoserFacts DEF Repairs
<1>3. PICK r : r = [tags[d][loser] EXCEPT !.val = RetiredName(loser), !.deleted = TRUE]
  OBVIOUS
<1>4. r \in TagRow /\ r.val = RetiredName(loser)
  <2>1. tags[d][loser] \in TagRow
    BY <1>2
  <2> QED BY <1>2, <1>3, <2>1 DEF TagRow, RetiredNames
<1>5. OwnName(loser, r) /\ FreeFor(d, loser, r.val)
  <2>1. \A u \in Tag : tags[d][u] # NoRow /\ tags[d][u].val = RetiredName(loser) => u = loser
    BY <1>2, RetiredNamesDiffer DEF OwnName, RetiredNames
  <2> QED BY <1>4, <2>1 DEF OwnName, FreeFor
<1>6. tags' = [tags EXCEPT ![d][loser] = r]
  BY <1>3 DEF Retire, SetTag
<1>7. /\ TagsOK' /\ \A e \in Device : e # d => tags'[e] = tags[e]
      /\ \A e \in Device, u \in Tag :
            tags'[e][u] = IF e = d /\ u = loser THEN r ELSE tags[e][u]
      /\ \A u \in Tag : tags[d][u] # NoRow => tags'[d][u] # NoRow
  <2>1. PICK l \in Tag : l = loser
    BY <1>2
  <2>2. TagsOK /\ OwnName(l, r) /\ FreeFor(d, l, r.val) /\ tags' = [tags EXCEPT ![d][l] = r]
    BY <1>5, <1>6, <2>1 DEF Inv
  <2> HIDE DEF loser
  <2>3. /\ TagsOK' /\ \A e \in Device : e # d => tags'[e] = tags[e]
        /\ \A e \in Device, u \in Tag :
              tags'[e][u] = IF e = d /\ u = l THEN r ELSE tags[e][u]
        /\ \A u \in Tag : tags[d][u] # NoRow => tags'[d][u] # NoRow
    BY <1>4, <2>2, TagSet
  <2> QED BY <2>1, <2>3
<1>8. PICK m : m = [merge[d] EXCEPT !.losers = rest, !.pc = IF rest = {} THEN "land" ELSE "repoint"]
  OBVIOUS
<1>9. /\ m \in MergeState /\ m.todo = merge[d].todo /\ m.file = merge[d].file
      /\ m.row = merge[d].row /\ m.losers = rest /\ m.raced = merge[d].raced
      /\ m.pc = IF rest = {} THEN "land" ELSE "repoint"
  <2>1. rest \in SUBSET Tag
    BY <1>2 DEF MergeState
  <2> HIDE DEF rest
  <2> QED BY <1>2, <1>8, <2>1 DEF MergeState
<1>10. RetiredName(loser) # merge[d].row.val
  <2>1. RetiredName(loser) \in RetiredNames /\ merge[d].row # NoRow
    BY <1>2, NamesAssumption DEF RetiredNames
  <2> QED BY <1>2, <2>1, RetiredNamesDiffer DEF OwnName
<1>11. \A u \in Tag \ {t} : tags'[d][u] # NoRow /\ tags'[d][u].val = m.row.val =>
           u # loser /\ tags[d][u] # NoRow /\ tags[d][u].val = merge[d].row.val
  BY <1>4, <1>7, <1>9, <1>10
<1>12. MergeFine(m, tags'[d], members[d])
  <2>1. t = Min(m.todo)
    BY <1>9 DEF Current
  <2> HIDE DEF t, loser
  <2> QED BY <1>1, <1>2, <1>7, <1>9, <1>11, <2>1 DEF MergeFine, Repairs
<1>13. /\ merge' = [merge EXCEPT ![d] = m] /\ members' = members
       /\ members' \in [Device -> MemberTable] /\ UNCHANGED <<copies, used, writes>>
  BY <1>8 DEF Retire, SetMerge, Inv
<1> QED BY <1>7, <1>9, <1>12, <1>13, MergeKeeps

\* What lands is a row under the tag's own name or a name the merge has made room for.
LEMMA LandedFacts ==
    ASSUME Inv, NEW d \in Device, merge[d].pc = "land"
    PROVE  /\ Landed(d) \in TagRow /\ OwnName(Current(d), Landed(d))
           /\ ~merge[d].raced => ~Blocked(d)
<1> DEFINE t == Current(d)
           row == merge[d].row
           local == tags[d][t]
<1>1. /\ MergeFine(merge[d], tags[d], members[d]) /\ t \in Tag
      /\ \A u \in Tag : tags[d][u] \in TagRow \union {NoRow} /\ OwnName(u, tags[d][u])
  BY InHand
<1>2. row \in TagRow /\ OwnName(t, row) /\ merge[d].losers = {}
  BY <1>1 DEF MergeFine, Repairs, Current
<1>3. PICK q : q = IF row.deleted THEN [row EXCEPT !.val = RetiredName(t)] ELSE row
  OBVIOUS
<1>4. q \in TagRow /\ (row.deleted => q.val = RetiredName(t)) /\ (~row.deleted => q = row)
  BY <1>1, <1>2, <1>3 DEF TagRow, RetiredNames
<1>5. OwnName(t, q)
  BY <1>2, <1>4 DEF OwnName
<1>6. Landed(d) = q \/ (Landed(d) = local /\ local # NoRow)
  BY <1>3 DEF Landed, MergeRow
<1>7. Landed(d) \in TagRow /\ OwnName(t, Landed(d))
  BY <1>1, <1>4, <1>5, <1>6
<1>8. ASSUME ~merge[d].raced PROVE ~Blocked(d)
  <2>1. SUFFICES ASSUME NEW u \in Tag, u # t, tags[d][u] # NoRow, tags[d][u].val = Landed(d).val
                 PROVE  FALSE
    BY DEF Blocked, Named
  <2>2. CASE Landed(d) = local /\ local # NoRow
    BY <1>1, <2>1, <2>2 DEF Inv, TagsOK
  <2>3. CASE Landed(d) = q /\ row.deleted
    <3>1. tags[d][u].val = RetiredName(t) /\ RetiredName(t) \in RetiredNames
      BY <1>1, <1>4, <2>1, <2>3 DEF RetiredNames
    <3> QED BY <1>1, <2>1, <3>1, RetiredNamesDiffer DEF OwnName
  <2>4. CASE Landed(d) = q /\ ~row.deleted
    <3>1. tags[d][u].val = row.val
      BY <1>4, <2>1, <2>4
    <3>2. u \in merge[d].losers
      BY <1>1, <1>8, <2>1, <2>4, <3>1 DEF MergeFine, Current
    <3> QED BY <1>2, <3>2
  <2> QED BY <1>6, <2>2, <2>3, <2>4
<1> QED BY <1>7, <1>8

LEMMA LandKeeps ==
    ASSUME Inv, NEW d \in Device, Land(d)
    PROVE  Inv'
<1> DEFINE t == Current(d)
           rest == merge[d].todo \ {t}
<1>1. merge[d].pc = "land" /\ members' = members /\ members' \in [Device -> MemberTable]
      /\ UNCHANGED <<copies, used, writes>>
  BY DEF Land, Inv
<1>2. /\ merge[d] \in MergeState /\ MergeFine(merge[d], tags[d], members[d]) /\ t \in Tag
      /\ Landed(d) \in TagRow /\ OwnName(t, Landed(d))
  BY <1>1, InHand, LandedFacts
<1>3. CASE Blocked(d)
  <2>1. tags' = tags /\ merge' = [merge EXCEPT ![d] = Idle]
    BY <1>3 DEF Land, SetMerge
  <2>2. TagsOK'
    BY <2>1, SameTags DEF Inv
  <2> HIDE DEF Idle
  <2> QED BY <1>1, <2>1, <2>2, IdleFine, MergeKeeps
<1>4. CASE ~Blocked(d)
  <2>1. PICK r : r = Landed(d)
    OBVIOUS
  <2>2. r \in TagRow /\ OwnName(t, r) /\ FreeFor(d, t, r.val)
    BY <1>2, <1>4, <2>1 DEF Blocked, Named, FreeFor
  <2>3. tags' = [tags EXCEPT ![d][t] = r]
    BY <1>4, <2>1 DEF Land, SetTag
  <2>4. TagsOK' /\ \A e \in Device : e # d => tags'[e] = tags[e]
    <3> HIDE DEF t
    <3> QED BY <1>2, <2>2, <2>3, TagSet DEF Inv
  <2>5. PICK m : m = [merge[d] EXCEPT !.todo = rest, !.row = NoRow,
                            !.pc = IF rest = {} THEN "members" ELSE "find"]
    OBVIOUS
  <2>6. /\ m \in MergeState /\ m.todo = rest /\ m.file = merge[d].file
        /\ m.losers = merge[d].losers /\ m.pc = IF rest = {} THEN "members" ELSE "find"
    <3>1. rest \in SUBSET Tag
      BY <1>2 DEF MergeState
    <3> HIDE DEF rest
    <3> QED BY <1>2, <2>5, <3>1 DEF MergeState
  <2>7. MergeFine(m, tags'[d], members[d])
    <3>1. /\ m.todo \subseteq merge[d].todo /\ m.losers = {} /\ m.file = merge[d].file
          /\ m.pc = "members" \/ (m.pc = "find" /\ m.todo # {})
      BY <1>1, <1>2, <2>6 DEF MergeFine, Repairs
    <3> QED BY <1>2, <3>1 DEF MergeFine, Repairs
  <2>8. merge' = [merge EXCEPT ![d] = m]
    BY <1>4, <2>5 DEF Land, SetMerge
  <2> QED BY <1>1, <2>4, <2>6, <2>7, <2>8, MergeKeeps
<1> QED BY <1>3, <1>4

LEMMA LandMembersKeeps ==
    ASSUME Inv, NEW d \in Device, LandMembers(d)
    PROVE  Inv'
<1> DEFINE file == merge[d].file.members
<1>1. file \in MemberTable /\ members \in [Device -> MemberTable]
  BY DEF Inv, MergesOK, MergeState, Copy
<1>2. PICK mb : mb = [t \in Tag |-> IF file[t] = NoRow THEN members[d][t]
                                    ELSE MergeRow(members[d][t], file[t])]
  OBVIOUS
<1>3. members' = [members EXCEPT ![d] = mb]
  BY <1>1, <1>2 DEF LandMembers
<1>4. ASSUME NEW t \in Tag PROVE mb[t] \in MaybeRow
  <2>1. file[t] \in MaybeRow /\ members[d][t] \in MaybeRow
    BY <1>1 DEF MemberTable
  <2> QED BY <1>2, <2>1 DEF MergeRow
<1>5. /\ members' \in [Device -> MemberTable] /\ \A e \in Device : e # d => members'[e] = members[e]
  <2>1. mb \in MemberTable
    BY <1>2, <1>4 DEF MemberTable
  <2> QED BY <1>1, <1>3, <2>1
<1>6. tags' = tags /\ merge' = [merge EXCEPT ![d] = Idle] /\ UNCHANGED <<copies, used, writes>>
  BY DEF LandMembers, SetMerge
<1>7. TagsOK'
  BY <1>6, SameTags DEF Inv
<1> HIDE DEF Idle
<1> QED BY <1>5, <1>6, <1>7, IdleFine, MergeKeeps
----------------------------------------------------------------------------
(* The theorems.                                                           *)

LEMMA InvNext == Inv /\ [Next]_vars => Inv'
<1> SUFFICES ASSUME Inv, [Next]_vars PROVE Inv'
  OBVIOUS
<1>1. ASSUME NEW d \in Device, UserStep(d) PROVE Inv'
  BY <1>1, CreateTagKeeps, ReviveTagKeeps, RenameTagKeeps, DeleteTagKeeps, TagPaperKeeps
     DEF UserStep
<1>2. ASSUME NEW d \in Device, MergeStep(d) PROVE Inv'
  BY <1>2, FindClashKeeps, RepointKeeps, TombstoneMembersKeeps, RetireKeeps, LandKeeps,
     LandMembersKeeps DEF MergeStep
<1>3. CASE UNCHANGED vars
  <2>1. TagsOK' /\ CopiesOK'
    BY <1>3, SameTags, SameCopies DEF vars, Inv
  <2>2. MergesOK'
    BY <1>3 DEF vars, Inv, MergesOK
  <2>3. CountsOK' /\ members' \in [Device -> MemberTable]
    BY <1>3 DEF vars, Inv, CountsOK
  <2> QED BY <2>1, <2>2, <2>3 DEF Inv
<1> QED BY <1>1, <1>2, <1>3, PublishTablesKeeps, BeginMergeKeeps DEF Next

\* What every state of a run has: one tag of a name on a device, made-up names on their
\* own tags, and merges that have made room for what they hold.
THEOREM InvHolds == Spec => []Inv
<1> QED BY InvInit, InvNext, PTL DEF Spec

\* Tags, memberships, files and merges are well typed in every reachable state.
THEOREM TypeCorrect == Spec => []TypeOK
<1>1. Inv => TypeOK
  BY DEF Inv, TagsOK, CopiesOK, MergesOK, CountsOK, TypeOK
<1> QED BY <1>1, InvHolds, PTL

\* A merge the user does not race is never refused: the repair has freed the name of the
\* row that lands, whatever names the peers gave, renamed or deleted.
THEOREM NeverBlocked == Spec => []MergeNeverBlocked
<1>1. Inv => MergeNeverBlocked
  BY LandedFacts DEF MergeNeverBlocked
<1> QED BY <1>1, InvHolds, PTL

\* Tags of one name on a device are one tag, dead ones and the middle of a repair included.
THEOREM NamesAreUnique ==
    Spec => [](\A d \in Device, t, u \in Tag :
                  tags[d][t] # NoRow /\ tags[d][u] # NoRow /\ tags[d][t].val = tags[d][u].val
                      => t = u)
<1>1. Inv => \A d \in Device, t, u \in Tag :
                 tags[d][t] # NoRow /\ tags[d][u] # NoRow /\ tags[d][t].val = tags[d][u].val
                     => t = u
  BY DEF Inv, TagsOK
<1> QED BY <1>1, InvHolds, PTL

\* A membership the repair kills lives on in the surviving tag, unless the user raced it.
THEOREM MembershipsMove == Spec => MembershipMoves
<1>1. ASSUME Inv, NEW d \in Device, KillsMembership(d), ~merge[d].raced
      PROVE  Live(members[d][Current(d)])
  BY <1>1 DEF Inv, MergesOK, MergeFine, KillsMembership, Current
<1>2. Inv /\ [Next]_vars =>
          [\A d \in Device :
              KillsMembership(d) /\ ~merge[d].raced => Live(members[d][Current(d)])]_vars
  BY <1>1
<1> QED BY <1>2, InvHolds, PTL DEF Spec, MembershipMoves

\* What a step puts in the place of a membership is newer.
LEMMA MemberReplaced ==
    ASSUME Inv, NEW d \in Device, NEW t \in Tag, NEW r \in MaybeRow,
           members' = [members EXCEPT ![d][t] = r],
           members[d][t] # NoRow => r = members[d][t] \/ Newer(r, members[d][t]),
           NEW e \in Device, NEW u \in Tag, members[e][u] # NoRow, members'[e][u] # members[e][u]
    PROVE  Newer(members'[e][u], members[e][u])
<1>1. members'[e][u] = IF e = d /\ u = t THEN r ELSE members[e][u]
  BY MemberSet DEF Inv
<1> QED BY <1>1

LEMMA MembersForward ==
    ASSUME Inv, Next, NEW e \in Device, NEW u \in Tag,
           members[e][u] # NoRow, members'[e][u] # members[e][u]
    PROVE  Newer(members'[e][u], members[e][u])
<1>1. \A d \in Device, t \in Tag : members[d][t] \in MaybeRow
  BY DEF Inv, MemberTable
<1>2. ASSUME NEW d \in Device, NEW t \in Tag, NEW now \in Time,
             \/ DeleteTag(d, t, now) \/ AddTagToPaper(d, t, now) \/ RemoveTagFromPaper(d, t, now)
      PROVE  Newer(members'[e][u], members[e][u])
  <2>1. PICK r : /\ members' = [members EXCEPT ![d][t] = r]
                 /\ \/ members[d][t] = NoRow /\ r = NoRow
                    \/ members[d][t] # NoRow /\ r = StampRow(members[d][t], now, d, TRUE)
                    \/ r = UpsertJunction(members[d][t], now, d)
    BY <1>2 DEF DeleteTag, AddTagToPaper, RemoveTagFromPaper, SetMember, Live
  <2>2. members[d][t] \in MaybeRow
    BY <1>1
  <2>3. CASE members[d][t] = NoRow /\ r = NoRow
    BY <2>1, <2>2, <2>3, MemberReplaced
  <2>4. CASE members[d][t] # NoRow /\ r = StampRow(members[d][t], now, d, TRUE)
    <3>1. r \in Row /\ Newer(r, members[d][t])
      BY <2>2, <2>4, StampedMember
    <3>2. r \in MaybeRow
      BY <3>1 DEF MaybeRow
    <3> QED BY <2>1, <3>1, <3>2, MemberReplaced
  <2>5. CASE r = UpsertJunction(members[d][t], now, d)
    <3>1. r \in Row /\ (members[d][t] # NoRow => Newer(r, members[d][t]))
      BY <2>2, <2>5, StampedMember
    <3>2. r \in MaybeRow
      BY <3>1 DEF MaybeRow
    <3> QED BY <2>1, <3>1, <3>2, MemberReplaced
  <2> QED BY <2>1, <2>3, <2>4, <2>5
<1>3. ASSUME NEW d \in Device, Repoint(d)
      PROVE  Newer(members'[e][u], members[e][u])
  <2>1. PICK t \in Tag, now \in Time : t = Current(d) /\ now = merge[d].at
    BY <1>3, InHand DEF Repoint, Repairs, MergeState
  <2>2. PICK r : r = UpsertJunction(members[d][t], now, d)
    OBVIOUS
  <2>3. members' = members \/ members' = [members EXCEPT ![d][t] = r]
    BY <1>3, <2>1, <2>2 DEF Repoint, SetMember, Moved
  <2>4. r \in MaybeRow /\ (members[d][t] # NoRow => Newer(r, members[d][t]))
    BY <1>1, <2>2, StampedMember DEF MaybeRow
  <2> QED BY <2>3, <2>4, MemberReplaced
<1>4. ASSUME NEW d \in Device, TombstoneMembers(d)
      PROVE  Newer(members'[e][u], members[e][u])
  <2>1. PICK t \in Tag, now \in Time : t = Min(merge[d].losers) /\ now = merge[d].at
    BY <1>4, InHand, LoserFacts DEF TombstoneMembers, Repairs, MergeState
  <2>2. PICK r : r = StampRow(members[d][t], now, d, TRUE)
    OBVIOUS
  <2>3. members' = members \/ (members[d][t] # NoRow /\ members' = [members EXCEPT ![d][t] = r])
    BY <1>4, <2>1, <2>2 DEF TombstoneMembers, SetMember
  <2>4. members[d][t] # NoRow => r \in MaybeRow /\ Newer(r, members[d][t])
    BY <1>1, <2>2, StampedMember DEF MaybeRow
  <2> QED BY <2>3, <2>4, MemberReplaced
<1>5. ASSUME NEW d \in Device, LandMembers(d)
      PROVE  Newer(members'[e][u], members[e][u])
  <2>1. PICK file \in MemberTable : file = merge[d].file.members
    BY DEF Inv, MergesOK, MergeState, Copy
  <2>2. members'[e][u] = IF e # d \/ file[u] = NoRow THEN members[e][u]
                         ELSE MergeRow(members[e][u], file[u])
    BY <1>5, <2>1 DEF LandMembers, Inv
  <2>3. file[u] # NoRow => file[u] \in Row
    BY <2>1 DEF MemberTable, MaybeRow
  <2> QED BY <1>1, <2>2, <2>3, MergeRowAdvances
<1>6. ASSUME NEW d \in Device, MergeStep(d)
      PROVE  Newer(members'[e][u], members[e][u])
  <2>1. CASE LandMembers(d) \/ Repoint(d) \/ TombstoneMembers(d)
    BY <1>3, <1>4, <1>5, <2>1
  <2>2. CASE members' = members
    BY <2>2
  <2> QED BY <1>6, <2>1, <2>2 DEF MergeStep, FindClash, Retire, Land
<1>7. ASSUME NEW d \in Device, UserStep(d)
      PROVE  Newer(members'[e][u], members[e][u])
  BY <1>2, <1>7 DEF UserStep, CreateTag, ReviveTag, RenameTag
<1> QED BY <1>6, <1>7 DEF Next, PublishTables, BeginMerge

\* No step lowers a membership's clock or changes a membership under an unchanged one:
\* every later version beats the one before.
THEOREM MembersOnlyAdvance == Spec => MembersAdvance
<1>1. Inv /\ [Next]_vars =>
          [\A d \in Device, t \in Tag :
              members[d][t] # NoRow /\ members'[d][t] # members[d][t]
                  => Newer(members'[d][t], members[d][t])]_vars
  BY MembersForward
<1> QED BY <1>1, InvHolds, PTL DEF Spec, MembersAdvance

=============================================================================
