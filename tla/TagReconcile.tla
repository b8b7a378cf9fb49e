---------------------------- MODULE TagReconcile ----------------------------
(***************************************************************************)
(* Tags, whose names are unique on a device, dead rows included, and whose *)
(* ids are made on the device that creates them.  Before a peer's tag is   *)
(* merged, a local tag of another id that has its name gives it up: the    *)
(* smallest id keeps the name, the others' memberships are moved to it.    *)
(*                                                                         *)
(* That repair is four statements with awaits in between, and the user     *)
(* goes on tagging meanwhile.  There is one paper; a local write and its   *)
(* stamp are one step, as RowSync has them apart; a device merges the file *)
(* another device has published, or an older one.                          *)
(***************************************************************************)
EXTENDS LwwRow, FiniteSets, FiniteSetsExt

CONSTANTS
    Tag,       \* tag ids, ordered as text, here as numbers
    Before,    \* the tags all devices have had from an earlier sync
    Ops,       \* the operations the users perform
    MaxTime,   \* bound: clock readings are 1 .. MaxTime
    MaxWrites, \* bound: local writes, all devices together
    MaxCopies  \* bound: how many of one device's files may be around

AllOps == {"create", "rename", "delete", "member", "leave"}

ASSUME TagAssumption == Tag \subseteq Nat /\ Before \subseteq Tag
ASSUME DevicesAssumption == IsFiniteSet(Device) /\ Device # {}
ASSUME OpsAssumption == Ops \subseteq AllOps
ASSUME BoundAssumption ==
    MaxTime \in Nat \ {0} /\ MaxWrites \in Nat /\ MaxCopies \in Nat \ {0}

Time == 1 .. MaxTime

\* retired_tag_name: derived from the id, so no two rows share one.
RetiredName(t) == <<"retired", t>>

RetiredNames == {RetiredName(t) : t \in Tag}

\* A tag row holds its name; a name a user has typed is a member of Value.
TagRow == [ua : Nat, ub : Device \union {Nobody}, deleted : BOOLEAN,
           val : Content \union RetiredNames]

\* Nobody types a made-up name, and no row is none.
ASSUME NamesAssumption == Content \intersect RetiredNames = {} /\ NoRow \notin TagRow

TagTable == [Tag -> TagRow \union {NoRow}]

\* The paper's memberships, by tag.
MemberTable == [Tag -> MaybeRow]

Copy == [tags : TagTable, members : MemberTable]

VARIABLES
    tags,     \* tags[d][t]: device d's row of tag t
    members,  \* members[d][t]: d's row of the paper's membership in t
    copies,   \* copies[d]: d's file, and older ones a peer may still be shown
    merge,    \* merge[d]: where d's merge of a peer's copy stands
    used,     \* the operations users have performed
    writes

vars == <<tags, members, copies, merge, used, writes>>

NoTags == [t \in Tag |-> NoRow]

MergeState ==
    [pc : {"idle", "find", "repoint", "tombstone", "retire", "land", "members"},
     file : Copy, todo : SUBSET Tag, row : TagRow \union {NoRow},
     losers : SUBSET Tag, at : Time, raced : BOOLEAN]

Idle == [pc |-> "idle", file |-> [tags |-> NoTags, members |-> NoTags], todo |-> {},
         row |-> NoRow, losers |-> {}, at |-> 1, raced |-> FALSE]

\* The paper's membership in a tag so far: none, or put in by the last device, and
\* taken out again or not.
Memberships ==
    LET joined == UpsertJunction(NoRow, 1, Max(Device)) IN
    {NoRow, joined, StampRow(joined, 1, Max(Device), TRUE)}

\* The devices start in step; each tag of Before has a name of its own.
Init ==
    /\ \E name \in [Before -> Value], member \in [Before -> Memberships] :
        /\ \A t, u \in Before : name[t] = name[u] => t = u
        /\ tags = [d \in Device |-> [t \in Tag |->
                IF t \in Before THEN StampRow(Unstamped(name[t]), 1, Min(Device), FALSE)
                ELSE NoRow]]
        /\ members = [d \in Device |-> [t \in Tag |->
                IF t \in Before THEN member[t] ELSE NoRow]]
    /\ copies = [d \in Device |-> {}]
    /\ merge = [d \in Device |-> Idle]
    /\ used = {}
    /\ writes = 0

Live(r) == r # NoRow /\ ~r.deleted

Named(d, n) == {t \in Tag : tags[d][t] # NoRow /\ tags[d][t].val = n}

\* Tag t's id is yet to be made.
Fresh(t) == \A d \in Device : tags[d][t] = NoRow

SetTag(d, t, r) == tags' = [tags EXCEPT ![d][t] = r]

SetMember(d, t, r) == members' = [members EXCEPT ![d][t] = r]

-----------------------------------------------------------------------------
(* What users do. *)

\* One operation of a user; a merge d is in the middle of is raced by it.
Write(d, op) ==
    /\ op \in Ops
    /\ used' = used \union {op}
    /\ writes < MaxWrites /\ writes' = writes + 1
    /\ merge' = [merge EXCEPT ![d].raced = merge[d].pc # "idle"]
    /\ UNCHANGED copies

\* get_or_create_tag when no row has the name.
CreateTag(d, t, n, now) ==
    /\ Write(d, "create")
    /\ Fresh(t) /\ Named(d, n) = {}
    /\ SetTag(d, t, StampRow(Unstamped(n), now, d, FALSE))
    /\ UNCHANGED members

\* get_or_create_tag when a deleted tag still has the name: the row comes back.
ReviveTag(d, t, n, now) ==
    /\ Write(d, "create")
    /\ t \in Named(d, n) /\ tags[d][t].deleted
    /\ SetTag(d, t, StampRow(tags[d][t], now, d, FALSE))
    /\ UNCHANGED members

\* The constraint on the name refuses the update if another row has it.
RenameTag(d, t, n, now) ==
    /\ Write(d, "rename")
    /\ Live(tags[d][t]) /\ Named(d, n) = {}
    /\ SetTag(d, t, StampRow([tags[d][t] EXCEPT !.val = n], now, d, FALSE))
    /\ UNCHANGED members

\* The tag first, then its memberships, dead ones included.
DeleteTag(d, t, now) ==
    /\ Write(d, "delete")
    /\ Live(tags[d][t])
    /\ SetTag(d, t, StampRow(tags[d][t], now, d, TRUE))
    /\ SetMember(d, t, IF members[d][t] = NoRow THEN NoRow
                       ELSE StampRow(members[d][t], now, d, TRUE))

\* The id is one the user's view or get_or_create_tag gave; the tag may have died since.
AddTagToPaper(d, t, now) ==
    /\ Write(d, "member")
    /\ tags[d][t] # NoRow
    /\ SetMember(d, t, UpsertJunction(members[d][t], now, d))
    /\ UNCHANGED tags

RemoveTagFromPaper(d, t, now) ==
    /\ Write(d, "leave")
    /\ members[d][t] # NoRow
    /\ SetMember(d, t, StampRow(members[d][t], now, d, TRUE))
    /\ UNCHANGED tags

-----------------------------------------------------------------------------
(* A merge of a peer's copy. *)

SetMerge(d, m) == merge' = [merge EXCEPT ![d] = m]

\* The tag whose row is being merged: rows come in the order of the file.
Current(d) == Min(merge[d].todo)

Incoming(d) == merge[d].file.tags[Current(d)]

\* The copy of its tables as they are now.
CurrentCopy(d) ==
    [tags |-> [t \in Tag |-> Published(tags[d][t])],
     members |-> [t \in Tag |-> Published(members[d][t])]]

\* The file is replaced; where the folder is slow, peers go on seeing older ones.
PublishTables(d) ==
    /\ \E kept \in SUBSET copies[d] :
        /\ Cardinality(kept \union {CurrentCopy(d)}) <= MaxCopies
        /\ copies' = [copies EXCEPT ![d] = kept \union {CurrentCopy(d)}]
    /\ UNCHANGED <<tags, members, merge, used, writes>>

BeginMerge(d, p, copy) ==
    /\ merge[d].pc = "idle"
    /\ LET todo == {t \in Tag : copy.tags[t] # NoRow} IN
       SetMerge(d, [Idle EXCEPT !.pc = IF todo = {} THEN "members" ELSE "find",
                                !.file = copy, !.todo = todo])
    /\ UNCHANGED <<tags, members, copies, used, writes>>

\* Mutant of Clashing: only live rows are looked at.
ClashingLive(d) ==
    {t \in Named(d, Incoming(d).val) : t # Current(d) /\ Live(tags[d][t])}

\* The local rows of other tags that have the incoming name, dead ones included.
Clashing(d) ==
    IF Incoming(d).deleted THEN {} ELSE Named(d, Incoming(d).val) \ {Current(d)}

\* Mutant of Survivor: the tag that was there first wins.
SurvivorLocal(d) == IF Clashing(d) = {} THEN Current(d) ELSE Min(Clashing(d))

\* min(id) over everyone with the name, the incoming row included.
Survivor(d) == Min(Clashing(d) \union {Current(d)})

\* Mutant of Surrendered: the name is kept.
SurrenderedNot(d) == Incoming(d)

\* An incoming row that loses is renamed as it lands.
Surrendered(d) == [Incoming(d) EXCEPT !.val = RetiredName(Current(d))]

\* The first half of reconcile_tag_name: who has to give the name up.
FindClash(d, now) ==
    LET wins == Survivor(d) = Current(d)
        losers == IF wins THEN Clashing(d) ELSE {} IN
    /\ merge[d].pc = "find"
    /\ SetMerge(d, [merge[d] EXCEPT
            !.pc = IF losers = {} THEN "land" ELSE "repoint",
            !.row = IF wins THEN Incoming(d) ELSE Surrendered(d),
            !.losers = losers,
            !.at = IF losers = {} THEN merge[d].at ELSE now])
    /\ UNCHANGED <<tags, members, copies, used, writes>>

\* Mutant of Moved: the update branch is stamped with the bare clock reading.
MovedUnclamped(r, now, d) == UpsertJunctionUnclamped(r, now, d)

\* Mutant of Moved: INSERT OR IGNORE, a dead membership stays dead.
MovedIgnored(r, now, d) == IF r = NoRow THEN UpsertJunction(r, now, d) ELSE r

\* A membership moved to the survivor: inserted, or revived past its stamp.
Moved(r, now, d) == UpsertJunction(r, now, d)

\* The loser's live memberships go to the survivor.
Repoint(d) ==
    LET loser == Min(merge[d].losers) IN
    /\ merge[d].pc = "repoint"
    /\ IF Live(members[d][loser])
       THEN SetMember(d, Current(d), Moved(members[d][Current(d)], merge[d].at, d))
       ELSE UNCHANGED members
    /\ SetMerge(d, [merge[d] EXCEPT !.pc = "tombstone"])
    /\ UNCHANGED <<tags, copies, used, writes>>

\* All the loser's memberships die.
TombstoneMembers(d) ==
    LET loser == Min(merge[d].losers) IN
    /\ merge[d].pc = "tombstone"
    /\ IF members[d][loser] # NoRow
       THEN SetMember(d, loser, StampRow(members[d][loser], merge[d].at, d, TRUE))
       ELSE UNCHANGED members
    /\ SetMerge(d, [merge[d] EXCEPT !.pc = "retire"])
    /\ UNCHANGED <<tags, copies, used, writes>>

\* The loser is renamed and hidden; its clock stays.
Retire(d) ==
    LET loser == Min(merge[d].losers)
        rest == merge[d].losers \ {loser} IN
    /\ merge[d].pc = "retire"
    /\ SetTag(d, loser, [tags[d][loser] EXCEPT !.val = RetiredName(loser), !.deleted = TRUE])
    /\ SetMerge(d, [merge[d] EXCEPT !.losers = rest,
                                    !.pc = IF rest = {} THEN "land" ELSE "repoint"])
    /\ UNCHANGED <<members, copies, used, writes>>

\* Mutant of Landed: every tombstone lands under the same placeholder name.
LandedBlank(d) == MergeRow(tags[d][Current(d)], merge[d].row)

\* The row as merge_row leaves it; a tombstone brings a name nobody else has.
Landed(d) ==
    LET t == Current(d)
        row == merge[d].row IN
    MergeRow(tags[d][t], IF row.deleted THEN [row EXCEPT !.val = RetiredName(t)] ELSE row)

\* The constraint on the name refuses the row.
Blocked(d) == Named(d, Landed(d).val) \ {Current(d)} # {}

\* An error abandons the file; the rows already merged stay.
Land(d) ==
    LET rest == merge[d].todo \ {Current(d)} IN
    /\ merge[d].pc = "land"
    /\ IF Blocked(d)
       THEN UNCHANGED tags /\ SetMerge(d, Idle)
       ELSE /\ SetTag(d, Current(d), Landed(d))
            /\ SetMerge(d, [merge[d] EXCEPT !.todo = rest, !.row = NoRow,
                            !.pc = IF rest = {} THEN "members" ELSE "find"])
    /\ UNCHANGED <<members, copies, used, writes>>

\* paper_tags comes after tags in the file.
LandMembers(d) ==
    LET file == merge[d].file.members IN
    /\ merge[d].pc = "members"
    /\ members' = [members EXCEPT ![d] =
            [t \in Tag |-> IF file[t] = NoRow THEN @[t] ELSE MergeRow(@[t], file[t])]]
    /\ SetMerge(d, Idle)
    /\ UNCHANGED <<tags, copies, used, writes>>

-----------------------------------------------------------------------------

UserStep(d) ==
    \E t \in Tag, now \in Time :
        \/ \E n \in Value : \/ CreateTag(d, t, n, now)
                            \/ ReviveTag(d, t, n, now)
                            \/ RenameTag(d, t, n, now)
        \/ DeleteTag(d, t, now)
        \/ AddTagToPaper(d, t, now)
        \/ RemoveTagFromPaper(d, t, now)

\* What a merge does once it has begun.
MergeStep(d) ==
    \/ \E now \in Time : FindClash(d, now)
    \/ Repoint(d)
    \/ TombstoneMembers(d)
    \/ Retire(d)
    \/ Land(d)
    \/ LandMembers(d)

Next ==
    \E d \in Device :
        \/ UserStep(d)
        \/ PublishTables(d)
        \/ \E p \in Device \ {d} : \E copy \in copies[p] : BeginMerge(d, p, copy)
        \/ MergeStep(d)

Spec == Init /\ [][Next]_vars

\* A peer's file is its newest copy; the sync cycle exports, then merges every
\* file it finds, and the next cycle does so again.
MergeCurrent(d, p) == CurrentCopy(p) \in copies[p] /\ BeginMerge(d, p, CurrentCopy(p))

Fairness ==
    \A d \in Device :
        /\ WF_vars(PublishTables(d))
        /\ WF_vars(MergeStep(d))
        /\ \A p \in Device \ {d} : SF_vars(MergeCurrent(d, p))

FairSpec == Spec /\ Fairness

-----------------------------------------------------------------------------
(* Properties. *)

TypeOK ==
    /\ tags \in [Device -> TagTable]
    /\ members \in [Device -> MemberTable]
    /\ \A d \in Device : copies[d] \subseteq Copy /\ merge[d] \in MergeState
    /\ used \subseteq Ops
    /\ writes \in 0 .. MaxWrites

\* A peer's file always gets in: whatever names the peers gave their tags or renamed
\* them to, the repair leaves the name of the row that lands free, unless the user takes
\* it during the merge.  (An error here abandons the whole file, on
\* every cycle.)
MergeNeverBlocked ==
    \A d \in Device : merge[d].pc = "land" /\ ~merge[d].raced => ~Blocked(d)

\* No write of the engine lowers a membership's clock: whatever happens to it, every
\* later version of a membership on a device beats the one before.
MembersAdvance ==
    [][\A d \in Device, t \in Tag :
          members[d][t] # NoRow /\ members'[d][t] # members[d][t]
              => Newer(members'[d][t], members[d][t])]_vars

\* d's repair kills the paper's membership in a tag that gives its name up.
KillsMembership(d) ==
    /\ merge[d].pc = "tombstone" /\ merge'[d].pc = "retire"
    /\ Live(members[d][Min(merge[d].losers)])

\* No paper silently loses the tag: a membership the repair kills lives on in the
\* surviving tag, if the user leaves both tags alone during the merge.
MembershipMoves ==
    [][\A d \in Device :
          KillsMembership(d) /\ ~merge[d].raced => Live(members[d][Current(d)])]_vars

\* The same, for a user who only adds tags, before, after or during the merge.
NoTagLost ==
    [][\A d \in Device : KillsMembership(d) => Live(members[d][Current(d)])]_vars

\* Merging a copy again, or a copy from before, changes nothing: a local tag gives its
\* name up only to a row that then beats the local one.
ReapplyChangesNothing ==
    \A d \in Device :
        merge[d].losers # {} /\ ~merge[d].raced
            => Landed(d) # tags[d][Current(d)]

\* The rename of a duplicate stays on the device that made it.
RetiredNameStaysHome ==
    \A d \in Device : \A c \in copies[d] : \A t \in Tag :
        Live(c.tags[t]) => c.tags[t].val \notin RetiredNames

\* The tag device d shows under name n.
Shown(d, n) == {t \in Named(d, n) : Live(tags[d][t])}

\* The devices agree on the tag each name stands for, and on the paper's tags.
Agreed ==
    \A d, e \in Device :
        /\ \A n \in Value : Shown(d, n) = Shown(e, n)
        /\ members[d] = members[e]

\* Devices that create the same names offline end up with one tag of each name, the
\* same on all of them, and with the paper in the same tags; as long as no tag is
\* deleted or renamed (MCTagDeleted shows what deleting one does).
TagsConverge == <>[](used \subseteq {"create", "member", "leave"} => Agreed)

\* The same, whatever the users do.
NamesAgree ==
    <>[](\A d, e \in Device, n \in Value : Shown(d, n) = Shown(e, n))

=============================================================================
