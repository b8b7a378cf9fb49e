-------------------------- MODULE LastWriterWins ----------------------------
(***************************************************************************)
(* What the sync engine promises, without its loop, its files or its       *)
(* phases: each device holds one version of a row (or of a paper's column) *)
(* at a time, and goes from one version to the next only by writing one no *)
(* one has seen, or by taking over whole a newer one some device wrote.    *)
(***************************************************************************)
EXTENDS LwwRow

CONSTANT Key

VARIABLES
    row,         \* row[d][k]: the version of row k device d holds
    owed,        \* owed[d]: the rows d has drafted and not put a clock on yet
    circulating  \* circulating[k]: the versions of row k anywhere at all

lwwVars == <<row, owed, circulating>>

\* The devices agree: on nothing, or on what an earlier sync has brought to all.
LwwInit ==
    /\ \A d, e \in Device : row[d] = row[e]
    /\ owed = [d \in Device |-> {}]
    /\ circulating = [k \in Key |-> {Published(row[d][k]) : d \in Device} \ {NoRow}]

\* Versions come into circulation from the devices that hold them, nowhere else.
NothingInvented ==
    \A k \in Key : circulating'[k] \subseteq
        circulating[k] \union {Published(row'[d][k]) : d \in Device}

\* d writes, under a clock of its own that no version in circulation carries.
Write(d, k) ==
    LET new == row'[d][k] IN
    /\ new # NoRow /\ new.ub = d
    /\ row[d][k] # NoRow => Newer(new, row[d][k])
    /\ \A c \in circulating[k] : ~SameClock(c, new)

\* d takes over a version that is new to it or newer than its own (of a dead one,
\* its death: what d keeps of the payload is its own business).
Adopt(d, k) ==
    LET new == row'[d][k] IN
    /\ Published(new) \in circulating[k]
    /\ row[d][k] # NoRow => Newer(new, row[d][k])

\* d starts a row under a clock that has no owner and that any other beats.
Begin(d, k) ==
    /\ row[d][k] = NoRow
    /\ row'[d][k] # NoRow /\ row'[d][k].ub = Nobody

\* d changes the content it will stamp next, and owes it a clock from now on.
Draft(d, k) ==
    LET old == row[d][k]  new == row'[d][k] IN
    /\ k \in owed'[d] \ owed[d]
    /\ old # NoRow /\ new # NoRow
    /\ SameClock(new, old) /\ new.deleted = old.deleted

\* No clock is owed that was not: one is paid, or forgotten.
NothingOwed(d, k) == k \in owed'[d] => k \in owed[d]

LwwNext ==
    /\ NothingInvented
    /\ \A d \in Device, k \in Key :
         \/ Begin(d, k)
         \/ Draft(d, k)
         \/ NothingOwed(d, k) /\ (Write(d, k) \/ Adopt(d, k) \/ row'[d][k] = row[d][k])

LwwSpec == LwwInit /\ [][LwwNext]_lwwVars

=============================================================================
