----------------------------- MODULE OrgDirectory -----------------------------
(***************************************************************************)
(* The organization directory (organization-directory): SQ Hub's copy of   *)
(* the people HCIS knows.  Each instance of the API pulls a whole snapshot *)
(* every five minutes, for the business date of its clock; what HCIS       *)
(* answers may change, with or without a new revision, while it travels.   *)
(* Consumers page through the copy.  Units and positions are handled as    *)
(* people are.                                                             *)
(***************************************************************************)
EXTENDS Naturals, FiniteSets, FiniteSetsExt

CONSTANTS
    Instance,    \* API processes that run the scheduler
    Member,      \* people, their ids in order
    Reader,      \* consumers that page through a list
    PageSize,    \* limit of a query
    MaxEdits, MaxRevision, MaxDay  \* bounds

ASSUME DirectoryAssumption ==
    /\ "nobody" \notin Instance
    /\ Member \subseteq Nat \ {0} /\ IsFiniteSet(Member)
    /\ {PageSize, MaxEdits, MaxRevision, MaxDay} \subseteq Nat \ {0}

VARIABLES
    hcis,        \* what HCIS would answer, and the number of changes that led to it
    today,       \* the business date in Jakarta
    run,         \* instance -> its synchronization
    lock,        \* holder of the advisory lock, by its connection
    projection,  \* organization_directory_projection
    list         \* reader -> the pages it has

directoryVars == <<hcis, today, run, lock, projection, list>>

RunStatus == {"absent", "active", "inactive"}
Free == "nobody"

\* What a snapshot says; its version is a digest of exactly this.
Content == [asOf : 0..MaxDay, revision : 0..MaxRevision, people : [Member -> RunStatus]]
NoContent == [asOf |-> 0, revision |-> 0, people |-> [m \in Member |-> "absent"]]

NoProjection == [of |-> NoContent, edit |-> 0, gone |-> {}]
NoRun == [pc |-> "idle", asOf |-> 0, previous |-> NoProjection, of |-> NoContent, edit |-> 0]
NoList == [pc |-> "start", kind |-> "active", version |-> NoContent, after |-> 0, got |-> {}]

DirectoryInit ==
    /\ hcis = [edit |-> 1, revision |-> 1, people |-> [m \in Member |-> "active"]]
    /\ today = 1
    /\ run = [i \in Instance |-> NoRun]
    /\ lock = Free
    /\ projection = NoProjection
    /\ list \in [Reader -> {[NoList EXCEPT !.kind = k] : k \in {"active", "inactive"}}]

\* There is a row once a first snapshot is applied.
Stored(row) == row.edit > 0

-----------------------------------------------------------------------------
(* HCIS. *)

\* People change with a new revision, under the same one, or with an older one
\* that is brought back.
HcisChanges ==
    /\ hcis.edit < MaxEdits
    /\ \E r \in {hcis.revision, hcis.revision + 1, hcis.revision - 1} \cap (1..MaxRevision), m \in Member, s \in RunStatus :
          hcis' = [edit |-> hcis.edit + 1, revision |-> r, people |-> [hcis.people EXCEPT ![m] = s]]
    /\ UNCHANGED <<today, run, lock, projection, list>>

Midnight ==
    /\ today < MaxDay
    /\ today' = today + 1
    /\ UNCHANGED <<hcis, run, lock, projection, list>>

-----------------------------------------------------------------------------
(* One synchronization. *)

StartRun(i) ==
    /\ run[i].pc = "idle"
    /\ run' = [run EXCEPT ![i] = [NoRun EXCEPT !.pc = "begin", !.asOf = today]]
    /\ UNCHANGED <<hcis, today, lock, projection, list>>

\* Mutant: the lock is left for the write.
LockAtWrite(i) == run[i].pc = "begin" /\ UNCHANGED lock

TakeLock(i) ==
    /\ run[i].pc = "begin"
    /\ lock = Free
    /\ lock' = i

\* The lock is taken before the snapshot is asked for.
BeginPull(i) ==
    /\ TakeLock(i)
    /\ run' = [run EXCEPT ![i].pc = "pull", ![i].previous = projection]
    /\ UNCHANGED <<hcis, today, projection, list>>

\* Another instance holds the lock.
SkipRun(i) ==
    /\ run[i].pc = "begin" /\ lock # Free
    /\ run' = [run EXCEPT ![i] = NoRun]
    /\ UNCHANGED <<hcis, today, lock, projection, list>>

\* HCIS answers; the answer has yet to arrive and to be validated.
HcisAnswers(i) ==
    /\ run[i].pc = "pull"
    /\ run' = [run EXCEPT ![i].pc = "pulled", ![i].edit = hcis.edit,
                          ![i].of = [asOf |-> run[i].asOf, revision |-> hcis.revision, people |-> hcis.people]]
    /\ UNCHANGED <<hcis, today, lock, projection, list>>

\* assertNoRegression: an older date, or an older revision.
Regresses(next, previous) == next.asOf < previous.asOf \/ next.revision < previous.revision

\* The row that remains of what the source no longer mentions.
Tombstones(previous, next) ==
    {m \in Member : (previous.of.people[m] # "absent" \/ m \in previous.gone) /\ next.people[m] = "absent"}

\* UNCHANGED, and only synchronized_at moves, or APPLIED; the COMMIT frees the lock.
Apply(i) ==
    /\ run[i].pc = "pulled"
    /\ ~(Stored(run[i].previous) /\ Regresses(run[i].of, run[i].previous.of))
    /\ projection' = IF Stored(run[i].previous) /\ run[i].previous.of = run[i].of
                     THEN [projection EXCEPT !.edit = run[i].edit]
                     ELSE [of |-> run[i].of, edit |-> run[i].edit, gone |-> Tombstones(run[i].previous, run[i].of)]
    /\ lock' = IF lock = i THEN Free ELSE lock
    /\ run' = [run EXCEPT ![i] = NoRun]
    /\ UNCHANGED <<hcis, today, list>>

\* No token, no or an unusable answer, a contract that is broken, a regression, or a
\* statement that fails: the transaction is rolled back.  After a request that HCIS
\* calls wrong the scheduler stops.
FailRun(i) ==
    /\ run[i].pc \in {"pull", "pulled"}
    /\ \E next \in {"idle", "stopped"} :
          /\ next = "stopped" => run[i].pc = "pull"
          /\ run' = [run EXCEPT ![i] = [NoRun EXCEPT !.pc = next]]
    /\ lock' = IF lock = i THEN Free ELSE lock
    /\ UNCHANGED <<hcis, today, projection, list>>

\* The connection is lost during the pull, and the lock with it.
LoseConnection(i) ==
    /\ run[i].pc \in {"pull", "pulled"}
    /\ run' = [run EXCEPT ![i].pc = "cut"]
    /\ lock' = IF lock = i THEN Free ELSE lock
    /\ UNCHANGED <<hcis, today, projection, list>>

\* Nothing can be stored on it; the next run takes another one.
FindConnectionLost(i) ==
    /\ run[i].pc = "cut"
    /\ run' = [run EXCEPT ![i] = NoRun]
    /\ UNCHANGED <<hcis, today, lock, projection, list>>

\* The process stops and starts again.
Restart(i) ==
    /\ run[i].pc # "idle"
    /\ run' = [run EXCEPT ![i] = NoRun]
    /\ lock' = IF lock = i THEN Free ELSE lock
    /\ UNCHANGED <<hcis, today, projection, list>>

-----------------------------------------------------------------------------
(* Consumers. *)

\* GET /people: the tombstones are inactive people.
Listed(kind) ==
    {m \in Member : projection.of.people[m] = kind} \cup (IF kind = "inactive" THEN projection.gone ELSE {})

\* Mutant: the cursor is an id alone.
CursorOfAnyVersion(r) == TRUE

\* The cursor carries the version its page was taken from.
CursorHolds(r) == list[r].pc = "next" => list[r].version = projection.of

PageOf(r) ==
    LET rest == {m \in Listed(list[r].kind) : m > list[r].after}
    IN {m \in rest : Cardinality({k \in rest : k <= m}) <= PageSize}

ReadPage(r) ==
    /\ list[r].pc \in {"start", "next"} /\ Stored(projection) /\ CursorHolds(r)
    /\ LET page == PageOf(r)
           more == \E m \in Listed(list[r].kind) \ page : m > list[r].after
       IN list' = [list EXCEPT ![r].pc = IF more THEN "next" ELSE "done",
                               ![r].version = projection.of,
                               ![r].after = IF more THEN Max(page) ELSE 0,
                               ![r].got = @ \cup page]
    /\ UNCHANGED <<hcis, today, run, lock, projection>>

\* INVALID_REQUEST: the consumer begins again.
CursorRefused(r) ==
    /\ list[r].pc = "next" /\ ~CursorHolds(r)
    /\ list' = [list EXCEPT ![r] = [NoList EXCEPT !.kind = list[r].kind]]
    /\ UNCHANGED <<hcis, today, run, lock, projection>>

DirectoryNext ==
    \/ HcisChanges \/ Midnight
    \/ \E i \in Instance :
          \/ StartRun(i) \/ BeginPull(i) \/ SkipRun(i) \/ HcisAnswers(i) \/ Apply(i) \/ FailRun(i)
          \/ LoseConnection(i) \/ FindConnectionLost(i) \/ Restart(i)
    \/ \E r \in Reader : ReadPage(r) \/ CursorRefused(r)

DirectorySpec == DirectoryInit /\ [][DirectoryNext]_directoryVars

-----------------------------------------------------------------------------
(* Properties. *)

Rows == [of : Content, edit : 0..MaxEdits, gone : SUBSET Member]
RunPcs == {"idle", "begin", "pull", "pulled", "cut", "stopped"}
Runs == [pc : RunPcs, asOf : 0..MaxDay, previous : Rows, of : Content, edit : 0..MaxEdits]
ListPcs == {"start", "next", "done"}
Lists == [pc : ListPcs, kind : RunStatus, version : Content, after : Member \cup {0}, got : SUBSET Member]

DirectoryTypeOK ==
    /\ hcis \in [edit : 1..MaxEdits, revision : 1..MaxRevision, people : [Member -> RunStatus]]
    /\ today \in 1..MaxDay
    /\ run \in [Instance -> Runs]
    /\ lock \in Instance \cup {Free}
    /\ projection \in Rows
    /\ list \in [Reader -> Lists]

\* The copy never goes back: not to an earlier date, not to an older revision, and,
\* within one revision, not to what HCIS had answered before what is shown, however
\* long an answer was under way and whichever instance asked for it; and nobody it
\* has shown vanishes without a tombstone.
DirectoryMovesForward ==
    [][/\ projection'.edit >= projection.edit
       /\ projection'.of.asOf >= projection.of.asOf /\ projection'.of.revision >= projection.of.revision
       /\ \A m \in Member : projection.of.people[m] # "absent" \/ m \in projection.gone =>
             projection'.of.people[m] # "absent" \/ m \in projection'.gone
      ]_directoryVars

\* A consumer that has come to the last page has, of the people its version
\* mentions, exactly those it asked for, whatever was stored between two pages.
PagesOfOneVersion ==
    \A r \in Reader : list[r].pc = "done" =>
        \A m \in Member : list[r].version.people[m] # "absent" =>
            (m \in list[r].got <=> list[r].version.people[m] = list[r].kind)
=============================================================================
