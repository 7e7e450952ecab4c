-------------------------------- MODULE Spine --------------------------------
(***************************************************************************)
(* The rows of table games as lists and cards read them: the numbers a     *)
(* game has of its own, the ones it takes from its original, when it was   *)
(* created, and PATCH /games/{id}, which sets, clears or leaves alone each *)
(* column (store/games.go, CreateDraft, CreateVariant, GameEdit;           *)
(* optional/optional.go).                                                  *)
(*                                                                         *)
(* Of the two ranges of a game, participants and duration, one stands for  *)
(* both: their columns and constraints are the same.  What publishing      *)
(* asks for, and what happens inside its transactions, is in module        *)
(* Catalog; here a game is published, or withdrawn, in one step.           *)
(***************************************************************************)
EXTENDS Naturals

CONSTANTS
    Games,          \* ids games.id can take, in the order of uuids
    Numbers,        \* what a client sends for a number
    MaxTime,        \* bound on the clock
    Seeded,         \* the published games at the start: original, lo, hi
    Null,           \* SQL's null, and no game
    Absent          \* a field a body does not name

ASSUME SpineAssumption ==
    /\ Games \subseteq Nat
    /\ Numbers \subseteq Nat
    /\ MaxTime \in Nat
    /\ Null \notin Nat /\ Absent \notin Nat /\ Null # Absent

VARIABLES
    publishState,   \* games.publish_state; "none": no row, "inserting": uncommitted
    original,       \* games.original_id
    createdAt,      \* games.created_at
    own,            \* games.min_participants (lo) and max_participants (hi)
    now             \* the clock

rows == <<publishState, original, createdAt, own, now>>

Columns == {"lo", "hi"}
Spines  == [Columns -> Numbers \cup {Null}]
\* Each field of a PATCH is not named, null, or a number.
Edits   == [Columns -> Numbers \cup {Null, Absent}]

NoSpine == [c \in Columns |-> Null]

Committed == {g \in Games : publishState[g] \in {"draft", "published"}}
Variants(o) == {g \in Games : original[g] = o}

(***************************************************************************)
(* The CHECKs of the table.  One over a null is not false, and passes.     *)
(***************************************************************************)
PositiveNumbers(s) == \A c \in Columns : s[c] # Null => s[c] > 0
RangeInOrder(s)    == s["lo"] # Null /\ s["hi"] # Null => s["lo"] <= s["hi"]
Complete(s)        == \A c \in Columns : s[c] # Null

RowAllowed(s, o) ==
    /\ PositiveNumbers(s)
    /\ RangeInOrder(s)
    /\ o = Null => Complete(s)

\* The rows at the start are rows the table allows.
ASSUME SeededAssumption ==
    /\ DOMAIN Seeded \subseteq Games
    /\ \A g \in DOMAIN Seeded :
        /\ Seeded[g].original # Null =>
            Seeded[g].original \in DOMAIN Seeded /\ Seeded[Seeded[g].original].original = Null
        /\ [c \in Columns |-> Seeded[g][c]] \in Spines
        /\ RowAllowed([c \in Columns |-> Seeded[g][c]], Seeded[g].original)

\* gameSource: the game's own value, or its original's.
Resolved(g) ==
    [c \in Columns |->
        IF own[g][c] # Null \/ original[g] = Null THEN own[g][c] ELSE own[original[g]][c]]

RowsInit ==
    /\ publishState = [g \in Games |-> IF g \in DOMAIN Seeded THEN "published" ELSE "none"]
    /\ original = [g \in Games |-> IF g \in DOMAIN Seeded THEN Seeded[g].original ELSE Null]
    /\ createdAt = [g \in Games |-> 0]
    /\ own = [g \in Games |->
                IF g \in DOMAIN Seeded
                THEN [c \in Columns |-> Seeded[g][c]]
                ELSE NoSpine]
    /\ now = 0

\* Two transactions that begin in one microsecond, or the rows of one seed,
\* have one created_at.
Tick ==
    /\ now < MaxTime
    /\ now' = now + 1
    /\ UNCHANGED <<publishState, original, createdAt, own>>

(***************************************************************************)
(* Creating.  created_at is now(), the start of the transaction: the game  *)
(* may become visible after younger ones.                                  *)
(***************************************************************************)
Insert(g, o, s) ==
    /\ publishState[g] = "none"
    /\ RowAllowed(s, o)
    /\ publishState' = [publishState EXCEPT ![g] = "inserting"]
    /\ original' = [original EXCEPT ![g] = o]
    /\ createdAt' = [createdAt EXCEPT ![g] = now]
    /\ own' = [own EXCEPT ![g] = s]
    /\ UNCHANGED now

CreateDraft(g, s) == Insert(g, Null, s)

\* Mutant: the foreign key is on the id alone.
CreateVariantOfVariant(g, o, s) ==
    /\ publishState[o] = "published"
    /\ Insert(g, o, s)

\* The foreign key takes a published game that is no variant, and holds its
\* key until the commit.
CreateVariant(g, o, s) ==
    /\ publishState[o] = "published"
    /\ original[o] = Null
    /\ Insert(g, o, s)

\* creditAuthor: the author's row and the commit.
CommitCreate(g) ==
    /\ publishState[g] = "inserting"
    /\ publishState' = [publishState EXCEPT ![g] = "draft"]
    /\ UNCHANGED <<original, createdAt, own, now>>

\* A statement fails, the time is up, the client is gone.
AbortCreate(g) ==
    /\ publishState[g] = "inserting"
    /\ publishState' = [publishState EXCEPT ![g] = "none"]
    /\ original' = [original EXCEPT ![g] = Null]
    /\ createdAt' = [createdAt EXCEPT ![g] = 0]
    /\ own' = [own EXCEPT ![g] = NoSpine]
    /\ UNCHANGED now

Publish(g) ==
    /\ publishState[g] = "draft"
    /\ publishState' = [publishState EXCEPT ![g] = "published"]
    /\ UNCHANGED <<original, createdAt, own, now>>

\* Refused while variants, committed or not, refer to the published game.
Unpublish(g) ==
    /\ publishState[g] = "published"
    /\ Variants(g) = {}
    /\ publishState' = [publishState EXCEPT ![g] = "draft"]
    /\ UNCHANGED <<original, createdAt, own, now>>

(***************************************************************************)
(* PATCH.                                                                  *)
(***************************************************************************)
\* GameEdit.assignments: only the named columns are in the SET clause.
Assigned(s, edit) == [c \in Columns |-> IF edit[c] = Absent THEN s[c] ELSE edit[c]]

\* Mutant: the order of a range is checked between the fields of the body.
EditGameUncheckedRange(g, edit) ==
    /\ g \in Committed
    /\ Absent \notin {edit[c] : c \in Columns} => RangeInOrder(edit)
    /\ PositiveNumbers(Assigned(own[g], edit))
    /\ original[g] = Null => Complete(Assigned(own[g], edit))
    /\ own' = [own EXCEPT ![g] = Assigned(@, edit)]
    /\ UNCHANGED <<publishState, original, createdAt, now>>

\* The UPDATE looks at the row as the one before it left it, so edits of
\* different columns at once are checked together.
EditGame(g, edit) ==
    /\ g \in Committed
    /\ RowAllowed(Assigned(own[g], edit), original[g])
    /\ own' = [own EXCEPT ![g] = Assigned(@, edit)]
    /\ UNCHANGED <<publishState, original, createdAt, now>>

Write ==
    \/ Tick
    \/ \E g \in Games :
        \/ \E s \in Spines : CreateDraft(g, s)
        \/ \E o \in Games, s \in Spines : CreateVariant(g, o, s)
        \/ CommitCreate(g) \/ AbortCreate(g)
        \/ Publish(g) \/ Unpublish(g)
        \/ \E edit \in Edits : EditGame(g, edit)

RowsSpec == RowsInit /\ [][Write]_rows

(***************************************************************************)
(* What the table promises whoever reads it.                               *)
(***************************************************************************)
\* Every column has its type.
RowsTypeOK ==
    /\ publishState \in [Games -> {"none", "inserting", "draft", "published"}]
    /\ original \in [Games -> Games \cup {Null}]
    /\ createdAt \in [Games -> 0..MaxTime]
    /\ own \in [Games -> Spines]
    /\ now \in 0..MaxTime

\* Every game shows numbers, a variant's own or its original's, whatever is
\* cleared of either afterwards: there is exactly one level to look up.
ResolvedIsComplete == \A g \in Committed : Complete(Resolved(g))

\* A card's range is the right way round unless a variant set one end of it
\* and takes the other from its original: the CHECK sees the own columns only.
RangesAreInOrder ==
    \A g \in Committed :
        RangeInOrder(Resolved(g)) \/ (original[g] # Null /\ ~Complete(own[g])
                                        /\ own[g] # NoSpine)
=============================================================================
