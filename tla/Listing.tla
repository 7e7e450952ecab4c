------------------------------- MODULE Listing -------------------------------
(***************************************************************************)
(* GET /games: a viewer reads the list, or the results of a search, page   *)
(* by page, while the rows of module Spine change (store/games.go,         *)
(* ListGames; store/search.go, SearchGames; api/params.go).                *)
(*                                                                         *)
(* Each page is one SELECT, on a snapshot of its own.  The list goes on    *)
(* after the key of the last row it showed; the search, whose order is by  *)
(* rank, after so many rows.  Filters on categories, locations and         *)
(* materials are conditions on the game like the one on participants and   *)
(* are left out; so are the authors of the games shown, who do not change. *)
(***************************************************************************)
EXTENDS Spine, FiniteSets, Sequences, SequencesExt

CONSTANTS
    Authored,           \* the games the viewer is an author of
    Ranks,              \* ts_rank_cd of the viewer's query; 0: no match
    FirstRank,          \* how the texts match it at the start
    DefaultGameLimit,
    MaxGameLimit,
    MaxGameSearchOffset,
    MaxWrites           \* bound on the steps of the writers

ASSUME ListingAssumption ==
    /\ Authored \subseteq Games
    /\ IsFiniteSet(Games)
    /\ Ranks \subseteq Nat /\ FirstRank \in [Games -> Ranks]
    /\ MaxGameLimit \in Nat /\ DefaultGameLimit \in 1..MaxGameLimit
    /\ MaxGameSearchOffset \in Nat
    /\ MaxWrites \in Nat

VARIABLES
    rank,           \* how the text of each game matches
    walk,           \* what the viewer is in the middle of
    writes          \* how many steps the writers took

vars == <<rows, rank, walk, writes>>

(***************************************************************************)
(* A walk through the pages: the `participants' it filters by (Null: any), *)
(* the place the next page starts at - a cursor of the list, the key of a  *)
(* row, or an offset -, and what it has `shown'.  History: the games that  *)
(* were in the result `throughout', and whether the result stayed `still'. *)
(***************************************************************************)
NoCursor  == [at |-> 0, id |-> Null]
Cursor(g) == [at |-> createdAt[g], id |-> g]

Idle == [phase |-> "idle", participants |-> Null, cursor |-> NoCursor, offset |-> 0,
         shown |-> <<>>, throughout |-> {}, still |-> TRUE]

\* gameVisibility.
Visible(g) == publishState[g] = "published" \/ (publishState[g] = "draft" /\ g \in Authored)

\* gameFilters; a null never satisfies a comparison.
Fits(g, p) ==
    p # Null =>
        /\ Complete(Resolved(g))
        /\ Resolved(g)["lo"] <= p
        /\ p <= Resolved(g)["hi"]

\* (created_at, id) < (cursor's).
KeyBelow(g, cursor) ==
    \/ createdAt[g] < cursor.at
    \/ createdAt[g] = cursor.at /\ g < cursor.id

\* ORDER BY created_at DESC, id DESC: the rows before each.
Newer == [g \in Games |-> {h \in Games : KeyBelow(g, Cursor(h))}]

\* ORDER BY rank DESC, created_at DESC, id DESC.
Better == [g \in Games |->
             {h \in Games : rank[h] > rank[g] \/ (rank[h] = rank[g] /\ h \in Newer[g])}]

\* How a set of rows reads: each after as many as come before it.
Ordered(before) ==
    [S \in SUBSET Games |->
        [i \in 1..Cardinality(S) |-> CHOOSE g \in S : Cardinality(S \cap before[g]) = i - 1]]

Listed(p) == {g \in Games : Visible(g) /\ Fits(g, p)}
Found(p)  == {g \in Listed(p) : rank[g] > 0}

List(p)   == Ordered(Newer)[Listed(p)]
Search(p) == Ordered(Better)[Found(p)]

\* Mutant: time alone, as if no two games were created at once.
FollowingTimeOnly(p, cursor) ==
    {g \in Listed(p) : cursor = NoCursor \/ createdAt[g] < cursor.at}

\* The rows of the list after a cursor.
Following(p, cursor) == {g \in Listed(p) : cursor = NoCursor \/ KeyBelow(g, cursor)}

\* What a walk in this phase would read if it read everything now.
ResultOf(phase, p) ==
    CASE phase \in {"listing", "listed"}   -> List(p)
      [] phase \in {"searching", "found"}  -> Search(p)
      [] OTHER                             -> <<>>

Result == ResultOf(walk.phase, walk.participants)

Init ==
    /\ RowsInit
    /\ rank = FirstRank
    /\ walk = Idle
    /\ writes = 0

(***************************************************************************)
(* The writers.                                                            *)
(***************************************************************************)
\* What they do to the result, the walk remembers.
ObserveResult ==
    \E w \in {walk} : \E result \in {ResultOf(w.phase, w.participants)'} :
        walk' = [w EXCEPT !.throughout = @ \cap ToSet(result),
                          !.still = @ /\ result = Result]

Observe ==
    /\ writes' = writes + 1
    /\ ObserveResult

WriteRows ==
    /\ writes < MaxWrites
    /\ Write
    /\ UNCHANGED rank
    /\ Observe

\* EditGame and EditGameBlocks, as far as a search sees them.
EditText(g, r) ==
    /\ writes < MaxWrites
    /\ g \in Committed
    /\ rank' = [rank EXCEPT ![g] = r]
    /\ UNCHANGED rows
    /\ Observe

(***************************************************************************)
(* The viewer.                                                             *)
(***************************************************************************)
Start(phase, p) ==
    LET started == [Idle EXCEPT !.phase = phase, !.participants = p] IN
    /\ walk.phase = "idle"
    /\ walk' = [started EXCEPT
                   !.throughout = ToSet(ResultOf(phase, p))]
    /\ UNCHANGED <<rows, rank, writes>>

\* parseLimitParam and the store: none asked for is the default, more than the
\* ceiling is refused.
LimitFor(asked) == IF asked = 0 THEN DefaultGameLimit ELSE asked

\* Mutant: the row that tells whether there is more is the next page's start.
ListGamesFromProbe(asked) ==
    LET limit == LimitFor(asked)
        rest  == Ordered(Newer)[Following(walk.participants, walk.cursor)]
        more  == Len(rest) > limit
        page  == IF more THEN SubSeq(rest, 1, limit) ELSE rest
    IN
    /\ walk.phase = "listing"
    /\ walk' = [walk EXCEPT !.phase = IF more THEN "listing" ELSE "listed",
                            !.cursor = IF more THEN Cursor(rest[limit + 1]) ELSE @,
                            !.shown = @ \o page]
    /\ UNCHANGED <<rows, rank, writes>>

\* One row more than the page is read, to tell whether there is a next one,
\* and dropped; the page's last row is the next one's cursor.
ListGames(asked) ==
    LET limit == LimitFor(asked)
        rest  == Ordered(Newer)[Following(walk.participants, walk.cursor)]
        more  == Len(rest) > limit
        page  == IF more THEN SubSeq(rest, 1, limit) ELSE rest
    IN
    /\ walk.phase = "listing"
    /\ walk' = [walk EXCEPT !.phase = IF more THEN "listing" ELSE "listed",
                            !.cursor = IF more THEN Cursor(page[limit]) ELSE @,
                            !.shown = @ \o page]
    /\ UNCHANGED <<rows, rank, writes>>

\* Mutant: whatever offset comes next.
FollowingUncapped(offset, limit) == TRUE

\* The next page is only offered up to the deepest offset the parser takes.
FollowingAllowed(offset, limit) == offset + limit <= MaxGameSearchOffset

SearchGames(asked) ==
    LET limit == LimitFor(asked)
        found == Search(walk.participants)
        rest  == SubSeq(found, walk.offset + 1, Len(found))
        more  == Len(rest) > limit /\ FollowingAllowed(walk.offset, limit)
        page  == IF Len(rest) > limit THEN SubSeq(rest, 1, limit) ELSE rest
    IN
    /\ walk.phase = "searching"
    /\ walk' = [walk EXCEPT !.phase = IF more THEN "searching" ELSE "found",
                            !.offset = IF more THEN @ + limit ELSE @,
                            !.shown = @ \o page]
    /\ UNCHANGED <<rows, rank, writes>>

Leave ==
    /\ walk.phase # "idle"
    /\ walk' = Idle
    /\ UNCHANGED <<rows, rank, writes>>

Next ==
    \/ WriteRows
    \/ \E g \in Games, r \in Ranks : EditText(g, r)
    \/ \E phase \in {"listing", "searching"}, p \in (Numbers \ {0}) \cup {Null} : Start(phase, p)
    \/ \E asked \in 0..MaxGameLimit : ListGames(asked) \/ SearchGames(asked)
    \/ Leave

Spec == Init /\ [][Next]_vars

(***************************************************************************)
(* What the pages promise.                                                 *)
(***************************************************************************)
\* Every variable has its type; what was shown has the length the ceilings
\* allow.
TypeOK ==
    /\ RowsTypeOK
    /\ rank \in [Games -> Ranks]
    /\ walk.phase \in {"idle", "listing", "listed", "searching", "found"}
    /\ walk.participants \in Numbers \cup {Null}
    /\ walk.cursor.id \in Games \cup {Null}
    /\ walk.offset \in 0..MaxGameSearchOffset
    /\ walk.shown \in Seq(Games)
    /\ walk.phase \in {"searching", "found"} =>
        Len(walk.shown) <= MaxGameSearchOffset + MaxGameLimit
    /\ walk.throughout \subseteq Games
    /\ walk.still \in BOOLEAN
    /\ writes \in 0..MaxWrites

\* A walk beside which nothing moved in its result has shown a prefix of it,
\* in its order and without repeats, and at its end all of it - or, in a
\* search, more rows than the deepest page may start at.
StillWalksAreExact ==
    walk.still =>
        /\ IsPrefix(walk.shown, Result)
        /\ walk.phase = "listed" => walk.shown = Result
        /\ walk.phase = "found" =>
            walk.shown = Result \/ Len(walk.shown) > MaxGameSearchOffset

Browsing == walk.phase \in {"listing", "listed"}

\* What a client of the list knows of it.
ClientPhase ==
    CASE walk.phase = "listing" -> "paging"
      [] walk.phase = "listed"  -> "complete"
      [] OTHER                  -> "idle"
ClientListed     == IF Browsing THEN Listed(walk.participants) ELSE {}
ClientShown      == IF Browsing THEN ToSet(walk.shown) ELSE {}
ClientThroughout == IF Browsing THEN walk.throughout ELSE {}

\* What it is promised.
Pages == INSTANCE Scan WITH
    Games <- Games, phase <- ClientPhase, listed <- ClientListed,
    shown <- ClientShown, throughout <- ClientThroughout

\* The list keeps the promise of module Scan, whatever is created, published,
\* withdrawn and edited between its pages: a game that is committed late, a
\* tie, a game that leaves the filter because its original was edited.
ImplementsScan == Pages!Spec
=============================================================================
