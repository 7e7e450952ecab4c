------------------------------- MODULE Catalog -------------------------------
(***************************************************************************)
(* The life of the games: drafts and variants are created, filled in,      *)
(* published and unpublished (store/games.go, CreateDraft, CreateVariant,  *)
(* setPublishState; api/games.go, handlePublishGame).                      *)
(*                                                                         *)
(* `publishState', `original' and `parts' hold what is committed.  Whoever *)
(* writes a game is one of its authors, and no route changes who that is:  *)
(* the authorship checks always pass here and are not modelled.            *)
(*                                                                         *)
(* The foreign key (original_id, original_is_variant,                      *)
(* original_publish_state) ties a variant to a row of games that is        *)
(* published and no variant.  PostgreSQL checks it from both sides: an     *)
(* INSERT of a variant takes the row of the original FOR KEY SHARE, and an *)
(* UPDATE of publish_state waits for those who share the key and looks for *)
(* rows that refer to the old one.                                         *)
(***************************************************************************)
CONSTANTS
    Games,          \* ids games.id can take
    Parts,          \* what publishPreconditions asks a game to have
    Requests,       \* HTTP requests that can be in progress at a time
    None            \* no id

ASSUME CatalogAssumption ==
    /\ None \notin Games
    /\ Parts \subseteq {"blocks", "categories", "description"}

VARIABLES
    publishState,   \* games.publish_state, "none" where there is no row
    original,       \* games.original_id
    parts,          \* which of Parts the game has
    req             \* what each HTTP request is in the middle of

games == <<publishState, original, parts>>
vars  == <<publishState, original, parts, req>>

States  == {"none", "draft", "published"}
Targets == {"draft", "published"}
\* What a game can be created with.
DraftParts == Parts \cap {"description"}

Steps   == {"idle", "checked", "setting", "visible", "inserted"}

(***************************************************************************)
(* A request: idle; publishing `game' once its parts were checked, or      *)
(* holding the row it sets to `target'; creating `game' as a variant of    *)
(* `from', which it saw, or whose key it shares since its INSERT.          *)
(***************************************************************************)
Idle == [pc |-> "idle", game |-> None, from |-> None, target |-> "draft", given |-> {}]

Publishing(step, g, target) ==
    [pc |-> step, game |-> g, from |-> None, target |-> target, given |-> {}]

Varying(step, g, o, given) ==
    [pc |-> step, game |-> g, from |-> o, target |-> "draft", given |-> given]

Becomes(r, record) == req' = [req EXCEPT ![r] = record]

Rollback(r) == Becomes(r, Idle) /\ UNCHANGED games

\* The UPDATE's row lock; it is on the key only if the key changes.
HoldsGame(r, g)  == req[r].pc = "setting" /\ req[r].game = g
ChangesKey(r, g) == HoldsGame(r, g) /\ req[r].target # publishState[g]

\* FOR KEY SHARE of a variant's original.
SharesKey(r, o)  == req[r].pc = "inserted" /\ req[r].from = o

\* A uuidv7 nobody has.
FreshGame(g) == publishState[g] = "none" /\ \A r \in Requests : req[r].game # g

Variants(o) == {g \in Games : original[g] = o}

Init ==
    /\ publishState = [g \in Games |-> "none"]
    /\ original = [g \in Games |-> None]
    /\ parts = [g \in Games |-> {}]
    /\ req = [r \in Requests |-> Idle]

(***************************************************************************)
(* POST /games: the game, its author and the commit.  Nothing of it is     *)
(* visible to anybody before, and nothing of it can wait.                  *)
(***************************************************************************)
CreateDraft(r, g, given) ==
    /\ req[r].pc = "idle"
    /\ FreshGame(g)
    /\ publishState' = [publishState EXCEPT ![g] = "draft"]
    /\ parts' = [parts EXCEPT ![g] = given]
    /\ UNCHANGED <<original, req>>

(***************************************************************************)
(* PATCH /games/{id}, PUT /games/{id}/blocks and /categories: the game has *)
(* the part from now on, or has it no more.  The description is in the row *)
(* of games, which may be held; new links need its key, which may be       *)
(* changing; to delete links is to wait for nobody.                        *)
(***************************************************************************)
FillPart(r, g, p) ==
    /\ req[r].pc = "idle"
    /\ publishState[g] # "none"
    /\ \A s \in Requests : ~ChangesKey(s, g) /\ (p = "description" => ~HoldsGame(s, g))
    /\ parts' = [parts EXCEPT ![g] = @ \cup {p}]
    /\ UNCHANGED <<publishState, original, req>>

EmptyPart(r, g, p) ==
    /\ req[r].pc = "idle"
    /\ publishState[g] # "none"
    /\ \A s \in Requests : p = "description" => ~HoldsGame(s, g)
    /\ parts' = [parts EXCEPT ![g] = @ \ {p}]
    /\ UNCHANGED <<publishState, original, req>>

(***************************************************************************)
(* Publishing and unpublishing.                                            *)
(***************************************************************************)
\* handlePublishGame: the preconditions, on a snapshot of the game read in a
\* transaction of its own.  A game that lacks a part is refused.
CheckPublish(r, g) ==
    /\ req[r].pc = "idle"
    /\ publishState[g] # "none"
    /\ Parts \subseteq parts[g]
    /\ Becomes(r, Publishing("checked", g, "published"))
    /\ UNCHANGED games

\* The UPDATE of publish_state gets the row once nobody else updates it and,
\* if it changes the key, once nobody shares that.
CanSet(r, g, target) ==
    /\ \A s \in Requests : ~HoldsGame(s, g)
    /\ target # publishState[g] => \A s \in Requests : ~SharesKey(s, g)

SetPublished(r) ==
    /\ req[r].pc = "checked"
    /\ CanSet(r, req[r].game, "published")
    /\ Becomes(r, Publishing("setting", req[r].game, "published"))
    /\ UNCHANGED games

\* Mutant: variants are counted before the row is locked.
SetDraftUnlocked(r, g) ==
    /\ req[r].pc = "idle"
    /\ publishState[g] # "none"
    /\ \A s \in Requests : ~HoldsGame(s, g)
    /\ Variants(g) = {}
    /\ Becomes(r, Publishing("setting", g, "draft"))
    /\ UNCHANGED games

\* handleUnpublishGame.  A published game variants refer to is ErrInUse.
SetDraft(r, g) ==
    /\ req[r].pc = "idle"
    /\ publishState[g] # "none"
    /\ CanSet(r, g, "draft")
    /\ publishState[g] = "published" => Variants(g) = {}
    /\ Becomes(r, Publishing("setting", g, "draft"))
    /\ UNCHANGED games

\* Mutant: a third state, for games that were withdrawn.
CommitStateArchived(r) ==
    /\ req[r].pc = "setting"
    /\ publishState' = [publishState EXCEPT ![req[r].game] =
                          IF @ = "published" /\ req[r].target = "draft"
                          THEN "archived" ELSE req[r].target]
    /\ Becomes(r, Idle)
    /\ UNCHANGED <<original, parts>>

CommitState(r) ==
    /\ req[r].pc = "setting"
    /\ publishState' = [publishState EXCEPT ![req[r].game] = req[r].target]
    /\ Becomes(r, Idle)
    /\ UNCHANGED <<original, parts>>

(***************************************************************************)
(* POST /games/{id}/variants.                                              *)
(***************************************************************************)
\* requireVisibleGame: a published game, or a draft of the caller's own.
BeginVariant(r, g, o, given) ==
    /\ req[r].pc = "idle"
    /\ FreshGame(g)
    /\ publishState[o] # "none"
    /\ Becomes(r, Varying("visible", g, o, given))
    /\ UNCHANGED games

\* Mutant: the foreign key is on the id alone; the state was looked at when
\* the game was found visible.
InsertVariantOfAny(r) ==
    /\ req[r].pc = "visible"
    /\ Becomes(r, Varying("inserted", req[r].game, req[r].from, req[r].given))
    /\ UNCHANGED games

\* The INSERT and its foreign key: a published original whose key somebody is
\* changing is waited for; one that is a draft, to other transactions still
\* or already, or a variant, is a violation, ErrInvalid.
InsertVariant(r) ==
    LET o == req[r].from IN
    /\ req[r].pc = "visible"
    /\ \/ /\ publishState[o] = "published" /\ original[o] = None
          /\ \A s \in Requests : ~ChangesKey(s, o)
          /\ Becomes(r, Varying("inserted", req[r].game, o, req[r].given))
          /\ UNCHANGED games
       \/ /\ publishState[o] # "published" \/ original[o] # None
          /\ Rollback(r)

\* Mutant: the draft is copied from its original, state and all, and the
\* variant inherits the original's own original.
CommitVariantPublished(r) ==
    /\ req[r].pc = "inserted"
    /\ publishState' = [publishState EXCEPT ![req[r].game] = "published"]
    /\ original' = [original EXCEPT ![req[r].game] = req[r].from]
    /\ parts' = [parts EXCEPT ![req[r].game] = req[r].given]
    /\ Becomes(r, Idle)

\* creditAuthor: the author and the commit.
CommitVariant(r) ==
    /\ req[r].pc = "inserted"
    /\ publishState' = [publishState EXCEPT ![req[r].game] = "draft"]
    /\ original' = [original EXCEPT ![req[r].game] = req[r].from]
    /\ parts' = [parts EXCEPT ![req[r].game] = req[r].given]
    /\ Becomes(r, Idle)

\* A statement fails, the time is up, the client or the connection is gone.
Abort(r) == req[r].pc # "idle" /\ Rollback(r)

Next ==
    \E r \in Requests :
        \/ \E g \in Games, given \in SUBSET DraftParts : CreateDraft(r, g, given)
        \/ \E g \in Games, p \in Parts : FillPart(r, g, p) \/ EmptyPart(r, g, p)
        \/ \E g \in Games : CheckPublish(r, g) \/ SetDraft(r, g)
        \/ \E g, o \in Games, given \in SUBSET DraftParts : BeginVariant(r, g, o, given)
        \/ SetPublished(r) \/ CommitState(r)
        \/ InsertVariant(r) \/ CommitVariant(r)
        \/ Abort(r)

Spec == Init /\ [][Next]_vars

(***************************************************************************)
(* What the shelf promises.                                                *)
(***************************************************************************)
\* Every variable has its type.
TypeOK ==
    /\ publishState \in [Games -> States]
    /\ original \in [Games -> Games \cup {None}]
    /\ parts \in [Games -> SUBSET Parts]
    /\ req \in [Requests -> [pc : Steps,
                             game : Games \cup {None},
                             from : Games \cup {None},
                             target : Targets,
                             given : SUBSET Parts]]

\* A variant's original is a published game that is not itself a variant,
\* however creating variants, publishing and unpublishing interleave.
OriginalsArePublished ==
    \A g \in Games : original[g] # None =>
        /\ publishState[original[g]] = "published"
        /\ original[original[g]] = None

\* Rows that are not there refer to nothing.
RowsAreWhole ==
    \A g \in Games : publishState[g] = "none" => original[g] = None /\ Variants(g) = {}

\* What a request found under its locks stays as it was.
RequestsKeepTheirGround ==
    \A r \in Requests :
        /\ req[r].pc \in {"checked", "setting"} =>
            req[r].game \in Games /\ publishState[req[r].game] # "none"
        /\ req[r].pc \in {"visible", "inserted"} =>
            /\ req[r].game \in Games /\ publishState[req[r].game] = "none"
            /\ req[r].from \in Games /\ publishState[req[r].from] # "none"
        /\ req[r].pc = "inserted" =>
            publishState[req[r].from] = "published" /\ original[req[r].from] = None
        /\ req[r].pc = "setting" /\ req[r].target = "draft" =>
            Variants(req[r].game) = {}

\* Two updates never have one row, and nobody shares a key that is changing.
LocksAreExclusive ==
    \A r, s \in Requests : \A g \in Games :
        /\ HoldsGame(r, g) /\ HoldsGame(s, g) => r = s
        /\ ~(ChangesKey(r, g) /\ SharesKey(s, g))
        /\ r # s /\ req[r].pc \in {"visible", "inserted"} => req[r].game # req[s].game

\* The inductive invariant.
IInv ==
    /\ TypeOK
    /\ OriginalsArePublished
    /\ RowsAreWhole
    /\ RequestsKeepTheirGround
    /\ LocksAreExclusive

\* Requests hidden, the tables are the shelf of module Shelf.
Front == INSTANCE Shelf WITH
    publishState <- publishState, original <- original, parts <- parts

ImplementsShelf == Front!Spec

\* A game goes from draft to published only while it has all its parts.
PublishesOnlyComplete == [][
    \A g \in Games : publishState[g] = "draft" /\ publishState'[g] = "published" =>
        Parts \subseteq parts[g]]_vars
=============================================================================
