---------------------------- MODULE Associations ----------------------------
(***************************************************************************)
(* The links of one game: its categories and its materials, each replaced  *)
(* as a set (PUT /games/{id}/categories, PUT /games/{id}/materials), and   *)
(* the flag that says it needs no material (PATCH no_materials)            *)
(* (store/games.go, EditGameCategories, EditGameMaterials and EditGame).   *)
(* Locations are replaced by the same statements as categories, on a table *)
(* of the same shape, and a category stands for either.                    *)
(*                                                                         *)
(* `links' and `noMaterials' hold what is committed.  The transactions run *)
(* at READ COMMITTED and are cut where a statement can wait: at every row  *)
(* it reaches and at the foreign-key checks at its end.                    *)
(***************************************************************************)
EXTENDS Naturals, FiniteSets

CONSTANTS
    Categories,     \* rows of categories (and of locations)
    Materials,      \* rows of materials
    Requests,       \* HTTP requests that can be editing at a time
    SeededLinks     \* the links the game has at the start

Items == Categories \cup Materials

ASSUME LinksAssumption == Categories \cap Materials = {} /\ SeededLinks \subseteq Items

VARIABLES
    links,          \* game_categories and game_materials: the linked ids
    noMaterials,    \* games.no_materials
    req             \* what each request is in the middle of

vars == <<links, noMaterials, req>>

Committed == <<links, noMaterials>>

(***************************************************************************)
(* A request: replacing a set, flagging the game, or idle.                 *)
(*   table    the ids the table it replaces can link                       *)
(*   asked    the set it was sent                                          *)
(*   todo     rows the DELETE's snapshot found and has not reached         *)
(*   left     ids the INSERT has not reached                               *)
(*   deleted, inserted, rewritten   rows it holds                          *)
(*   shares   it holds games FOR KEY SHARE: its foreign keys were checked  *)
(*   flag     the value of no_materials it writes                          *)
(*   alone    history: no other request was in progress beside it          *)
(***************************************************************************)
Idle == [pc |-> "idle", table |-> {}, asked |-> {}, todo |-> {}, left |-> {},
         deleted |-> {}, inserted |-> {}, rewritten |-> {}, shares |-> FALSE, flag |-> FALSE,
         alone |-> TRUE]

Becomes(r, record) == req' = [req EXCEPT ![r] = record]

\* A request starts beside those in progress, and they go on beside it.
Starts(r, record) ==
    req' = [s \in Requests |->
              IF s = r THEN record
              ELSE [req[s] EXCEPT !.alone = @ /\ req[s].pc = "idle"]]

Alone(r) == \A s \in Requests \ {r} : req[s].pc = "idle"

Replacing(r, table, asked, todo) ==
    [pc |-> "replacing", table |-> table, asked |-> asked, todo |-> todo, left |-> asked,
     deleted |-> {}, inserted |-> {}, rewritten |-> {}, shares |-> FALSE, flag |-> FALSE,
     alone |-> Alone(r)]

Flagging(r, flag) ==
    [pc |-> "flagging", table |-> {}, asked |-> {}, todo |-> {}, left |-> {},
     deleted |-> {}, inserted |-> {}, rewritten |-> {}, shares |-> FALSE, flag |-> flag,
     alone |-> Alone(r)]

\* A replace has got further with its rows.
Going(r, todo, left, deleted, inserted, rewritten) ==
    [pc |-> req[r].pc, table |-> req[r].table, asked |-> req[r].asked,
     todo |-> todo, left |-> left,
     deleted |-> deleted, inserted |-> inserted, rewritten |-> rewritten,
     shares |-> req[r].shares, flag |-> req[r].flag, alone |-> req[r].alone]

Rollback(r) == Becomes(r, Idle) /\ UNCHANGED Committed

\* The row locks and index entries other requests hold on a link.
Deleters(r, x) == {s \in Requests \ {r} : x \in req[s].deleted}
Holders(r, x)  == {s \in Requests \ {r} :
                     x \in req[s].deleted \cup req[s].inserted \cup req[s].rewritten}

\* Whoever is updating the game, and whoever is changing the key
\* (id, no_materials) foreign keys refer to; whoever shares that key.
Updaters(r)    == {s \in Requests \ {r} : req[s].pc = "flagging"}
KeyChangers(r) == {s \in Updaters(r) : req[s].flag # noMaterials}
Sharers(r)     == {s \in Requests \ {r} : req[s].shares}

Init ==
    /\ links = SeededLinks
    /\ noMaterials = (SeededLinks \cap Materials = {})
    /\ req = [r \in Requests |-> Idle]

(***************************************************************************)
(* Replacing a set.                                                        *)
(***************************************************************************)
\* Mutant: a nil slice, which PostgreSQL takes for NULL, and NOT (x = ANY
\* (NULL)) is not true of any row.
ReplaceNilIsNull(r, table, asked) ==
    /\ req[r].pc = "idle"
    /\ Starts(r, Replacing(r, table, asked,
                           IF asked = {} THEN {} ELSE (links \cap table) \ asked))
    /\ UNCHANGED Committed

\* Mutant: a DELETE that forgets which table it is for.
ReplaceEverywhere(r, table, asked) ==
    /\ req[r].pc = "idle"
    /\ Starts(r, Replacing(r, table, asked, links \ asked))
    /\ UNCHANGED Committed

\* The ids are known to the taxonomy.  The DELETE starts: its snapshot holds
\* the committed links.
Replace(r, table, asked) ==
    /\ req[r].pc = "idle"
    /\ Starts(r, Replacing(r, table, asked, (links \cap table) \ asked))
    /\ UNCHANGED Committed

\* The DELETE reaches a row of its snapshot, waiting for whoever holds it.
DeleteLink(r, x) ==
    /\ x \in req[r].todo
    /\ Holders(r, x) = {}
    /\ Becomes(r, Going(r, req[r].todo \ {x}, req[r].left,
                        req[r].deleted \cup {x}, req[r].inserted, req[r].rewritten))
    /\ UNCHANGED Committed

\* Mutant: DO NOTHING for materials too.
InsertLinkDoNothing(r, x) ==
    /\ req[r].todo = {}
    /\ x \in req[r].left
    /\ Holders(r, x) = {}
    /\ Becomes(r, Going(r, req[r].todo, req[r].left \ {x}, req[r].deleted,
                        req[r].inserted \cup ({x} \ links), req[r].rewritten))
    /\ UNCHANGED Committed

\* The INSERT reaches an id, waiting for whoever is inserting or deleting it.
\* ON CONFLICT, a category link is left alone, and not locked; a material
\* link is rewritten, and so held.
InsertLink(r, x) ==
    /\ req[r].todo = {}
    /\ x \in req[r].left
    /\ Holders(r, x) = {}
    /\ Becomes(r, Going(r, req[r].todo, req[r].left \ {x}, req[r].deleted,
                        req[r].inserted \cup ({x} \ links),
                        req[r].rewritten \cup ({x} \cap links \cap Materials)))
    /\ UNCHANGED Committed

\* Every row has been reached, and no new one waits for its foreign key.
Linked(r)   == req[r].pc = "replacing" /\ req[r].todo = {} /\ req[r].left = {}
Checked(r)  == req[r].inserted = {} \/ req[r].shares

\* Mutant: the foreign key on game_id alone.
CheckForeignKeyOnIdAlone(r) ==
    /\ Linked(r)
    /\ ~Checked(r)
    /\ KeyChangers(r) = {}
    /\ Becomes(r, [req[r] EXCEPT !.shares = TRUE])
    /\ UNCHANGED Committed

\* The foreign keys of the new links, at the end of the INSERT: the game is
\* looked up FOR KEY SHARE, for a material with no_materials = false in the
\* key.  A change of the key under way is waited for; a flagged game is a
\* violation, ErrInvalid, and not waited for.
CheckForeignKey(r) ==
    /\ Linked(r)
    /\ ~Checked(r)
    /\ \/ /\ req[r].inserted \cap Materials # {}
          /\ noMaterials
          /\ Rollback(r)
       \/ /\ req[r].inserted \cap Materials = {} \/ ~noMaterials
          /\ KeyChangers(r) = {}
          /\ Becomes(r, [req[r] EXCEPT !.shares = TRUE])
          /\ UNCHANGED Committed

\* A row that is gone for good is passed over by every DELETE that has it in
\* its snapshot, also when the id is linked again before the DELETE gets there.
CommitReplace(r) ==
    /\ Linked(r)
    /\ Checked(r)
    /\ links' = (links \ req[r].deleted) \cup req[r].inserted
    /\ req' = [s \in Requests |->
                 IF s = r THEN Idle ELSE [req[s] EXCEPT !.todo = @ \ req[r].deleted]]
    /\ UNCHANGED noMaterials

(***************************************************************************)
(* EditGame naming no_materials: one UPDATE.  It waits for other updates   *)
(* of the row, and for those who share its key when it changes the key.    *)
(***************************************************************************)
EditGame(r, flag) ==
    /\ req[r].pc = "idle"
    /\ Updaters(r) = {}
    /\ flag = noMaterials \/ Sharers(r) = {}
    /\ Starts(r, Flagging(r, flag))
    /\ UNCHANGED Committed

\* The materials still linked refer to the key that goes away when the flag
\* is raised.  The check waits for the ones being deleted.
Raises(r) == req[r].flag /\ ~noMaterials

EditGameInUse(r) ==
    /\ req[r].pc = "flagging"
    /\ Raises(r)
    /\ \E m \in links \cap Materials : Deleters(r, m) = {}
    /\ Rollback(r)

CommitEdit(r) ==
    /\ req[r].pc = "flagging"
    /\ Raises(r) => links \cap Materials = {}
    /\ noMaterials' = req[r].flag
    /\ Becomes(r, Idle)
    /\ UNCHANGED links

(***************************************************************************)
(* A transaction ends without committing: a statement fails, the time is   *)
(* up, the connection is lost, or PostgreSQL finds it waiting in a circle. *)
(***************************************************************************)
Abort(r) == req[r].pc # "idle" /\ Rollback(r)

\* Whom the statement r is in waits for.  A scan or an INSERT goes on with
\* the next row it can have: which row comes first is not ours to say.
WaitsFor(r) ==
    LET ahead == IF req[r].todo # {} THEN req[r].todo ELSE req[r].left IN
    CASE ahead # {} /\ (\A x \in ahead : Holders(r, x) # {}) ->
            UNION {Holders(r, x) : x \in ahead}
      [] Linked(r) /\ ~Checked(r) /\ ~(noMaterials /\ req[r].inserted \cap Materials # {}) ->
            KeyChangers(r)
      [] req[r].pc = "flagging" /\ Raises(r) ->
            UNION {Deleters(r, m) : m \in links \cap Materials}
      [] OTHER -> {}

\* Everyone in a circle waits for someone in it.
Deadlocked(r) ==
    \E circle \in SUBSET Requests :
        r \in circle /\ \A s \in circle : WaitsFor(s) \cap circle # {}

\* Mutant: nobody looks for circles.
DeadlockIgnored(r) == Deadlocked(r) /\ UNCHANGED vars

DeadlockVictim(r) == Deadlocked(r) /\ Rollback(r)

Statement(r) ==
    \/ \E x \in Items : DeleteLink(r, x) \/ InsertLink(r, x)
    \/ CheckForeignKey(r)
    \/ CommitReplace(r)
    \/ EditGameInUse(r)
    \/ CommitEdit(r)

Next ==
    \E r \in Requests :
        \/ \E asked \in SUBSET Categories : Replace(r, Categories, asked)
        \/ \E asked \in SUBSET Materials : Replace(r, Materials, asked)
        \/ \E flag \in BOOLEAN : EditGame(r, flag)
        \/ Statement(r)
        \/ Abort(r)
        \/ DeadlockVictim(r)

Spec == Init /\ [][Next]_vars

\* Statements whose locks are free run, lock queues are served in turn, and
\* the deadlock detector wakes up.
Fairness == \A r \in Requests : SF_vars(Statement(r)) /\ WF_vars(DeadlockVictim(r))

FairSpec == Spec /\ Fairness

(***************************************************************************)
(* What the tables promise.                                                *)
(***************************************************************************)
\* Every variable has its type, and a request holds rows of its table only.
TypeOK ==
    /\ links \subseteq Items
    /\ noMaterials \in BOOLEAN
    /\ req \in [Requests -> [pc : {"idle", "replacing", "flagging"},
                             table : {{}, Categories, Materials},
                             asked : SUBSET Items, todo : SUBSET Items, left : SUBSET Items,
                             deleted : SUBSET Items, inserted : SUBSET Items,
                             rewritten : SUBSET Items,
                             shares : BOOLEAN, flag : BOOLEAN, alone : BOOLEAN]]
    /\ \A r \in Requests :
        /\ req[r].todo \cup req[r].deleted \subseteq req[r].table \ req[r].asked
        /\ req[r].left \cup req[r].inserted \cup req[r].rewritten \subseteq req[r].asked
        /\ req[r].asked \subseteq req[r].table

\* A game that says it needs no material has none, whichever of a raised flag
\* and a new list of materials gets there first.
FlaggedGamesHaveNoMaterials == noMaterials => links \cap Materials = {}

\* The materials a list names are there when it commits: what it found linked
\* it rewrote, so nobody could unlink it in between.
ListedMaterialsStay == [][
    \A r \in Requests : req[r].table = Materials /\ CommitReplace(r) =>
        req[r].asked \subseteq links']_vars

\* A replace replaces: when it commits, the table holds the set it was sent
\* and nothing else - if nobody ran beside it, whatever earlier ones had left,
\* and the empty set too.  (Two at once leave the union of what they insert.)
ReplaceAloneIsExact == [][
    \A r \in Requests : req[r].pc = "replacing" /\ req[r].alone /\ CommitReplace(r) =>
        links' \cap req[r].table = req[r].asked]_vars

\* Under FairSpec an edit ends: a list that unlinks materials and then links
\* one, and a flag being raised, wait for each other, and one of them is told.
EditsEnd == \A r \in Requests : req[r].pc # "idle" ~> req[r].pc = "idle"
=============================================================================
