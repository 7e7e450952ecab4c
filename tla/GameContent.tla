----------------------------- MODULE GameContent -----------------------------
(***************************************************************************)
(* One game being edited by several requests at once: its text (PATCH      *)
(* /games/{id}), its list of blocks (PUT /games/{id}/blocks) and the       *)
(* search document the triggers of migrations/00001_init.sql keep for it   *)
(* (store/games.go, EditGame and EditGameBlocks).                          *)
(*                                                                         *)
(* `text', `blocks' and `document' hold what is committed.  A transaction  *)
(* sees that overlaid with its own writes, statement by statement (READ    *)
(* COMMITTED), holds every row it has written until it ends, and waits for *)
(* the rows another one holds.  The content of a block stands for its type *)
(* and content columns, a text for title and description; what matters of  *)
(* either is who wrote it last.                                            *)
(***************************************************************************)
EXTENDS Naturals, Sequences, FiniteSets

CONSTANTS
    BlockIds,       \* ids blocks.id can take
    Requests,       \* HTTP requests that can be editing at a time
    SeededList,     \* the blocks the game has at the start, in order
    Spellings,      \* ways a client writes one uuid (case, braces, hyphens)
    MaxLength,      \* bound: the longest list a client sends
    None            \* no row; no value

Authors   == Requests \cup {"seed"}
Rows      == [content : Authors, position : Nat]
Documents == [text : Authors, body : SUBSET (Authors \X Nat)]

ASSUME ContentAssumption ==
    /\ SeededList \in Seq(BlockIds)
    /\ \A i, k \in 1..Len(SeededList) : SeededList[i] = SeededList[k] => i = k
    /\ MaxLength \in Nat
    /\ Spellings # {}
    /\ None \notin BlockIds \cup Requests
    /\ IsFiniteSet(BlockIds)

\* No row is not a row, and no value not a document.
ASSUME NoneAssumption == None \notin Rows \cup Documents

VARIABLES
    text,           \* games.title and games.description
    blocks,         \* the table blocks: id |-> row or None
    document,       \* game_search.document
    edit            \* what each request is in the middle of

vars == <<text, blocks, document, edit>>

\* An entry of the list a client sends: the id as it is spelt, or no id.
New      == <<None, None>>
Entries  == (BlockIds \X Spellings) \cup {New}

Present(rows) == {b \in BlockIds : rows[b] # None}

\* refresh_game_search: the text and the contents in position order.
DocumentOf(t, rows) ==
    [text |-> t,
     body |-> {<<rows[b].content,
                 Cardinality({c \in Present(rows) : rows[c].position < rows[b].position})>> :
               b \in Present(rows)}]

\* editGameBlocksRequest.validate: no entry twice.  Ids are compared as the
\* strings the client sent, so two spellings of one id are two entries.
ValidList(list) ==
    \A i, k \in 1..Len(list) : list[i] = list[k] => i = k \/ list[i] = New

Lists == {list \in UNION {[1..n -> Entries] : n \in 0..MaxLength} : ValidList(list)}

Kept(list) == {b \in BlockIds : \E i \in 1..Len(list) : list[i][1] = b}

(***************************************************************************)
(* A request: idle, in a statement, or about to write game_search.         *)
(*   list, at   the blocks asked for and how many are written              *)
(*   todo       rows the DELETE's snapshot found and has not reached       *)
(*   text       the text it has written, or None                           *)
(*   touched    the blocks it has written, as they are in `mine'           *)
(*   doubtful   those that met another row at their position               *)
(*   triggers   refresh_game_search calls the last statement still owes    *)
(*   found      the document the running call has computed, or None        *)
(*   document   the document it has written, or None                       *)
(*   alone      history: no other request was in progress beside it        *)
(***************************************************************************)
NoRows == [b \in BlockIds |-> None]

Idle == [pc |-> "idle", list |-> <<>>, at |-> 0, todo |-> {}, text |-> None,
         touched |-> {}, doubtful |-> {}, mine |-> NoRows,
         triggers |-> 0, found |-> None, document |-> None, alone |-> TRUE]

Sees(r) == [b \in BlockIds |-> IF b \in edit[r].touched THEN edit[r].mine[b] ELSE blocks[b]]

SeesText(r) == IF edit[r].text = None THEN text ELSE edit[r].text

\* Row locks other requests hold on a block, on games and on game_search.
BlockHolders(r, b)  == {s \in Requests \ {r} : b \in edit[s].touched}
GameHolders(r)      == {s \in Requests \ {r} : edit[s].text # None}
DocumentHolders(r)  == {s \in Requests \ {r} : edit[s].document # None}

\* A uuidv7 nobody has seen.
Fresh(b) ==
    /\ blocks[b] = None
    /\ \A s \in Requests : b \notin edit[s].touched \cup Kept(edit[s].list)

Becomes(r, record) == edit' = [edit EXCEPT ![r] = record]

\* A request starts beside those in progress, and they go on beside it.
Starts(r, record) ==
    edit' = [s \in Requests |->
               IF s = r THEN record
               ELSE [edit[s] EXCEPT !.alone = @ /\ edit[s].pc = "idle"]]

Starting(r, list, todo, newText, triggers) ==
    [pc |-> "statement", list |-> list, at |-> 0, todo |-> todo, text |-> newText,
     touched |-> {}, doubtful |-> {}, mine |-> NoRows,
     triggers |-> triggers, found |-> None, document |-> None,
     alone |-> \A s \in Requests \ {r} : edit[s].pc = "idle"]

\* A statement on blocks has got further.
Writing(r, at, todo, touched, doubtful, mine, triggers) ==
    [pc |-> "statement", list |-> edit[r].list, at |-> at, todo |-> todo, text |-> edit[r].text,
     touched |-> touched, doubtful |-> doubtful, mine |-> mine,
     triggers |-> triggers, found |-> None, document |-> edit[r].document,
     alone |-> edit[r].alone]

\* So has a trigger.
Refreshing(r, pc, triggers, found, newDocument) ==
    [pc |-> pc, list |-> edit[r].list, at |-> edit[r].at, todo |-> edit[r].todo,
     text |-> edit[r].text, touched |-> edit[r].touched, doubtful |-> edit[r].doubtful,
     mine |-> edit[r].mine, triggers |-> triggers, found |-> found,
     document |-> newDocument, alone |-> edit[r].alone]

\* Row versions at a position: committed ones r has not replaced, and those
\* other transactions have written.  The transactions that still decide
\* whether they will be there.
CommittedAt(r, p) ==
    {b \in BlockIds \ edit[r].touched : blocks[b] # None /\ blocks[b].position = p}
WritersAt(r, p) ==
    {s \in Requests \ {r} : \E b \in edit[s].touched :
        edit[s].mine[b] # None /\ edit[s].mine[b].position = p}
DecidersAt(r, p) == WritersAt(r, p) \cup UNION {BlockHolders(r, b) : b \in CommittedAt(r, p)}

\* INSERT or UPDATE of one block.  blocks_game_position_key is deferred: an
\* entry already there is neither waited for nor an error, it is looked at
\* again at COMMIT.
WriteBlock(r, b, p, calls) ==
    Becomes(r, Writing(r, edit[r].at + 1, edit[r].todo,
        edit[r].touched \cup {b},
        IF CommittedAt(r, p) \ {b} # {} \/ WritersAt(r, p) # {}
        THEN edit[r].doubtful \cup {b} ELSE edit[r].doubtful \ {b},
        [edit[r].mine EXCEPT ![b] = [content |-> r, position |-> p]],
        calls))

Committed == <<text, blocks, document>>

Rollback(r) == Becomes(r, Idle) /\ UNCHANGED Committed

Init ==
    /\ text = "seed"
    /\ blocks = [b \in BlockIds |->
                   IF \E i \in 1..Len(SeededList) : SeededList[i] = b
                   THEN [content |-> "seed",
                         position |-> (CHOOSE i \in 1..Len(SeededList) : SeededList[i] = b) - 1]
                   ELSE None]
    /\ document = DocumentOf(text, blocks)
    /\ edit = [r \in Requests |-> Idle]

(***************************************************************************)
(* EditGame: one UPDATE of the row, which fires the trigger of games once. *)
(* (A PATCH that names neither title nor description fires nothing and     *)
(* changes nothing modelled here.)                                         *)
(***************************************************************************)
EditGame(r) ==
    /\ edit[r].pc = "idle"
    /\ GameHolders(r) = {}
    /\ Starts(r, Starting(r, <<>>, {}, r, 1))
    /\ UNCHANGED Committed

(***************************************************************************)
(* EditGameBlocks.                                                         *)
(***************************************************************************)
\* The DELETE starts: its snapshot holds the committed rows.
EditGameBlocks(r, list) ==
    /\ edit[r].pc = "idle"
    /\ Starts(r, Starting(r, list, Present(blocks) \ Kept(list), None, 0))
    /\ UNCHANGED Committed

\* A row that is gone by then is passed over.
DeleteRow(r, b, calls) ==
    Becomes(r, Writing(r, edit[r].at, edit[r].todo \ {b},
        IF blocks[b] = None THEN edit[r].touched ELSE edit[r].touched \cup {b},
        edit[r].doubtful, edit[r].mine,
        IF blocks[b] = None THEN edit[r].triggers ELSE edit[r].triggers + calls))

\* Mutant: a trigger AFTER INSERT OR UPDATE only.
DeleteBlockSilently(r, b) ==
    /\ edit[r].pc = "statement"
    /\ b \in edit[r].todo
    /\ BlockHolders(r, b) = {}
    /\ DeleteRow(r, b, 0)
    /\ UNCHANGED Committed

\* It reaches a row of its snapshot, waiting for whoever has it.
DeleteBlock(r, b) ==
    /\ edit[r].pc = "statement"
    /\ b \in edit[r].todo
    /\ BlockHolders(r, b) = {}
    /\ DeleteRow(r, b, 1)
    /\ UNCHANGED Committed

\* The last statement is over and its triggers have run.
Ready(r) == edit[r].pc = "statement" /\ edit[r].todo = {} /\ edit[r].triggers = 0

NextEntry(r) == edit[r].list[edit[r].at + 1]

\* INSERT of an entry without an id, at the place it has in the list.
InsertBlock(r, b) ==
    /\ Ready(r)
    /\ edit[r].at < Len(edit[r].list)
    /\ NextEntry(r) = New
    /\ Fresh(b)
    /\ WriteBlock(r, b, edit[r].at, 1)
    /\ UNCHANGED Committed

\* Mutant: kept blocks are numbered from minus one.
UpdateBlockFromMinusOne(r) ==
    /\ Ready(r)
    /\ edit[r].at < Len(edit[r].list)
    /\ NextEntry(r) # New
    /\ LET b == NextEntry(r)[1] IN
       \/ /\ Sees(r)[b] = None
          /\ Rollback(r)
       \/ /\ Sees(r)[b] # None
          /\ BlockHolders(r, b) = {}
          /\ WriteBlock(r, b, edit[r].at - 1, 2)
          /\ UNCHANGED Committed

\* UPDATE of an entry with an id.  Its trigger refreshes for the old game_id
\* and for the new one, which are the same game.  No row is an
\* UnknownBlockError, and the transaction is over.
UpdateBlock(r) ==
    /\ Ready(r)
    /\ edit[r].at < Len(edit[r].list)
    /\ NextEntry(r) # New
    /\ LET b == NextEntry(r)[1] IN
       \/ /\ Sees(r)[b] = None
          /\ Rollback(r)
       \/ /\ Sees(r)[b] # None
          /\ BlockHolders(r, b) = {}
          /\ WriteBlock(r, b, edit[r].at, 2)
          /\ UNCHANGED Committed

(***************************************************************************)
(* refresh_game_search, once per trigger call at the end of the statement: *)
(* the SELECT computes the document from a snapshot of its own, then the   *)
(* upsert waits for the row of game_search and writes what was computed.   *)
(***************************************************************************)
\* Mutant: a STABLE function, which reads the snapshot of the statement that
\* fired it and misses what that statement wrote.
ComputeDocumentStable(r) ==
    /\ edit[r].pc = "statement"
    /\ edit[r].todo = {}
    /\ edit[r].triggers > 0
    /\ Becomes(r, Refreshing(r, "upsert", edit[r].triggers, DocumentOf(text, blocks),
                             edit[r].document))
    /\ UNCHANGED Committed

ComputeDocument(r) ==
    /\ edit[r].pc = "statement"
    /\ edit[r].todo = {}
    /\ edit[r].triggers > 0
    /\ Becomes(r, Refreshing(r, "upsert", edit[r].triggers,
                             DocumentOf(SeesText(r), Sees(r)), edit[r].document))
    /\ UNCHANGED Committed

UpsertDocument(r) ==
    /\ edit[r].pc = "upsert"
    /\ DocumentHolders(r) = {}
    /\ Becomes(r, Refreshing(r, "statement", edit[r].triggers - 1, None, edit[r].found))
    /\ UNCHANGED Committed

(***************************************************************************)
(* COMMIT, where the doubtful positions are looked at again: a row another *)
(* transaction is writing or removing there is waited for, a row that      *)
(* stays is ErrConflict.  A request never has two rows of its own at one   *)
(* position: they are their places in its list.                            *)
(***************************************************************************)
Finished(r) == Ready(r) /\ edit[r].at = Len(edit[r].list)

Doubts(r) == {edit[r].mine[b].position : b \in edit[r].doubtful}

\* Mutant: the positions were checked when they were written, against what
\* was committed by then.
CommitUnchecked(r) ==
    /\ Finished(r)
    /\ text' = SeesText(r)
    /\ blocks' = Sees(r)
    /\ document' = IF edit[r].document = None THEN document ELSE edit[r].document
    /\ Becomes(r, Idle)

Commit(r) ==
    /\ Finished(r)
    /\ \A p \in Doubts(r) : DecidersAt(r, p) = {}
    /\ \/ /\ \A p \in Doubts(r) : CommittedAt(r, p) = {}
          /\ text' = SeesText(r)
          /\ blocks' = Sees(r)
          /\ document' = IF edit[r].document = None THEN document ELSE edit[r].document
          /\ Becomes(r, Idle)
       \/ /\ \E p \in Doubts(r) : CommittedAt(r, p) # {}
          /\ Rollback(r)

(***************************************************************************)
(* A transaction ends without committing: a statement fails, the time is   *)
(* up, the connection is lost, or PostgreSQL finds it waiting in a circle. *)
(***************************************************************************)
Abort(r) == edit[r].pc # "idle" /\ Rollback(r)

\* Whom the statement r is in waits for.
WaitsFor(r) ==
    CASE edit[r].pc = "upsert" -> DocumentHolders(r)
      [] edit[r].pc = "statement" /\ edit[r].todo # {} ->
            IF \E b \in edit[r].todo : BlockHolders(r, b) = {}
            THEN {} ELSE UNION {BlockHolders(r, b) : b \in edit[r].todo}
      [] Ready(r) /\ edit[r].at < Len(edit[r].list) ->
            IF NextEntry(r) # New /\ blocks[NextEntry(r)[1]] # None
            THEN BlockHolders(r, NextEntry(r)[1]) ELSE {}
      [] Finished(r) -> UNION {DecidersAt(r, p) : p \in Doubts(r)}
      [] OTHER -> {}

\* Everyone in a circle waits for someone in it.
Deadlocked(r) ==
    \E circle \in SUBSET Requests :
        r \in circle /\ \A s \in circle : WaitsFor(s) \cap circle # {}

\* Mutant: nobody looks for circles.
DeadlockIgnored(r) == Deadlocked(r) /\ UNCHANGED vars

DeadlockVictim(r) == Deadlocked(r) /\ Rollback(r)

Statement(r) ==
    \/ \E b \in BlockIds : DeleteBlock(r, b) \/ InsertBlock(r, b)
    \/ UpdateBlock(r)
    \/ ComputeDocument(r)
    \/ UpsertDocument(r)
    \/ Commit(r)

Next ==
    \E r \in Requests :
        \/ EditGame(r)
        \/ \E list \in Lists : EditGameBlocks(r, list)
        \/ Statement(r)
        \/ Abort(r)
        \/ DeadlockVictim(r)

Spec == Init /\ [][Next]_vars

\* Statements whose locks are free run, lock queues are served in turn, and
\* the deadlock detector wakes up.
Fairness == \A r \in Requests : SF_vars(Statement(r)) /\ WF_vars(DeadlockVictim(r))

FairSpec == Spec /\ Fairness

(***************************************************************************)
(* What the tables promise.                                                *)
(***************************************************************************)
\* Every variable has its type.
TypeOK ==
    /\ text \in Authors
    /\ blocks \in [BlockIds -> Rows \cup {None}]
    /\ document \in Documents
    /\ \A r \in Requests :
        /\ edit[r].pc \in {"idle", "statement", "upsert"}
        /\ edit[r].at \in 0..Len(edit[r].list)
        /\ edit[r].todo \cup edit[r].touched \subseteq BlockIds
        /\ edit[r].doubtful \subseteq edit[r].touched
        /\ edit[r].text \in Authors \cup {None}
        /\ edit[r].mine \in [BlockIds -> Rows \cup {None}]
        /\ edit[r].triggers \in Nat
        /\ edit[r].alone \in BOOLEAN

\* No two blocks of a game share a position, however the replacements of its
\* list interleave.
PositionsAreUnique ==
    \A b, c \in Present(blocks) : blocks[b].position = blocks[c].position => b = c

\* The search document is the one of the text and the blocks that are there.
DocumentTracksGame == document = DocumentOf(text, blocks)

\* No block is named in two spellings.
NamesBlocksOnce(list) ==
    \A i, k \in 1..Len(list) : list[i][1] = list[k][1] => i = k \/ list[i] = New

\* A saved edit can be found: when a request commits, the document has the
\* text it wrote and as many blocks of its own as its list, whatever ran beside it.
EditShowsItself == [][
    \A r \in Requests :
        /\ Committed' # Committed /\ edit[r].pc # "idle" /\ edit'[r].pc = "idle"
        /\ NamesBlocksOnce(edit[r].list)
        => IF edit[r].text # None
           THEN document'.text = edit[r].text
           ELSE edit[r].at = Cardinality({entry \in document'.body : entry[1] = r})]_vars

\* An edit nobody ran beside leaves everything right, whatever earlier ones
\* that overlapped had left: the document is that of the game, and a list that
\* names no block in two spellings is numbered from zero without a gap.  So
\* overlaps heal with the next edit.
EditAloneIsWhole == [][
    \A r \in Requests : edit[r].alone /\ Commit(r) =>
        /\ edit[r].text # None \/ edit[r].touched # {} => document' = DocumentOf(text', blocks')
        /\ edit[r].text = None /\ NamesBlocksOnce(edit[r].list) =>
            {blocks'[b].position : b \in Present(blocks')} = 0..(Len(edit[r].list) - 1)]_vars

\* Under FairSpec an edit ends: two replacements that lock the same rows in
\* opposite orders do deadlock, and one of them is told.
EditsEnd == \A r \in Requests : edit[r].pc # "idle" ~> edit[r].pc = "idle"
=============================================================================
