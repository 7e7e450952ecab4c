-------------------------- MODULE GameContentProofs --------------------------
(***************************************************************************)
(* Proofs about GameContent, for any blocks, lists, spellings and number   *)
(* of requests.  The argument for the positions: of two rows that meet at  *)
(* one position, the one written later is doubtful, and a doubtful row is  *)
(* committed only when nobody is left who could have, or put, a row there. *)
(* For the document: an edit's own rows are numbered as its list is, so    *)
(* the ranks they have among all rows are as many, and every statement     *)
(* that wrote anything computes the document once more.                    *)
(***************************************************************************)
EXTENDS GameContent, FiniteSetTheorems, TLAPS

USE ContentAssumption

Tables == [BlockIds -> Rows \cup {None}]

Records == [pc : {"idle", "statement", "upsert"}, list : Seq(Entries), at : Nat,
            todo : SUBSET BlockIds, text : Authors \cup {None},
            touched : SUBSET BlockIds, doubtful : SUBSET BlockIds, mine : Tables,
            triggers : Nat, found : Documents \cup {None},
            document : Documents \cup {None}, alone : BOOLEAN]

\* The rows a table has are at different positions.
Distinct(rows) ==
    \A b, c \in BlockIds :
        rows[b] # None /\ rows[c] # None /\ rows[b].position = rows[c].position => b = c

\* What is so of a request whatever the tables hold.
Sound(q) ==
    /\ q \in Records
    /\ q.at <= Len(q.list)
    /\ q.doubtful \subseteq q.touched
    /\ q.todo \cap q.touched = {}
    /\ \A b \in BlockIds : q.mine[b] # None => b \in q.touched /\ q.mine[b].position < q.at
    /\ Distinct(q.mine)
    /\ q.pc = "upsert" => q.triggers > 0 /\ q.found \in Documents

\* A row that met nobody at its position has nobody there who was there first.
Grounded(q) ==
    \A b \in q.touched \ q.doubtful, c \in BlockIds \ q.touched :
        q.mine[b] # None /\ blocks[c] # None => q.mine[b].position # blocks[c].position

\* Two requests do not write one row, and two rows at one position have met.
Apart(p, q) ==
    /\ p.touched \cap q.touched = {}
    /\ \A b \in p.touched \ p.doubtful, c \in q.touched \ q.doubtful :
        p.mine[b] # None /\ q.mine[c] # None => p.mine[b].position # q.mine[c].position

\* The inductive invariant.
IInv ==
    /\ text \in Authors
    /\ blocks \in Tables
    /\ document \in Documents
    /\ edit \in [Requests -> Records]
    /\ \A r \in Requests : Sound(edit[r]) /\ Grounded(edit[r])
    /\ \A r, s \in Requests : r # s => Apart(edit[r], edit[s])
    /\ PositionsAreUnique

LEMMA IdleIsSound == Sound(Idle) /\ Grounded(Idle) /\ \A q : Apart(Idle, q)
<1>1. NoRows \in Tables /\ \A b \in BlockIds : NoRows[b] = None BY DEF NoRows, Tables
<1>2. <<>> \in Seq(Entries) /\ Len(<<>>) = 0 OBVIOUS
<1>3. Idle \in Records BY <1>1, <1>2 DEF Idle, Records
<1>4. /\ Idle.at = 0 /\ Idle.list = <<>> /\ Idle.touched = {} /\ Idle.doubtful = {}
      /\ Idle.todo = {} /\ Idle.mine = NoRows /\ Idle.pc = "idle"
  BY DEF Idle
<1>5. Sound(Idle) BY <1>1, <1>2, <1>3, <1>4 DEF Sound, Distinct
<1>6. Grounded(Idle) BY <1>4 DEF Grounded
<1>7. \A q : Apart(Idle, q) BY <1>4 DEF Apart
<1> QED BY <1>5, <1>6, <1>7

LEMMA ApartIsSymmetric ==
    ASSUME NEW p, NEW q, Apart(p, q)
    PROVE  Apart(q, p)
BY DEF Apart

LEMMA DocumentType ==
    ASSUME NEW t \in Authors, NEW table \in Tables
    PROVE  DocumentOf(t, table) \in Documents
<1>1. \A S \in SUBSET BlockIds : Cardinality(S) \in Nat
  BY FS_Subset, FS_CardinalityType
<1>2. \A b \in Present(table) :
        <<table[b].content,
          Cardinality({c \in Present(table) : table[c].position < table[b].position})>>
            \in Authors \X Nat
  <2> TAKE b \in Present(table)
  <2>1. table[b] \in Rows BY DEF Present, Tables
  <2>2. table[b].content \in Authors BY <2>1 DEF Rows
  <2>3. {c \in Present(table) : table[c].position < table[b].position} \in SUBSET BlockIds
    BY DEF Present
  <2>4. Cardinality({c \in Present(table) : table[c].position < table[b].position}) \in Nat
    BY <1>1, <2>3
  <2> QED BY <2>2, <2>4
<1>3. {<<table[b].content,
         Cardinality({c \in Present(table) : table[c].position < table[b].position})>> :
            b \in Present(table)} \in SUBSET (Authors \X Nat)
  BY <1>2
<1> QED BY <1>3 DEF DocumentOf, Documents

LEMMA InitIInv == Init => IInv
<1> SUFFICES ASSUME Init PROVE IInv OBVIOUS
<1> DEFINE Place(b) == CHOOSE i \in 1..Len(SeededList) : SeededList[i] = b
<1>1. \A b \in BlockIds : (\E i \in 1..Len(SeededList) : SeededList[i] = b) =>
        Place(b) \in 1..Len(SeededList) /\ SeededList[Place(b)] = b
  OBVIOUS
<1>2. Len(SeededList) \in Nat OBVIOUS
<1>3. ASSUME NEW b \in BlockIds
      PROVE  \/ blocks[b] = None
             \/ /\ blocks[b] \in Rows
                /\ blocks[b].position + 1 \in 1..Len(SeededList)
                /\ SeededList[blocks[b].position + 1] = b
  <2>1. CASE \E i \in 1..Len(SeededList) : SeededList[i] = b
    <3>1. PICK n \in 1..Len(SeededList) : n = Place(b) /\ SeededList[n] = b BY <1>1, <2>1
    <3>2. blocks[b] = [content |-> "seed", position |-> Place(b) - 1] BY <2>1 DEF Init
    <3>3. blocks[b] = [content |-> "seed", position |-> n - 1] BY <3>1, <3>2
    <3>4. n - 1 \in Nat /\ (n - 1) + 1 = n BY <1>2, <3>1
    <3>5. "seed" \in Authors BY DEF Authors
    <3> QED BY <3>1, <3>3, <3>4, <3>5 DEF Rows
  <2>2. CASE ~\E i \in 1..Len(SeededList) : SeededList[i] = b BY <2>2 DEF Init
  <2> QED BY <2>1, <2>2
<1>4. blocks \in Tables BY <1>3 DEF Init, Tables
<1>5. text \in Authors BY DEF Init, Authors
<1>6. document \in Documents BY <1>4, <1>5, DocumentType DEF Init
<1>7. PositionsAreUnique BY <1>3 DEF PositionsAreUnique, Present
<1>8. edit \in [Requests -> Records] /\ \A r \in Requests : edit[r] = Idle
  BY IdleIsSound DEF Init, Sound
<1> QED BY <1>4, <1>5, <1>6, <1>7, <1>8, IdleIsSound DEF IInv

\* A request gets further, or gives up, and nothing is committed.
LEMMA StepKeeps ==
    ASSUME IInv, NEW r \in Requests, NEW q, Becomes(r, q), UNCHANGED Committed,
           Sound(q), Grounded(q), \A s \in Requests \ {r} : Apart(q, edit[s])
    PROVE  IInv'
<1>1. text' = text /\ blocks' = blocks /\ document' = document BY DEF Committed
<1>2. edit' \in [Requests -> Records] BY DEF IInv, Becomes, Sound
<1>3. edit'[r] = q /\ \A s \in Requests \ {r} : edit'[s] = edit[s] BY DEF IInv, Becomes
<1>4. \A s \in Requests : Sound(edit[s])' BY <1>3 DEF IInv
<1>5. \A s \in Requests : Grounded(edit'[s]) BY <1>3 DEF IInv
<1>6. \A s \in Requests : Grounded(edit[s])' BY <1>1, <1>5 DEF Grounded
<1>7. \A s, t \in Requests : s # t => Apart(edit[s], edit[t])'
  <2> SUFFICES ASSUME NEW s \in Requests, NEW t \in Requests, s # t
               PROVE  Apart(edit'[s], edit'[t])
    OBVIOUS
  <2>1. CASE s = r BY <2>1, <1>3
  <2>2. CASE t = r BY <2>2, <1>3, ApartIsSymmetric
  <2>3. CASE s # r /\ t # r BY <2>3, <1>3 DEF IInv
  <2> QED BY <2>1, <2>2, <2>3
<1>8. PositionsAreUnique' BY <1>1 DEF IInv, PositionsAreUnique, Present
<1>9. text' \in Authors /\ blocks' \in Tables /\ document' \in Documents BY <1>1 DEF IInv
<1> QED BY <1>2, <1>4, <1>6, <1>7, <1>8, <1>9 DEF IInv

LEMMA RollbackKeeps ==
    ASSUME IInv, NEW r \in Requests, Rollback(r)
    PROVE  IInv'
BY IdleIsSound, StepKeeps DEF Rollback

\* A request starts with nothing written.
LEMMA StartKeeps ==
    ASSUME IInv, NEW r \in Requests, NEW q, Starts(r, q), UNCHANGED Committed,
           Sound(q), q.touched = {}
    PROVE  IInv'
<1>1. text' = text /\ blocks' = blocks /\ document' = document BY DEF Committed
<1>2. /\ edit'[r] = q
      /\ \A s \in Requests \ {r} :
            edit'[s] = [edit[s] EXCEPT !.alone = @ /\ edit[s].pc = "idle"]
  BY DEF Starts
<1>3. \A s \in Requests \ {r} :
        /\ Sound(edit'[s])
        /\ edit'[s].touched = edit[s].touched /\ edit'[s].doubtful = edit[s].doubtful
        /\ edit'[s].mine = edit[s].mine
  <2> SUFFICES ASSUME NEW s \in Requests \ {r}
               PROVE  /\ Sound(edit'[s])
                      /\ edit'[s].touched = edit[s].touched
                      /\ edit'[s].doubtful = edit[s].doubtful
                      /\ edit'[s].mine = edit[s].mine
    OBVIOUS
  <2>1. PICK alone \in BOOLEAN : alone = (edit[s].alone /\ edit[s].pc = "idle") OBVIOUS
  <2>2. edit'[s] = [edit[s] EXCEPT !.alone = alone] BY <1>2, <2>1, Zenon
  <2>3. edit[s] \in Records /\ Sound(edit[s]) BY DEF IInv
  <2>4. edit'[s] \in Records BY <2>2, <2>3 DEF Records
  <2>5. /\ edit'[s].pc = edit[s].pc /\ edit'[s].list = edit[s].list /\ edit'[s].at = edit[s].at
        /\ edit'[s].todo = edit[s].todo
        /\ edit'[s].touched = edit[s].touched /\ edit'[s].doubtful = edit[s].doubtful
        /\ edit'[s].mine = edit[s].mine /\ edit'[s].triggers = edit[s].triggers
        /\ edit'[s].found = edit[s].found
    BY <2>2, <2>3 DEF Records
  <2> QED BY <2>3, <2>4, <2>5 DEF Sound
<1>4. edit' \in [Requests -> Records] BY <1>2, <1>3 DEF Starts, Sound
<1>5. \A s \in Requests : Sound(edit[s])' BY <1>2, <1>3
<1>6. \A s \in Requests : Grounded(edit[s])'
  <2>1. Grounded(edit[r])' BY <1>2 DEF Grounded
  <2>2. \A s \in Requests \ {r} : Grounded(edit[s])' BY <1>1, <1>3 DEF IInv, Grounded
  <2> QED BY <2>1, <2>2
<1>7. \A s, t \in Requests : s # t => Apart(edit[s], edit[t])'
  <2> SUFFICES ASSUME NEW s \in Requests, NEW t \in Requests, s # t
               PROVE  Apart(edit'[s], edit'[t])
    OBVIOUS
  <2>1. CASE s = r BY <2>1, <1>2 DEF Apart
  <2>2. CASE t = r BY <2>2, <1>2 DEF Apart
  <2>3. CASE s # r /\ t # r BY <2>3, <1>3 DEF IInv, Apart
  <2> QED BY <2>1, <2>2, <2>3
<1>8. PositionsAreUnique' BY <1>1 DEF IInv, PositionsAreUnique, Present
<1>9. text' \in Authors /\ blocks' \in Tables /\ document' \in Documents BY <1>1 DEF IInv
<1> QED BY <1>4, <1>5, <1>6, <1>7, <1>8, <1>9 DEF IInv

LEMMA StartingIsSound ==
    ASSUME NEW r \in Requests, NEW list \in Seq(Entries), NEW todo \in SUBSET BlockIds,
           NEW newText \in Authors \cup {None}, NEW triggers \in Nat
    PROVE  /\ Sound(Starting(r, list, todo, newText, triggers))
           /\ Starting(r, list, todo, newText, triggers).touched = {}
<1> DEFINE q == Starting(r, list, todo, newText, triggers)
<1>1. NoRows \in Tables /\ \A b \in BlockIds : NoRows[b] = None BY DEF NoRows, Tables
<1>2. PICK alone \in BOOLEAN : alone = \A s \in Requests \ {r} : edit[s].pc = "idle" OBVIOUS
<1>3. q = [pc |-> "statement", list |-> list, at |-> 0, todo |-> todo, text |-> newText,
           touched |-> {}, doubtful |-> {}, mine |-> NoRows,
           triggers |-> triggers, found |-> None, document |-> None, alone |-> alone]
  BY <1>2, Zenon DEF Starting
<1> HIDE DEF q
<1>4. q \in Records BY <1>1, <1>3 DEF Records
<1>5. /\ q.pc = "statement" /\ q.list = list /\ q.at = 0 /\ q.todo = todo
      /\ q.touched = {} /\ q.doubtful = {} /\ q.mine = NoRows
  BY <1>3
<1>6. Len(list) >= 0 OBVIOUS
<1>7. Sound(q) BY <1>1, <1>4, <1>5, <1>6 DEF Sound, Distinct
<1> QED BY <1>5, <1>7 DEF q

LEMMA EditGameKeeps ==
    ASSUME IInv, NEW r \in Requests, EditGame(r)
    PROVE  IInv'
<1>1. <<>> \in Seq(Entries) /\ {} \in SUBSET BlockIds /\ 1 \in Nat /\ r \in Authors \cup {None}
  BY DEF Authors
<1> QED BY <1>1, StartingIsSound, StartKeeps DEF EditGame

LEMMA EditGameBlocksKeeps ==
    ASSUME IInv, NEW r \in Requests, NEW list \in Lists, EditGameBlocks(r, list)
    PROVE  IInv'
<1>1. list \in Seq(Entries)
  <2>1. PICK n \in 0..MaxLength : list \in [1..n -> Entries] BY DEF Lists
  <2> QED BY <2>1
<1>2. Present(blocks) \ Kept(list) \in SUBSET BlockIds BY DEF Present
<1>3. None \in Authors \cup {None} /\ 0 \in Nat OBVIOUS
<1> QED BY <1>1, <1>2, <1>3, StartingIsSound, StartKeeps DEF EditGameBlocks

\* What stays as it is when a statement on blocks gets further.
LEMMA WritingIsWhole ==
    ASSUME NEW r \in Requests, edit[r] \in Records,
           NEW at \in Nat, NEW todo \in SUBSET BlockIds, NEW touched \in SUBSET BlockIds,
           NEW doubtful \in SUBSET BlockIds, NEW mine \in Tables, NEW triggers \in Nat,
           NEW q, q = Writing(r, at, todo, touched, doubtful, mine, triggers)
    PROVE  /\ q \in Records
           /\ q.pc = "statement" /\ q.list = edit[r].list /\ q.at = at /\ q.todo = todo
           /\ q.touched = touched /\ q.doubtful = doubtful /\ q.mine = mine
BY DEF Writing, Records

\* Nobody else has a row that is free.
LEMMA NobodyHolds ==
    ASSUME NEW r \in Requests, NEW b, BlockHolders(r, b) = {}
    PROVE  \A s \in Requests \ {r} : b \notin edit[s].touched
BY DEF BlockHolders

LEMMA DeleteBlockKeeps ==
    ASSUME IInv, NEW r \in Requests, NEW b \in BlockIds, DeleteBlock(r, b)
    PROVE  IInv'
<1> DEFINE todo == edit[r].todo \ {b}
           touched == IF blocks[b] = None THEN edit[r].touched ELSE edit[r].touched \cup {b}
           triggers == IF blocks[b] = None THEN edit[r].triggers ELSE edit[r].triggers + 1
           q == Writing(r, edit[r].at, todo, touched, edit[r].doubtful, edit[r].mine, triggers)
<1>1. edit[r] \in Records /\ Sound(edit[r]) /\ Grounded(edit[r]) BY DEF IInv
<1>2. /\ b \in edit[r].todo /\ Becomes(r, q) /\ UNCHANGED Committed
      /\ BlockHolders(r, b) = {}
  BY DEF DeleteBlock, DeleteRow
<1>3. /\ q \in Records
      /\ q.pc = "statement" /\ q.list = edit[r].list /\ q.at = edit[r].at /\ q.todo = todo
      /\ q.touched = touched /\ q.doubtful = edit[r].doubtful /\ q.mine = edit[r].mine
  <2>1. /\ edit[r].at \in Nat /\ todo \in SUBSET BlockIds /\ touched \in SUBSET BlockIds
        /\ edit[r].doubtful \in SUBSET BlockIds /\ edit[r].mine \in Tables /\ triggers \in Nat
    BY <1>1 DEF Records
  <2> HIDE DEF todo, touched, triggers
  <2> QED BY <1>1, <2>1, WritingIsWhole
<1> HIDE DEF q
<1>4. touched \subseteq edit[r].touched \cup {b} /\ edit[r].touched \subseteq touched OBVIOUS
<1>5. b \notin edit[r].touched /\ edit[r].mine[b] = None BY <1>1, <1>2 DEF Sound
<1>6. Sound(q) BY <1>1, <1>3, <1>4 DEF Sound
<1>7. Grounded(q) BY <1>1, <1>3, <1>4, <1>5 DEF Grounded
<1>8. \A s \in Requests \ {r} : Apart(q, edit[s])
  <2> TAKE s \in Requests \ {r}
  <2>1. Apart(edit[r], edit[s]) BY DEF IInv
  <2>2. b \notin edit[s].touched BY <1>2, NobodyHolds
  <2> QED BY <1>3, <1>4, <1>5, <2>1, <2>2 DEF Apart
<1> QED BY <1>2, <1>6, <1>7, <1>8, StepKeeps

\* A row goes to the next place of the list.
LEMMA WriteBlockKeeps ==
    ASSUME IInv, NEW r \in Requests, NEW b \in BlockIds, NEW calls \in Nat,
           Ready(r), edit[r].at < Len(edit[r].list),
           \A s \in Requests \ {r} : b \notin edit[s].touched,
           WriteBlock(r, b, edit[r].at, calls), UNCHANGED Committed
    PROVE  IInv'
<1> DEFINE p == edit[r].at
           row == [content |-> r, position |-> p]
           met == CommittedAt(r, p) \ {b} # {} \/ WritersAt(r, p) # {}
           touched == edit[r].touched \cup {b}
           doubtful == IF met THEN edit[r].doubtful \cup {b} ELSE edit[r].doubtful \ {b}
           mine == [edit[r].mine EXCEPT ![b] = row]
           q == Writing(r, p + 1, edit[r].todo, touched, doubtful, mine, calls)
<1>1. edit[r] \in Records /\ Sound(edit[r]) /\ Grounded(edit[r]) BY DEF IInv
<1>2. Becomes(r, q) BY DEF WriteBlock
<1>3. edit[r].todo = {} BY DEF Ready
<1>4. p \in Nat /\ p + 1 \in Nat /\ edit[r].mine \in Tables /\ edit[r].list \in Seq(Entries)
  BY <1>1 DEF Records
<1>5. row \in Rows /\ row.position = p BY <1>4 DEF Rows, Authors
<1>6. mine \in Tables /\ mine[b] = row /\ \A c \in BlockIds \ {b} : mine[c] = edit[r].mine[c]
  <2> HIDE DEF row
  <2> QED BY <1>4, <1>5 DEF Tables
<1>7. touched \in SUBSET BlockIds /\ doubtful \in SUBSET BlockIds BY <1>1 DEF Records
<1>8. /\ doubtful \subseteq touched
      /\ touched \ doubtful \subseteq (edit[r].touched \ edit[r].doubtful) \cup {b}
      /\ b \in touched \ doubtful => ~met
  BY <1>1 DEF Sound
<1>9. /\ q \in Records
      /\ q.pc = "statement" /\ q.list = edit[r].list /\ q.at = p + 1 /\ q.todo = edit[r].todo
      /\ q.touched = touched /\ q.doubtful = doubtful /\ q.mine = mine
  <2>1. edit[r].todo \in SUBSET BlockIds BY <1>1 DEF Records
  <2> HIDE DEF p, touched, doubtful, mine
  <2> QED BY <1>1, <1>4, <1>6, <1>7, <2>1, WritingIsWhole
<1> HIDE DEF q, mine, doubtful, row
<1>10. \A c \in BlockIds \ {b} : mine[c] # None =>
        c \in edit[r].touched /\ mine[c].position < p /\ mine[c].position \in Nat
  <2> TAKE c \in BlockIds \ {b}
  <2> HAVE mine[c] # None
  <2>1. edit[r].mine[c] = mine[c] /\ edit[r].mine[c] # None BY <1>6
  <2>2. c \in edit[r].touched /\ edit[r].mine[c].position < p BY <1>1, <2>1 DEF Sound
  <2>3. mine[c] \in Rows BY <1>6, <2>1 DEF Tables
  <2> QED BY <2>1, <2>2, <2>3 DEF Rows
<1>11. Distinct(mine)
  <2> SUFFICES ASSUME NEW c \in BlockIds, NEW d \in BlockIds, mine[c] # None, mine[d] # None,
                      mine[c].position = mine[d].position
               PROVE  c = d
    BY DEF Distinct
  <2>1. CASE c # b /\ d # b BY <1>1, <1>6, <2>1 DEF Sound, Distinct
  <2>2. CASE c = b /\ d # b
    <3>1. mine[c].position = p /\ mine[d].position < p BY <1>5, <1>6, <1>10, <2>2
    <3> QED BY <3>1, <1>4
  <2>3. CASE c # b /\ d = b
    <3>1. mine[d].position = p /\ mine[c].position < p BY <1>5, <1>6, <1>10, <2>3
    <3> QED BY <3>1, <1>4
  <2> QED BY <2>1, <2>2, <2>3
<1>12. \A c \in BlockIds : mine[c] # None => c \in touched /\ mine[c].position < p + 1
  <2> TAKE c \in BlockIds
  <2> HAVE mine[c] # None
  <2>1. CASE c = b
    <3>1. mine[c].position = p BY <2>1, <1>5, <1>6
    <3> QED BY <2>1, <3>1, <1>4
  <2>2. CASE c # b
    <3>1. c \in edit[r].touched /\ mine[c].position < p /\ mine[c].position \in Nat
      BY <2>2, <1>10
    <3> QED BY <3>1, <1>4
  <2> QED BY <2>1, <2>2
<1>13. Sound(q)
  <2>1. p + 1 <= Len(edit[r].list) BY <1>4
  <2>2. q.at <= Len(q.list) BY <2>1, <1>9
  <2> QED BY <1>3, <1>8, <1>9, <1>11, <1>12, <2>2 DEF Sound
<1>14. Grounded(q)
  <2> SUFFICES ASSUME NEW c \in touched \ doubtful, NEW d \in BlockIds \ touched,
                      mine[c] # None, blocks[d] # None
               PROVE  mine[c].position # blocks[d].position
    BY <1>9 DEF Grounded
  <2>1. CASE c = b
    <3>1. CommittedAt(r, p) \ {b} = {} BY <2>1, <1>8
    <3>2. d \notin CommittedAt(r, p) BY <3>1
    <3>3. blocks[d].position # p BY <3>2 DEF CommittedAt
    <3> QED BY <3>3, <2>1, <1>5, <1>6
  <2>2. CASE c # b
    <3>1. c \in edit[r].touched \ edit[r].doubtful /\ c \in BlockIds BY <2>2, <1>7, <1>8
    <3>2. mine[c] = edit[r].mine[c] BY <2>2, <3>1, <1>6
    <3>3. d \in BlockIds \ edit[r].touched OBVIOUS
    <3> QED BY <3>1, <3>2, <3>3, <1>1 DEF Grounded
  <2> QED BY <2>1, <2>2
<1>15. \A s \in Requests \ {r} : Apart(q, edit[s])
  <2> TAKE s \in Requests \ {r}
  <2>1. Apart(edit[r], edit[s]) BY DEF IInv
  <2>2. q.touched \cap edit[s].touched = {} BY <2>1, <1>9 DEF Apart
  <2>3. ASSUME NEW c \in touched \ doubtful, NEW d \in edit[s].touched \ edit[s].doubtful,
               mine[c] # None, edit[s].mine[d] # None
        PROVE  mine[c].position # edit[s].mine[d].position
    <3>1. CASE c = b
      <4>1. WritersAt(r, p) = {} BY <3>1, <1>8
      <4>2. edit[s].mine[d].position # p BY <4>1, <2>3 DEF WritersAt
      <4> QED BY <4>2, <3>1, <1>5, <1>6
    <3>2. CASE c # b
      <4>1. c \in edit[r].touched \ edit[r].doubtful /\ c \in BlockIds BY <3>2, <1>7, <1>8
      <4>2. mine[c] = edit[r].mine[c] BY <3>2, <4>1, <1>6
      <4> QED BY <4>1, <4>2, <2>1, <2>3 DEF Apart
    <3> QED BY <3>1, <3>2
  <2> QED BY <2>2, <2>3, <1>9 DEF Apart
<1> QED BY <1>2, <1>13, <1>14, <1>15, StepKeeps

LEMMA InsertBlockKeeps ==
    ASSUME IInv, NEW r \in Requests, NEW b \in BlockIds, InsertBlock(r, b)
    PROVE  IInv'
<1>1. \A s \in Requests \ {r} : b \notin edit[s].touched BY DEF InsertBlock, Fresh
<1>2. /\ Ready(r) /\ edit[r].at < Len(edit[r].list) /\ WriteBlock(r, b, edit[r].at, 1)
      /\ UNCHANGED Committed
  BY DEF InsertBlock
<1> QED BY <1>1, <1>2, WriteBlockKeeps

LEMMA UpdateBlockKeeps ==
    ASSUME IInv, NEW r \in Requests, UpdateBlock(r)
    PROVE  IInv'
<1> DEFINE b == NextEntry(r)[1]
<1>1. edit[r] \in Records BY DEF IInv
<1>2. Ready(r) /\ edit[r].at < Len(edit[r].list) /\ NextEntry(r) # New BY DEF UpdateBlock
<1>3. b \in BlockIds
  <2>1. edit[r].list \in Seq(Entries) /\ edit[r].at + 1 \in 1..Len(edit[r].list)
    BY <1>1, <1>2 DEF Records
  <2>2. NextEntry(r) \in Entries BY <2>1 DEF NextEntry
  <2> QED BY <2>2, <1>2 DEF Entries
<1>4. CASE Rollback(r) BY <1>4, RollbackKeeps
<1>5. CASE /\ BlockHolders(r, b) = {}
           /\ WriteBlock(r, b, edit[r].at, 2)
           /\ UNCHANGED Committed
  BY <1>2, <1>3, <1>5, NobodyHolds, WriteBlockKeeps
<1> QED BY <1>4, <1>5 DEF UpdateBlock

\* What a request sees has the types of what is committed.
LEMMA SeenTypes ==
    ASSUME IInv, NEW r \in Requests
    PROVE  SeesText(r) \in Authors /\ Sees(r) \in Tables
<1>1. edit[r].text \in Authors \cup {None} /\ edit[r].mine \in Tables
  BY DEF IInv, Records
<1>2. text \in Authors /\ blocks \in Tables BY DEF IInv
<1> QED BY <1>1, <1>2 DEF SeesText, Sees, Tables

\* A trigger gets further: the rows the request has written stay as they are.
LEMMA RefreshingKeeps ==
    ASSUME IInv, NEW r \in Requests, NEW pc \in {"statement", "upsert"}, NEW triggers \in Nat,
           NEW found \in Documents \cup {None}, NEW newDocument \in Documents \cup {None},
           pc = "upsert" => triggers > 0 /\ found \in Documents,
           Becomes(r, Refreshing(r, pc, triggers, found, newDocument)), UNCHANGED Committed
    PROVE  IInv'
<1> DEFINE q == Refreshing(r, pc, triggers, found, newDocument)
<1>1. edit[r] \in Records /\ Sound(edit[r]) /\ Grounded(edit[r]) BY DEF IInv
<1>2. /\ q \in Records
      /\ q.pc = pc /\ q.list = edit[r].list /\ q.at = edit[r].at /\ q.todo = edit[r].todo
      /\ q.touched = edit[r].touched /\ q.doubtful = edit[r].doubtful /\ q.mine = edit[r].mine
      /\ q.triggers = triggers /\ q.found = found
  BY <1>1 DEF Refreshing, Records
<1> HIDE DEF q
<1>3. Sound(q) BY <1>1, <1>2 DEF Sound
<1>4. Grounded(q) BY <1>1, <1>2 DEF Grounded
<1>5. \A s \in Requests \ {r} : Apart(q, edit[s]) BY <1>2 DEF IInv, Apart
<1>6. Becomes(r, q) BY DEF q
<1> QED BY <1>3, <1>4, <1>5, <1>6, StepKeeps

LEMMA ComputeDocumentKeeps ==
    ASSUME IInv, NEW r \in Requests, ComputeDocument(r)
    PROVE  IInv'
<1>1. DocumentOf(SeesText(r), Sees(r)) \in Documents BY SeenTypes, DocumentType
<1>2. edit[r].triggers \in Nat /\ edit[r].document \in Documents \cup {None}
  BY DEF IInv, Records
<1>3. edit[r].triggers > 0 BY DEF ComputeDocument
<1> QED BY <1>1, <1>2, <1>3, RefreshingKeeps DEF ComputeDocument

LEMMA UpsertDocumentKeeps ==
    ASSUME IInv, NEW r \in Requests, UpsertDocument(r)
    PROVE  IInv'
<1>1. Sound(edit[r]) /\ edit[r] \in Records /\ edit[r].pc = "upsert" BY DEF IInv, UpsertDocument
<1>2. edit[r].triggers > 0 /\ edit[r].triggers \in Nat /\ edit[r].found \in Documents
  BY <1>1 DEF Sound, Records
<1>3. edit[r].triggers - 1 \in Nat BY <1>2
<1> QED BY <1>2, <1>3, RefreshingKeeps DEF UpsertDocument

\* COMMIT: a doubtful row has met nobody who stays or is still deciding, and
\* whoever wrote a row there later doubts it.
LEMMA CommitKeeps ==
    ASSUME IInv, NEW r \in Requests, Commit(r), ~Rollback(r)
    PROVE  IInv'
<1>1. /\ \A p \in Doubts(r) : DecidersAt(r, p) = {}
      /\ \A p \in Doubts(r) : CommittedAt(r, p) = {}
      /\ text' = SeesText(r) /\ blocks' = Sees(r)
      /\ document' = IF edit[r].document = None THEN document ELSE edit[r].document
      /\ Becomes(r, Idle)
  BY DEF Commit
<1>2. Sound(edit[r]) /\ Grounded(edit[r]) /\ edit[r] \in Records BY DEF IInv
<1>3. text' \in Authors /\ blocks' \in Tables BY <1>1, SeenTypes
<1>4. document' \in Documents BY <1>1, <1>2 DEF IInv, Records
<1>5. edit'[r] = Idle /\ \A s \in Requests \ {r} : edit'[s] = edit[s] BY <1>1 DEF IInv, Becomes
<1>6. edit' \in [Requests -> Records] BY <1>1, IdleIsSound DEF IInv, Becomes, Sound
<1>7. \A s \in Requests : Sound(edit'[s]) BY <1>5, IdleIsSound DEF IInv
<1>8. \A b \in BlockIds :
        blocks'[b] = IF b \in edit[r].touched THEN edit[r].mine[b] ELSE blocks[b]
  BY <1>1 DEF Sees
<1>9. ASSUME NEW b \in edit[r].doubtful
      PROVE  /\ CommittedAt(r, edit[r].mine[b].position) = {}
             /\ WritersAt(r, edit[r].mine[b].position) = {}
  BY <1>1 DEF Doubts, DecidersAt
<1>10. PositionsAreUnique'
  <2> SUFFICES ASSUME NEW b \in BlockIds, NEW c \in BlockIds,
                      blocks'[b] # None, blocks'[c] # None,
                      blocks'[b].position = blocks'[c].position
               PROVE  b = c
    BY DEF PositionsAreUnique, Present
  <2>1. CASE b \in edit[r].touched /\ c \in edit[r].touched
    BY <2>1, <1>2, <1>8 DEF Sound, Distinct
  <2>2. CASE b \notin edit[r].touched /\ c \notin edit[r].touched
    BY <2>2, <1>8 DEF IInv, PositionsAreUnique, Present
  <2>3. ASSUME NEW x \in BlockIds, NEW y \in BlockIds,
               x \in edit[r].touched, y \notin edit[r].touched,
               edit[r].mine[x] # None, blocks[y] # None
        PROVE  edit[r].mine[x].position # blocks[y].position
    <3>1. CASE x \in edit[r].doubtful BY <3>1, <2>3, <1>9 DEF CommittedAt
    <3>2. CASE x \notin edit[r].doubtful BY <3>2, <2>3, <1>2 DEF Grounded
    <3> QED BY <3>1, <3>2
  <2>4. CASE b \in edit[r].touched /\ c \notin edit[r].touched BY <2>3, <2>4, <1>8
  <2>5. CASE b \notin edit[r].touched /\ c \in edit[r].touched BY <2>3, <2>5, <1>8
  <2> QED BY <2>1, <2>2, <2>4, <2>5
<1>11. \A s \in Requests : Grounded(edit[s])'
  <2>1. Grounded(edit[r])' BY <1>5 DEF Grounded, Idle
  <2>2. ASSUME NEW s \in Requests \ {r} PROVE Grounded(edit[s])'
    <3> SUFFICES ASSUME NEW b \in edit[s].touched \ edit[s].doubtful,
                        NEW c \in BlockIds \ edit[s].touched,
                        edit[s].mine[b] # None, blocks'[c] # None
                 PROVE  edit[s].mine[b].position # blocks'[c].position
      BY <1>5 DEF Grounded
    <3>1. CASE c \notin edit[r].touched BY <3>1, <1>8 DEF IInv, Grounded
    <3>2. CASE c \in edit[r].doubtful
      <4>1. c \in edit[r].touched /\ blocks'[c] = edit[r].mine[c] BY <3>2, <1>2, <1>8 DEF Sound
      <4>2. s \notin WritersAt(r, edit[r].mine[c].position) BY <3>2, <1>9
      <4>3. b \in edit[s].touched OBVIOUS
      <4> QED BY <4>1, <4>2, <4>3 DEF WritersAt
    <3>3. CASE c \in edit[r].touched \ edit[r].doubtful
      <4>1. blocks'[c] = edit[r].mine[c] BY <3>3, <1>8
      <4>2. Apart(edit[s], edit[r]) BY DEF IInv
      <4> QED BY <3>3, <4>1, <4>2 DEF Apart
    <3> QED BY <3>1, <3>2, <3>3
  <2> QED BY <2>1, <2>2
<1>12. \A s, t \in Requests : s # t => Apart(edit[s], edit[t])'
  <2> SUFFICES ASSUME NEW s \in Requests, NEW t \in Requests, s # t
               PROVE  Apart(edit'[s], edit'[t])
    OBVIOUS
  <2>1. CASE s = r BY <2>1, <1>5, IdleIsSound
  <2>2. CASE t = r BY <2>2, <1>5, IdleIsSound, ApartIsSymmetric
  <2>3. CASE s # r /\ t # r BY <2>3, <1>5 DEF IInv
  <2> QED BY <2>1, <2>2, <2>3
<1> QED BY <1>3, <1>4, <1>6, <1>7, <1>10, <1>11, <1>12 DEF IInv

LEMMA StatementKeeps ==
    ASSUME IInv, NEW r \in Requests, Statement(r)
    PROVE  IInv'
<1>1. CASE \E b \in BlockIds : DeleteBlock(r, b) BY <1>1, DeleteBlockKeeps
<1>2. CASE \E b \in BlockIds : InsertBlock(r, b) BY <1>2, InsertBlockKeeps
<1>3. CASE UpdateBlock(r) BY <1>3, UpdateBlockKeeps
<1>4. CASE ComputeDocument(r) BY <1>4, ComputeDocumentKeeps
<1>5. CASE UpsertDocument(r) BY <1>5, UpsertDocumentKeeps
<1>6. CASE Commit(r) BY <1>6, CommitKeeps, RollbackKeeps
<1> QED BY <1>1, <1>2, <1>3, <1>4, <1>5, <1>6 DEF Statement

LEMMA NextKeeps == IInv /\ [Next]_vars => IInv'
<1> SUFFICES ASSUME IInv, [Next]_vars PROVE IInv' OBVIOUS
<1>1. CASE UNCHANGED vars
  BY <1>1 DEF vars, IInv, Sound, Grounded, Apart, Distinct, PositionsAreUnique, Present
<1>2. CASE Next
  <2>1. PICK r \in Requests :
          \/ EditGame(r)
          \/ \E list \in Lists : EditGameBlocks(r, list)
          \/ Statement(r)
          \/ Abort(r)
          \/ DeadlockVictim(r)
    BY <1>2 DEF Next
  <2>2. CASE EditGame(r) BY <2>2, EditGameKeeps
  <2>3. CASE \E list \in Lists : EditGameBlocks(r, list) BY <2>3, EditGameBlocksKeeps
  <2>4. CASE Statement(r) BY <2>4, StatementKeeps
  <2>5. CASE Abort(r) BY <2>5, RollbackKeeps DEF Abort
  <2>6. CASE DeadlockVictim(r) BY <2>6, RollbackKeeps DEF DeadlockVictim
  <2> QED BY <2>1, <2>2, <2>3, <2>4, <2>5, <2>6
<1> QED BY <1>1, <1>2

\* The inductive invariant of GameContent: row locks exclude each other, and
\* of two rows at one position the later one is doubtful.
THEOREM Invariance == Spec => []IInv
<1>1. Init => IInv BY InitIInv
<1>2. IInv /\ [Next]_vars => IInv' BY NextKeeps
<1> QED BY <1>1, <1>2, PTL DEF Spec

\* Text, blocks, document and the requests that edit them have their types.
THEOREM TypeCorrectness == Spec => []TypeOK
<1>1. ASSUME IInv PROVE TypeOK
  <2>1. text \in Authors /\ blocks \in [BlockIds -> Rows \cup {None}] BY <1>1 DEF IInv, Tables
  <2>2. document \in Documents BY <1>1 DEF IInv
  <2>3. ASSUME NEW r \in Requests
        PROVE  /\ edit[r].pc \in {"idle", "statement", "upsert"}
               /\ edit[r].at \in 0..Len(edit[r].list)
               /\ edit[r].todo \cup edit[r].touched \subseteq BlockIds
               /\ edit[r].doubtful \subseteq edit[r].touched
               /\ edit[r].text \in Authors \cup {None}
               /\ edit[r].mine \in [BlockIds -> Rows \cup {None}]
               /\ edit[r].triggers \in Nat
               /\ edit[r].alone \in BOOLEAN
    <3>1. edit[r] \in Records /\ Sound(edit[r]) BY <1>1 DEF IInv
    <3>2. /\ edit[r].pc \in {"idle", "statement", "upsert"} /\ edit[r].list \in Seq(Entries)
          /\ edit[r].at \in Nat
          /\ edit[r].todo \cup edit[r].touched \subseteq BlockIds
          /\ edit[r].text \in Authors \cup {None}
          /\ edit[r].mine \in Tables /\ edit[r].triggers \in Nat /\ edit[r].alone \in BOOLEAN
      BY <3>1 DEF Records
    <3>3. edit[r].doubtful \subseteq edit[r].touched /\ edit[r].at <= Len(edit[r].list)
      BY <3>1 DEF Sound
    <3>4. edit[r].at \in 0..Len(edit[r].list) BY <3>2, <3>3
    <3> QED BY <3>2, <3>3, <3>4 DEF Tables
  <2> QED BY <2>1, <2>2, <2>3 DEF TypeOK
<1> QED BY <1>1, Invariance, PTL

\* No two blocks of a game share a position, however replacements of its list
\* (EditGameBlocks under the deferred blocks_game_position_key) interleave.
THEOREM PositionsHold == Spec => []PositionsAreUnique
<1>1. IInv => PositionsAreUnique BY DEF IInv
<1> QED BY <1>1, Invariance, PTL

(***************************************************************************)
(* What an edit leaves in the search document.  The second invariant says  *)
(* of each request how much of its list it has written and what the        *)
(* documents it has computed and written show.                             *)
(***************************************************************************)
\* The tables as an edit sees them.
SeesIn(q, rows) == [b \in BlockIds |-> IF b \in q.touched THEN q.mine[b] ELSE rows[b]]
ReadsIn(q, t)   == IF q.text = None THEN t ELSE q.text

\* How many of a document's entries are r's.
Entered(doc, r) == Cardinality({entry \in doc.body : entry[1] = r})

\* What is so of an edit of the text, and of the DELETE of an edit of the
\* blocks: a statement that has written something owes its triggers.
Ordered(q) ==
    /\ q.pc = "idle" => q = Idle
    /\ q.text # None => q.list = <<>> /\ q.todo = {} /\ q.touched = {}
    /\ q.pc = "upsert" => q.todo = {}
    /\ q.todo # {} /\ q.touched # {} => q.triggers > 0
    /\ q.touched = {} /\ q.text = None => q.triggers = 0 /\ q.document = None

\* The rows an edit has written are its list's entries, each at its place; a
\* list that names no block twice has lost none of them.
Placed(q, r) ==
    /\ \A b \in BlockIds : q.mine[b] # None =>
        /\ q.mine[b].content = r
        /\ \/ q.list[q.mine[b].position + 1][1] = b
           \/ q.list[q.mine[b].position + 1] = New /\ b \notin Kept(q.list)
    /\ NamesBlocksOnce(q.list) =>
        \A i \in 0..(q.at - 1) : \E b \in BlockIds : q.mine[b] # None /\ q.mine[b].position = i

\* What an edit of the blocks has yet to delete or to write again: everything
\* of its own from before, and everything there is when it is alone.
Covered(q, r, rows) ==
    q.text = None /\ q.pc # "idle" =>
        \A c \in BlockIds \ q.touched :
            rows[c] # None /\ (q.alone \/ rows[c].content = r) =>
                c \in q.todo \/ \E i \in (q.at + 1)..Len(q.list) : q.list[i][1] = c

\* The documents it computes and writes have what it wrote.
Shows(q, r) ==
    /\ q.text # None =>
        /\ q.pc = "upsert" => q.found.text = q.text
        /\ q.triggers = 0 => q.document # None /\ q.document.text = q.text
    /\ q.text = None /\ q.at = Len(q.list) /\ NamesBlocksOnce(q.list) =>
        /\ q.pc = "upsert" => Entered(q.found, r) = q.at
        /\ q.triggers = 0 /\ q.todo = {} /\ q.touched # {} =>
            q.document # None /\ Entered(q.document, r) = q.at

\* And when it is alone they are the game's.
Tracks(q, t, rows) ==
    q.alone =>
        /\ q.pc = "upsert" => q.found = DocumentOf(ReadsIn(q, t), SeesIn(q, rows))
        /\ q.triggers = 0 /\ q.todo = {} /\ (q.touched # {} \/ q.text # None) =>
            q.document = DocumentOf(ReadsIn(q, t), SeesIn(q, rows))

Whole(q, r, t, rows) ==
    Ordered(q) /\ Placed(q, r) /\ Covered(q, r, rows) /\ Shows(q, r) /\ Tracks(q, t, rows)

\* Who is alone has everybody idle beside it.
AloneIsAlone ==
    \A r, s \in Requests : r # s /\ edit[r].alone /\ edit[r].pc # "idle" => edit[s].pc = "idle"

\* The inductive invariant of the edits.
EditInv ==
    /\ IInv
    /\ AloneIsAlone
    /\ \A r \in Requests : Whole(edit[r], r, text, blocks)

\* The rows of r are numbered from zero to n - 1.
Numbered(rows, r, n) ==
    /\ \A b \in BlockIds : rows[b] # None /\ rows[b].content = r => rows[b].position < n
    /\ \A b, c \in BlockIds :
        /\ rows[b] # None /\ rows[c] # None /\ rows[b].content = r /\ rows[c].content = r
        /\ rows[b].position = rows[c].position
        => b = c
    /\ \A i \in 0..(n - 1) : \E b \in BlockIds :
        rows[b] # None /\ rows[b].content = r /\ rows[b].position = i

\* The document of such a table has n entries that are r's: the rank a row has
\* by position is its own.
LEMMA OwnEntries ==
    ASSUME NEW rows \in Tables, NEW r, NEW n \in Nat, NEW t, Numbered(rows, r, n)
    PROVE  Entered(DocumentOf(t, rows), r) = n
<1> DEFINE Own == {b \in BlockIds : rows[b] # None /\ rows[b].content = r}
           Below(b) == {c \in Present(rows) : rows[c].position < rows[b].position}
           Rank(b) == Cardinality(Below(b))
           Mine == {entry \in DocumentOf(t, rows).body : entry[1] = r}
           place == [b \in Own |-> rows[b].position]
           entered == [b \in Own |-> <<rows[b].content, Rank(b)>>]
<1>1. IsFiniteSet(Own) BY FS_Subset
<1>2. \A b \in Own : rows[b].position \in Nat BY DEF Tables, Rows
<1>3. place \in Bijection(Own, 0..(n - 1))
  <2>1. \A b \in Own : place[b] \in 0..(n - 1) BY <1>2 DEF Numbered
  <2>2. \A b, c \in Own : place[b] = place[c] => b = c BY DEF Numbered
  <2>3. \A i \in 0..(n - 1) : \E b \in Own : place[b] = i BY DEF Numbered
  <2>4. place \in [Own -> 0..(n - 1)] BY <2>1
  <2> HIDE DEF place, Own
  <2> QED BY <2>2, <2>3, <2>4 DEF Bijection, Injection, IsInjective, Surjection
<1>4. Cardinality(Own) = n
  <2>1. ExistsBijection(Own, 0..(n - 1)) BY <1>3 DEF ExistsBijection
  <2>2. Cardinality(0..(n - 1)) = n BY FS_Interval
  <2> HIDE DEF Own
  <2> QED BY <1>1, <2>1, <2>2, FS_Bijection
<1>5. ASSUME NEW b \in Own, NEW c \in Own, rows[b].position < rows[c].position
      PROVE  Rank(b) # Rank(c)
  <2>1. Below(b) \subseteq Below(c) BY <1>2, <1>5 DEF Tables, Rows, Present
  <2>2. b \in Below(c) /\ b \notin Below(b) BY <1>2, <1>5 DEF Present
  <2>3. Below(c) \in SUBSET BlockIds BY DEF Present
  <2>4. IsFiniteSet(Below(c)) BY <2>3, FS_Subset
  <2> HIDE DEF Below
  <2> QED BY <2>1, <2>2, <2>4, FS_Subset
<1>6. \A b, c \in Own : Rank(b) = Rank(c) => b = c
  <2> SUFFICES ASSUME NEW b \in Own, NEW c \in Own, b # c PROVE Rank(b) # Rank(c) OBVIOUS
  <2>1. rows[b].position # rows[c].position BY DEF Numbered
  <2>2. rows[b].position < rows[c].position \/ rows[c].position < rows[b].position
    BY <1>2, <2>1
  <2> HIDE DEF Rank, Own
  <2> QED BY <2>2, <1>5
<1>7. Mine = {<<rows[b].content, Rank(b)>> : b \in Own}
  <2>1. DocumentOf(t, rows).body = {<<rows[b].content, Rank(b)>> : b \in Present(rows)}
    BY DEF DocumentOf
  <2> HIDE DEF Rank
  <2> QED BY <2>1 DEF Present
<1>8. entered \in Bijection(Own, Mine)
  <2> HIDE DEF Rank, Mine, Own
  <2>1. entered \in [Own -> Mine] BY <1>7
  <2>2. \A b, c \in Own : entered[b] = entered[c] => b = c BY <1>6
  <2>3. \A entry \in Mine : \E b \in Own : entered[b] = entry BY <1>7
  <2> HIDE DEF entered
  <2> QED BY <2>1, <2>2, <2>3 DEF Bijection, Injection, IsInjective, Surjection
<1>9. Cardinality(Mine) = n
  <2>1. ExistsBijection(Own, Mine) BY <1>8 DEF ExistsBijection
  <2> HIDE DEF Mine, Own
  <2> QED BY <1>1, <1>4, <2>1, FS_Bijection
<1> QED BY <1>9 DEF Entered

LEMMA IdleIsWhole ==
    ASSUME NEW r, NEW t, NEW rows
    PROVE  Whole(Idle, r, t, rows)
<1>1. /\ Idle.pc = "idle" /\ Idle.list = <<>> /\ Idle.at = 0 /\ Idle.todo = {} /\ Idle.text = None
      /\ Idle.touched = {} /\ Idle.mine = NoRows /\ Idle.triggers = 0 /\ Idle.document = None
  BY DEF Idle
<1>2. \A b \in BlockIds : Idle.mine[b] = None BY <1>1 DEF NoRows
<1>3. 0..(Idle.at - 1) = {} BY <1>1
<1>4. Ordered(Idle) BY <1>1 DEF Ordered
<1>5. Placed(Idle, r) BY <1>2, <1>3 DEF Placed
<1>6. Covered(Idle, r, rows) BY <1>1 DEF Covered
<1>7. Shows(Idle, r) BY <1>1 DEF Shows
<1>8. Tracks(Idle, t, rows) BY <1>1 DEF Tracks
<1> QED BY <1>4, <1>5, <1>6, <1>7, <1>8 DEF Whole

LEMMA InitEditInv == Init => EditInv
<1> SUFFICES ASSUME Init PROVE EditInv OBVIOUS
<1>1. \A r \in Requests : edit[r] = Idle BY DEF Init
<1>2. AloneIsAlone BY <1>1 DEF AloneIsAlone, Idle
<1>3. \A r \in Requests : Whole(edit[r], r, text, blocks) BY <1>1, IdleIsWhole
<1> QED BY <1>2, <1>3, InitIInv DEF EditInv

\* A request gets further, or gives up, and nothing is committed.
LEMMA StepWhole ==
    ASSUME EditInv, IInv', NEW r \in Requests, NEW q, Becomes(r, q), UNCHANGED Committed,
           edit[r].pc # "idle", q.alone /\ q.pc # "idle" => edit[r].alone,
           Whole(q, r, text, blocks)
    PROVE  EditInv'
<1>1. text' = text /\ blocks' = blocks BY DEF Committed
<1>2. edit'[r] = q /\ \A s \in Requests \ {r} : edit'[s] = edit[s]
  BY DEF EditInv, IInv, Becomes
<1>3. AloneIsAlone'
  <2> SUFFICES ASSUME NEW s \in Requests, NEW u \in Requests, s # u,
                      edit'[s].alone, edit'[s].pc # "idle"
               PROVE  edit'[u].pc = "idle"
    BY DEF AloneIsAlone
  <2>1. CASE s = r BY <2>1, <1>2 DEF EditInv, AloneIsAlone
  <2>2. CASE u = r BY <2>2, <1>2 DEF EditInv, AloneIsAlone
  <2>3. CASE s # r /\ u # r BY <2>3, <1>2 DEF EditInv, AloneIsAlone
  <2> QED BY <2>1, <2>2, <2>3
<1>4. \A s \in Requests : Whole(edit'[s], s, text', blocks') BY <1>1, <1>2 DEF EditInv
<1> QED BY <1>3, <1>4 DEF EditInv

LEMMA RollbackWhole ==
    ASSUME EditInv, IInv', NEW r \in Requests, Rollback(r), edit[r].pc # "idle"
    PROVE  EditInv'
<1>1. Idle.pc = "idle" BY DEF Idle
<1> QED BY <1>1, IdleIsWhole, StepWhole DEF Rollback

\* Another request starts beside it: who was in progress is no longer alone.
Beside(q2, q) ==
    /\ q2.pc = q.pc /\ q2.list = q.list /\ q2.at = q.at /\ q2.todo = q.todo
    /\ q2.text = q.text /\ q2.touched = q.touched /\ q2.mine = q.mine
    /\ q2.triggers = q.triggers /\ q2.found = q.found /\ q2.document = q.document
    /\ q2.alone => q.alone /\ q.pc = "idle"
    /\ q = Idle => q2 = Idle

LEMMA BesideWhole ==
    ASSUME NEW s, NEW q, NEW q2, Beside(q2, q), Whole(q, s, text, blocks)
    PROVE  Whole(q2, s, text, blocks)
<1>1. Ordered(q2) BY DEF Beside, Whole, Ordered
<1>2. Placed(q2, s) BY DEF Beside, Whole, Placed
<1>3. Covered(q2, s, blocks) BY DEF Beside, Whole, Covered
<1>4. Shows(q2, s) BY DEF Beside, Whole, Shows
<1>5. Tracks(q2, text, blocks)
  <2>1. ReadsIn(q2, text) = ReadsIn(q, text) /\ SeesIn(q2, blocks) = SeesIn(q, blocks)
    BY DEF ReadsIn, SeesIn, Beside
  <2> QED BY <2>1 DEF Whole, Tracks, Beside
<1> QED BY <1>1, <1>2, <1>3, <1>4, <1>5 DEF Whole

LEMMA StartWhole ==
    ASSUME EditInv, IInv', NEW r \in Requests, NEW q, Starts(r, q), UNCHANGED Committed,
           edit[r].pc = "idle", q.alone => \A s \in Requests \ {r} : edit[s].pc = "idle",
           Whole(q, r, text, blocks)
    PROVE  EditInv'
<1>1. text' = text /\ blocks' = blocks BY DEF Committed
<1>2. /\ edit'[r] = q
      /\ \A s \in Requests \ {r} :
            edit'[s] = [edit[s] EXCEPT !.alone = @ /\ edit[s].pc = "idle"]
  BY DEF Starts
<1>3. \A s \in Requests \ {r} :
        /\ Whole(edit'[s], s, text, blocks)
        /\ edit'[s].pc = edit[s].pc
        /\ edit'[s].alone => edit[s].pc = "idle"
  <2> TAKE s \in Requests \ {r}
  <2>1. edit[s] \in Records /\ Whole(edit[s], s, text, blocks) BY DEF EditInv, IInv
  <2>2. PICK q2 : q2 = edit'[s] OBVIOUS
  <2>3. PICK p : p = edit[s] OBVIOUS
  <2>4. PICK alone \in BOOLEAN : alone = (p.alone /\ p.pc = "idle") OBVIOUS
  <2>5. q2 = [p EXCEPT !.alone = alone] BY <1>2, <2>2, <2>3, <2>4, Zenon
  <2>6. p \in Records BY <2>1, <2>3
  <2>7. p = Idle => alone = TRUE
    <3>1. Idle.alone = TRUE /\ Idle.pc = "idle" BY DEF Idle
    <3> QED BY <2>4, <3>1, Zenon
  <2>8. ASSUME p = Idle PROVE q2 = Idle
    <3>1. alone = TRUE BY <2>7, <2>8
    <3> QED BY <2>5, <2>8, <3>1 DEF Idle
  <2>9. q2.alone = alone BY <2>5, <2>6 DEF Records
  <2>10. Beside(q2, p) BY <2>4, <2>5, <2>6, <2>8, <2>9 DEF Beside, Records
  <2>11. Whole(q2, s, text, blocks) BY <2>1, <2>3, <2>10, BesideWhole
  <2> QED BY <2>2, <2>3, <2>10, <2>11 DEF Beside
<1>4. AloneIsAlone'
  <2> SUFFICES ASSUME NEW s \in Requests, NEW u \in Requests, s # u,
                      edit'[s].alone, edit'[s].pc # "idle"
               PROVE  edit'[u].pc = "idle"
    BY DEF AloneIsAlone
  <2>1. s = r BY <1>3
  <2> QED BY <2>1, <1>2, <1>3
<1>5. \A s \in Requests : Whole(edit'[s], s, text', blocks') BY <1>1, <1>2, <1>3
<1> QED BY <1>4, <1>5 DEF EditInv

LEMMA StartingIsWhole ==
    ASSUME IInv, NEW r \in Requests, NEW list \in Seq(Entries), NEW todo \in SUBSET BlockIds,
           NEW newText \in Authors \cup {None}, NEW triggers \in Nat,
           newText # None => list = <<>> /\ todo = {} /\ triggers > 0,
           newText = None => triggers = 0,
           newText = None => \A c \in BlockIds :
               blocks[c] # None => c \in todo \/ c \in Kept(list),
           NEW q, q = Starting(r, list, todo, newText, triggers)
    PROVE  /\ Whole(q, r, text, blocks)
           /\ q.alone => \A s \in Requests \ {r} : edit[s].pc = "idle"
<1>1. /\ q.pc = "statement" /\ q.list = list /\ q.at = 0 /\ q.todo = todo /\ q.text = newText
      /\ q.touched = {} /\ q.mine = NoRows /\ q.triggers = triggers /\ q.document = None
  BY DEF Starting
<1>2. q.alone => \A s \in Requests \ {r} : edit[s].pc = "idle" BY DEF Starting
<1>3. \A b \in BlockIds : q.mine[b] = None BY <1>1 DEF NoRows
<1>4. 0..(q.at - 1) = {} BY <1>1
<1>5. Ordered(q) BY <1>1 DEF Ordered
<1>6. Placed(q, r) BY <1>3, <1>4 DEF Placed
<1>7. Covered(q, r, blocks)
  <2> SUFFICES ASSUME newText = None, NEW c \in BlockIds, blocks[c] # None, c \notin todo
               PROVE  \E i \in (q.at + 1)..Len(q.list) : q.list[i][1] = c
    BY <1>1 DEF Covered
  <2>1. PICK i \in 1..Len(list) : list[i][1] = c BY DEF Kept
  <2> QED BY <2>1, <1>1
<1>8. Shows(q, r) BY <1>1 DEF Shows
<1>9. Tracks(q, text, blocks) BY <1>1 DEF Tracks
<1> QED BY <1>2, <1>5, <1>6, <1>7, <1>8, <1>9 DEF Whole

LEMMA EditGameWhole ==
    ASSUME EditInv, IInv', NEW r \in Requests, EditGame(r)
    PROVE  EditInv'
<1>1. PICK q : q = Starting(r, <<>>, {}, r, 1) OBVIOUS
<1>2. /\ r \in Authors \cup {None} /\ r # None
      /\ <<>> \in Seq(Entries) /\ {} \in SUBSET BlockIds /\ 1 \in Nat /\ 1 > 0
  BY DEF Authors
<1>3. IInv BY DEF EditInv
<1>4. /\ Whole(q, r, text, blocks)
      /\ q.alone => \A s \in Requests \ {r} : edit[s].pc = "idle"
  BY <1>1, <1>2, <1>3, StartingIsWhole, Zenon
<1>5. edit[r].pc = "idle" /\ Starts(r, q) /\ UNCHANGED Committed BY <1>1 DEF EditGame
<1> QED BY <1>4, <1>5, StartWhole

LEMMA EditGameBlocksWhole ==
    ASSUME EditInv, IInv', NEW r \in Requests, NEW list \in Lists, EditGameBlocks(r, list)
    PROVE  EditInv'
<1> DEFINE todo == Present(blocks) \ Kept(list)
<1>1. PICK q : q = Starting(r, list, todo, None, 0) OBVIOUS
<1>2. list \in Seq(Entries)
  <2>1. PICK n \in 0..MaxLength : list \in [1..n -> Entries] BY DEF Lists
  <2> QED BY <2>1
<1>3. todo \in SUBSET BlockIds BY DEF Present
<1>4. \A c \in BlockIds : blocks[c] # None => c \in todo \/ c \in Kept(list) BY DEF Present
<1>5. IInv BY DEF EditInv
<1>6. edit[r].pc = "idle" /\ Starts(r, q) /\ UNCHANGED Committed BY <1>1 DEF EditGameBlocks
<1> HIDE DEF todo
<1>7. None \in Authors \cup {None} /\ 0 \in Nat OBVIOUS
<1>8. /\ Whole(q, r, text, blocks)
      /\ q.alone => \A s \in Requests \ {r} : edit[s].pc = "idle"
  BY <1>1, <1>2, <1>3, <1>4, <1>5, <1>7, StartingIsWhole
<1> QED BY <1>6, <1>8, StartWhole

LEMMA DeleteBlockWhole ==
    ASSUME EditInv, IInv', NEW r \in Requests, NEW b \in BlockIds, DeleteBlock(r, b)
    PROVE  EditInv'
<1> DEFINE gone == blocks[b] = None
           touched == IF gone THEN edit[r].touched ELSE edit[r].touched \cup {b}
           triggers == IF gone THEN edit[r].triggers ELSE edit[r].triggers + 1
<1>1. PICK q : q = Writing(r, edit[r].at, edit[r].todo \ {b}, touched, edit[r].doubtful,
                           edit[r].mine, triggers)
  OBVIOUS
<1>2. edit[r].pc = "statement" /\ b \in edit[r].todo /\ Becomes(r, q) /\ UNCHANGED Committed
  BY <1>1 DEF DeleteBlock, DeleteRow
<1>3. /\ q.pc = "statement" /\ q.list = edit[r].list /\ q.at = edit[r].at
      /\ q.todo = edit[r].todo \ {b} /\ q.text = edit[r].text /\ q.touched = touched
      /\ q.mine = edit[r].mine /\ q.triggers = triggers /\ q.document = edit[r].document
  BY <1>1 DEF Writing
<1>4. q.alone => edit[r].alone BY <1>1 DEF Writing
<1>5. Whole(edit[r], r, text, blocks) /\ edit[r].triggers \in Nat BY DEF EditInv, IInv, Records
<1>6. edit[r].text = None BY <1>2, <1>5 DEF Whole, Ordered
<1>7. q.touched # {} => q.triggers > 0
  <2>1. edit[r].touched # {} => edit[r].triggers > 0 BY <1>2, <1>5 DEF Whole, Ordered
  <2> QED BY <2>1, <1>3, <1>5
<1>8. q.touched = {} => gone /\ edit[r].touched = {} BY <1>3
<1>9. Ordered(q) BY <1>3, <1>5, <1>6, <1>7, <1>8 DEF Whole, Ordered
<1>10. Placed(q, r) BY <1>3, <1>5 DEF Whole, Placed
<1>11. Covered(q, r, blocks)
  <2> SUFFICES ASSUME NEW c \in BlockIds \ q.touched, blocks[c] # None,
                      q.alone \/ blocks[c].content = r
               PROVE  c \in q.todo \/ \E i \in (q.at + 1)..Len(q.list) : q.list[i][1] = c
    BY DEF Covered
  <2>1. c # b /\ c \notin edit[r].touched BY <1>3
  <2>2. \/ c \in edit[r].todo
        \/ \E i \in (edit[r].at + 1)..Len(edit[r].list) : edit[r].list[i][1] = c
    BY <2>1, <1>2, <1>4, <1>5, <1>6 DEF Whole, Covered
  <2> QED BY <2>1, <2>2, <1>3
<1>12. Shows(q, r)
  <2>1. q.pc = "statement" /\ q.text = None BY <1>3, <1>6
  <2>2. ~(q.triggers = 0 /\ q.touched # {}) BY <1>7
  <2> QED BY <2>1, <2>2 DEF Shows
<1>13. Tracks(q, text, blocks)
  <2>1. q.pc = "statement" /\ q.text = None BY <1>3, <1>6
  <2>2. ~(q.triggers = 0 /\ q.touched # {}) BY <1>7
  <2> QED BY <2>1, <2>2 DEF Tracks
<1>14. Whole(q, r, text, blocks) BY <1>9, <1>10, <1>11, <1>12, <1>13 DEF Whole
<1> QED BY <1>2, <1>4, <1>14, StepWhole

\* A row goes to the next place of the list, which names it or, for a block
\* without an id, nobody.
LEMMA WriteBlockWhole ==
    ASSUME EditInv, IInv', NEW r \in Requests, NEW b \in BlockIds, NEW calls \in Nat, calls > 0,
           Ready(r), edit[r].at < Len(edit[r].list),
           \/ NextEntry(r)[1] = b
           \/ NextEntry(r) = New /\ b \notin Kept(edit[r].list) /\ b \notin edit[r].touched,
           WriteBlock(r, b, edit[r].at, calls), UNCHANGED Committed
    PROVE  EditInv'
<1> DEFINE row == [content |-> r, position |-> edit[r].at]
           mine == [edit[r].mine EXCEPT ![b] = row]
           list == edit[r].list
           at == edit[r].at
           doubtful == IF CommittedAt(r, at) \ {b} # {} \/ WritersAt(r, at) # {}
                       THEN edit[r].doubtful \cup {b} ELSE edit[r].doubtful \ {b}
<1>1. PICK q : q = Writing(r, at + 1, edit[r].todo, edit[r].touched \cup {b}, doubtful, mine, calls)
  OBVIOUS
<1>2. Becomes(r, q) BY <1>1 DEF WriteBlock
<1>3. /\ edit[r].pc = "statement" /\ edit[r].todo = {} /\ edit[r].triggers = 0
      /\ edit[r].at < Len(edit[r].list)
  BY DEF Ready
<1>4. /\ q.pc = "statement" /\ q.list = list /\ q.at = at + 1 /\ q.todo = {}
      /\ q.text = edit[r].text /\ q.touched = edit[r].touched \cup {b}
      /\ q.mine = mine /\ q.triggers = calls /\ q.document = edit[r].document
  BY <1>1, <1>3 DEF Writing
<1>5. q.alone => edit[r].alone BY <1>1 DEF Writing
<1>6. Whole(edit[r], r, text, blocks) /\ Sound(edit[r]) /\ edit[r] \in Records
  BY DEF EditInv, IInv
<1>7. at \in Nat /\ list \in Seq(Entries) /\ edit[r].mine \in Tables /\ at + 1 \in 1..Len(list)
  BY <1>3, <1>6 DEF Records
<1>8. edit[r].text = None
  <2>1. list # <<>> BY <1>7
  <2> QED BY <2>1, <1>6 DEF Whole, Ordered
<1>9. \/ list[at + 1][1] = b
      \/ list[at + 1] = New /\ b \notin Kept(list) /\ b \notin edit[r].touched
  BY DEF NextEntry
<1>10. row # None /\ row.content = r /\ row.position = at
  BY <1>7, NoneAssumption DEF Rows, Authors
<1>11. mine[b] = row /\ \A c \in BlockIds \ {b} : mine[c] = edit[r].mine[c]
  BY <1>7 DEF Tables
<1>12. \A i \in 1..Len(list) : list[i] = New => list[i][1] \notin BlockIds BY DEF New
<1> HIDE DEF row, mine, list, at, doubtful
<1>13. Ordered(q)
  <2>1. q.triggers > 0 /\ q.touched # {} BY <1>4
  <2> QED BY <2>1, <1>4, <1>8 DEF Ordered
<1>14. /\ \A c \in BlockIds : edit[r].mine[c] # None =>
            /\ edit[r].mine[c].content = r
            /\ \/ list[edit[r].mine[c].position + 1][1] = c
               \/ list[edit[r].mine[c].position + 1] = New /\ c \notin Kept(list)
       /\ NamesBlocksOnce(list) =>
            \A i \in 0..(at - 1) : \E c \in BlockIds :
                edit[r].mine[c] # None /\ edit[r].mine[c].position = i
  BY <1>6 DEF Whole, Placed, list, at
<1>15. \A c \in BlockIds : edit[r].mine[c] # None =>
        /\ c \in edit[r].touched /\ edit[r].mine[c].position \in Nat
        /\ edit[r].mine[c].position < at
  BY <1>6, <1>7 DEF Sound, Tables, Rows, at
<1>16. NamesBlocksOnce(list) => edit[r].mine[b] = None
  <2> SUFFICES ASSUME NamesBlocksOnce(list), edit[r].mine[b] # None PROVE FALSE OBVIOUS
  <2>1. PICK k \in Nat : k = edit[r].mine[b].position BY <1>15
  <2>2. k < at /\ k + 1 \in 1..Len(list) /\ k + 1 # at + 1 BY <2>1, <1>7, <1>15
  <2>3. \/ list[k + 1][1] = b
        \/ list[k + 1] = New /\ b \notin Kept(list)
    <3>1. \/ list[edit[r].mine[b].position + 1][1] = b
          \/ list[edit[r].mine[b].position + 1] = New /\ b \notin Kept(list)
      BY <1>14, Zenon
    <3> QED BY <2>1, <3>1, Zenon
  <2>4. b \in edit[r].touched BY <1>15
  <2>5. list[at + 1][1] = b BY <2>4, <1>9
  <2>6. b \in Kept(list) BY <2>5, <1>7 DEF Kept
  <2>7. list[k + 1][1] = b BY <2>3, <2>6
  <2>8. list[k + 1] = New BY <2>2, <2>5, <2>7, <1>7 DEF NamesBlocksOnce
  <2> QED BY <2>2, <2>7, <2>8, <1>12
<1>17. Placed(q, r)
  <2>1. ASSUME NEW c \in BlockIds, mine[c] # None
        PROVE  /\ mine[c].content = r
               /\ \/ list[mine[c].position + 1][1] = c
                  \/ list[mine[c].position + 1] = New /\ c \notin Kept(list)
    <3>1. CASE c = b BY <3>1, <1>9, <1>10, <1>11
    <3>2. CASE c # b BY <3>2, <2>1, <1>11, <1>14
    <3> QED BY <3>1, <3>2
  <2>2. ASSUME NamesBlocksOnce(list), NEW i \in 0..at
        PROVE  \E c \in BlockIds : mine[c] # None /\ mine[c].position = i
    <3>1. CASE i = at BY <3>1, <1>10, <1>11
    <3>2. CASE i # at
      <4>1. i \in 0..(at - 1) BY <3>2, <1>7
      <4>2. PICK c \in BlockIds : edit[r].mine[c] # None /\ edit[r].mine[c].position = i
        BY <4>1, <2>2, <1>14
      <4>3. c # b BY <4>2, <2>2, <1>16
      <4> QED BY <4>2, <4>3, <1>11
    <3> QED BY <3>1, <3>2
  <2>3. 0..(q.at - 1) = 0..at BY <1>4, <1>7
  <2> QED BY <2>1, <2>2, <2>3, <1>4 DEF Placed
<1>18. Covered(q, r, blocks)
  <2> SUFFICES ASSUME NEW c \in BlockIds \ q.touched, blocks[c] # None,
                      q.alone \/ blocks[c].content = r
               PROVE  \E i \in (q.at + 1)..Len(q.list) : q.list[i][1] = c
    BY DEF Covered
  <2>1. c # b /\ c \notin edit[r].touched BY <1>4
  <2>2. PICK i \in (at + 1)..Len(list) : list[i][1] = c
    <3>1. \/ c \in edit[r].todo
          \/ \E i \in (edit[r].at + 1)..Len(edit[r].list) : edit[r].list[i][1] = c
      BY <2>1, <1>3, <1>5, <1>6, <1>8 DEF Whole, Covered
    <3> QED BY <3>1, <1>3 DEF at, list
  <2>3. i # at + 1 BY <2>1, <2>2, <1>7, <1>9, <1>12
  <2>4. i \in (at + 2)..Len(list) BY <2>2, <2>3, <1>7
  <2>5. (q.at + 1)..Len(q.list) = (at + 2)..Len(list) BY <1>4, <1>7
  <2> QED BY <2>2, <2>4, <2>5, <1>4
<1>19. Shows(q, r)
  <2>1. q.pc = "statement" /\ q.text = None /\ q.triggers # 0 BY <1>4, <1>8
  <2> QED BY <2>1 DEF Shows
<1>20. Tracks(q, text, blocks)
  <2>1. q.pc = "statement" /\ q.triggers # 0 BY <1>4
  <2> QED BY <2>1 DEF Tracks
<1>21. Whole(q, r, text, blocks) BY <1>13, <1>17, <1>18, <1>19, <1>20 DEF Whole
<1> QED BY <1>2, <1>3, <1>5, <1>21, StepWhole

LEMMA InsertBlockWhole ==
    ASSUME EditInv, IInv', NEW r \in Requests, NEW b \in BlockIds, InsertBlock(r, b)
    PROVE  EditInv'
<1>1. b \notin Kept(edit[r].list) /\ b \notin edit[r].touched BY DEF InsertBlock, Fresh
<1>2. /\ Ready(r) /\ edit[r].at < Len(edit[r].list) /\ NextEntry(r) = New
      /\ WriteBlock(r, b, edit[r].at, 1) /\ UNCHANGED Committed
  BY DEF InsertBlock
<1>3. 1 \in Nat /\ 1 > 0 OBVIOUS
<1> QED BY <1>1, <1>2, <1>3, WriteBlockWhole

LEMMA UpdateBlockWhole ==
    ASSUME EditInv, IInv', NEW r \in Requests, UpdateBlock(r)
    PROVE  EditInv'
<1> DEFINE b == NextEntry(r)[1]
<1>1. edit[r] \in Records BY DEF EditInv, IInv
<1>2. Ready(r) /\ edit[r].at < Len(edit[r].list) /\ NextEntry(r) # New BY DEF UpdateBlock
<1>3. b \in BlockIds
  <2>1. edit[r].list \in Seq(Entries) /\ edit[r].at + 1 \in 1..Len(edit[r].list)
    BY <1>1, <1>2 DEF Records
  <2>2. NextEntry(r) \in Entries BY <2>1 DEF NextEntry
  <2> QED BY <2>2, <1>2 DEF Entries
<1>4. CASE Rollback(r) BY <1>2, <1>4, RollbackWhole DEF Ready
<1>5. CASE WriteBlock(r, b, edit[r].at, 2) /\ UNCHANGED Committed
  <2>1. 2 \in Nat /\ 2 > 0 OBVIOUS
  <2> QED BY <1>2, <1>3, <1>5, <2>1, WriteBlockWhole
<1> QED BY <1>4, <1>5 DEF UpdateBlock

\* Once nothing of the list is left, the rows of r that r sees are the ones it
\* has written.
LEMMA SeenRowsAreNumbered ==
    ASSUME EditInv, NEW r \in Requests, edit[r].text = None, edit[r].pc # "idle",
           edit[r].todo = {}, edit[r].at = Len(edit[r].list), NamesBlocksOnce(edit[r].list)
    PROVE  Numbered(Sees(r), r, edit[r].at)
<1> DEFINE rows == Sees(r)
           mine == edit[r].mine
           at == edit[r].at
<1>1. Whole(edit[r], r, text, blocks) /\ Sound(edit[r]) /\ edit[r] \in Records
  BY DEF EditInv, IInv
<1>2. at \in Nat /\ edit[r].list \in Seq(Entries) /\ mine \in Tables BY <1>1 DEF Records
<1>3. \A c \in BlockIds : rows[c] = IF c \in edit[r].touched THEN mine[c] ELSE blocks[c]
  BY DEF Sees
<1>4. \A c \in BlockIds : mine[c] # None =>
        c \in edit[r].touched /\ mine[c].content = r /\ mine[c].position < at
  BY <1>1 DEF Sound, Whole, Placed
<1>5. \A c \in BlockIds \ edit[r].touched : ~(blocks[c] # None /\ blocks[c].content = r)
  <2>1. (at + 1)..Len(edit[r].list) = {} BY <1>2
  <2> QED BY <2>1, <1>1 DEF Whole, Covered
<1> HIDE DEF rows, mine, at
<1>6. \A c \in BlockIds : rows[c] # None /\ rows[c].content = r =>
        mine[c] # None /\ rows[c] = mine[c]
  BY <1>3, <1>5
<1>7. \A c \in BlockIds : mine[c] # None => rows[c] = mine[c] /\ rows[c].content = r
  BY <1>3, <1>4
<1>8. \A b \in BlockIds : rows[b] # None /\ rows[b].content = r => rows[b].position < at
  BY <1>4, <1>6
<1>9. ASSUME NEW b \in BlockIds, NEW c \in BlockIds, rows[b] # None, rows[c] # None,
             rows[b].content = r, rows[c].content = r, rows[b].position = rows[c].position
      PROVE  b = c
  <2>1. mine[b] # None /\ mine[c] # None /\ mine[b].position = mine[c].position
    BY <1>6, <1>9
  <2>2. Distinct(mine) BY <1>1 DEF Sound, mine
  <2> QED BY <2>1, <2>2 DEF Distinct
<1>10. ASSUME NEW i \in 0..(at - 1)
       PROVE  \E b \in BlockIds : rows[b] # None /\ rows[b].content = r /\ rows[b].position = i
  <2>1. PICK b \in BlockIds : mine[b] # None /\ mine[b].position = i
    BY <1>1 DEF Whole, Placed, mine, at
  <2> QED BY <2>1, <1>7
<1>11. Numbered(rows, r, at) BY <1>8, <1>9, <1>10 DEF Numbered
<1> QED BY <1>11 DEF rows, at

LEMMA ComputeDocumentWhole ==
    ASSUME EditInv, IInv', NEW r \in Requests, ComputeDocument(r)
    PROVE  EditInv'
<1> DEFINE found == DocumentOf(SeesText(r), Sees(r))
<1>1. PICK q : q = Refreshing(r, "upsert", edit[r].triggers, found, edit[r].document) OBVIOUS
<1>2. /\ edit[r].pc = "statement" /\ edit[r].todo = {} /\ edit[r].triggers > 0
      /\ Becomes(r, q) /\ UNCHANGED Committed
  BY <1>1 DEF ComputeDocument
<1>3. /\ q.pc = "upsert" /\ q.list = edit[r].list /\ q.at = edit[r].at /\ q.todo = {}
      /\ q.text = edit[r].text /\ q.touched = edit[r].touched /\ q.mine = edit[r].mine
      /\ q.triggers = edit[r].triggers /\ q.found = found /\ q.document = edit[r].document
      /\ q.alone = edit[r].alone
  BY <1>1, <1>2 DEF Refreshing
<1>4. IInv /\ Whole(edit[r], r, text, blocks) /\ edit[r] \in Records BY DEF EditInv, IInv
<1>5. found = DocumentOf(ReadsIn(q, text), SeesIn(q, blocks))
  BY <1>3 DEF SeesText, Sees, ReadsIn, SeesIn
<1>6. q.triggers # 0 BY <1>2, <1>3, <1>4 DEF Records
<1>7. Ordered(q) BY <1>3, <1>4 DEF Whole, Ordered
<1>8. Placed(q, r) BY <1>3, <1>4 DEF Whole, Placed
<1>9. Covered(q, r, blocks) BY <1>2, <1>3, <1>4 DEF Whole, Covered
<1>10. Shows(q, r)
  <2>1. found.text = SeesText(r) BY DEF DocumentOf
  <2>2. edit[r].text # None => SeesText(r) = edit[r].text BY DEF SeesText
  <2>3. ASSUME edit[r].text = None, edit[r].at = Len(edit[r].list), NamesBlocksOnce(edit[r].list)
        PROVE  Entered(found, r) = edit[r].at
    <3>1. Numbered(Sees(r), r, edit[r].at) BY <1>2, <2>3, SeenRowsAreNumbered
    <3>2. Sees(r) \in Tables /\ edit[r].at \in Nat BY <1>4, SeenTypes DEF Records
    <3> QED BY <3>1, <3>2, OwnEntries
  <2> HIDE DEF found
  <2> QED BY <2>1, <2>2, <2>3, <1>3, <1>6 DEF Shows
<1> HIDE DEF found
<1>11. Tracks(q, text, blocks) BY <1>3, <1>5, <1>6 DEF Tracks
<1>12. Whole(q, r, text, blocks) BY <1>7, <1>8, <1>9, <1>10, <1>11 DEF Whole
<1>13. edit[r].pc # "idle" /\ (q.alone => edit[r].alone) BY <1>2, <1>3
<1> QED BY <1>2, <1>12, <1>13, StepWhole

LEMMA UpsertDocumentWhole ==
    ASSUME EditInv, IInv', NEW r \in Requests, UpsertDocument(r)
    PROVE  EditInv'
<1>1. PICK q : q = Refreshing(r, "statement", edit[r].triggers - 1, None, edit[r].found) OBVIOUS
<1>2. edit[r].pc = "upsert" /\ Becomes(r, q) /\ UNCHANGED Committed BY <1>1 DEF UpsertDocument
<1>3. /\ q.pc = "statement" /\ q.list = edit[r].list /\ q.at = edit[r].at
      /\ q.todo = edit[r].todo /\ q.text = edit[r].text /\ q.touched = edit[r].touched
      /\ q.mine = edit[r].mine /\ q.document = edit[r].found /\ q.alone = edit[r].alone
  BY <1>1 DEF Refreshing
<1>4. Whole(edit[r], r, text, blocks) /\ Sound(edit[r]) /\ edit[r] \in Records
  BY DEF EditInv, IInv
<1>5. q.todo = {} /\ edit[r].triggers > 0 /\ edit[r].triggers \in Nat
      /\ edit[r].found \in Documents
  BY <1>2, <1>3, <1>4 DEF Whole, Ordered, Sound, Records
<1>6. q.document # None BY <1>3, <1>5, NoneAssumption
<1>7. edit[r].touched # {} \/ edit[r].text # None BY <1>4, <1>5 DEF Whole, Ordered
<1>8. Ordered(q) BY <1>3, <1>4, <1>5, <1>7 DEF Whole, Ordered
<1>9. Placed(q, r) BY <1>3, <1>4 DEF Whole, Placed
<1>10. Covered(q, r, blocks) BY <1>2, <1>3, <1>4 DEF Whole, Covered
<1>11. Shows(q, r) BY <1>2, <1>3, <1>4, <1>6 DEF Whole, Shows
<1>12. Tracks(q, text, blocks)
  <2>1. ReadsIn(q, text) = ReadsIn(edit[r], text) /\ SeesIn(q, blocks) = SeesIn(edit[r], blocks)
    BY <1>3 DEF ReadsIn, SeesIn
  <2> QED BY <2>1, <1>2, <1>3, <1>4 DEF Whole, Tracks
<1>13. Whole(q, r, text, blocks) BY <1>8, <1>9, <1>10, <1>11, <1>12 DEF Whole
<1>14. edit[r].pc # "idle" /\ (q.alone => edit[r].alone) BY <1>2, <1>3
<1> QED BY <1>2, <1>13, <1>14, StepWhole

\* Others see what r commits, which is r's, and they are not alone.
LEMMA CommitWhole ==
    ASSUME EditInv, IInv', NEW r \in Requests, Commit(r)
    PROVE  EditInv'
<1>1. edit[r].pc = "statement" BY DEF Commit, Finished, Ready
<1>2. CASE Rollback(r) BY <1>1, <1>2, RollbackWhole
<1>3. CASE blocks' = Sees(r) /\ Becomes(r, Idle)
  <2>1. edit'[r] = Idle /\ \A s \in Requests \ {r} : edit'[s] = edit[s]
    BY <1>3 DEF EditInv, IInv, Becomes
  <2>2. AloneIsAlone'
    <3>1. Idle.pc = "idle" BY DEF Idle
    <3> SUFFICES ASSUME NEW s \in Requests, NEW u \in Requests, s # u,
                        edit'[s].alone, edit'[s].pc # "idle"
                 PROVE  edit'[u].pc = "idle"
      BY DEF AloneIsAlone
    <3>2. s # r BY <2>1, <3>1
    <3> QED BY <2>1, <3>1, <3>2 DEF EditInv, AloneIsAlone
  <2>3. ASSUME NEW s \in Requests \ {r} PROVE Whole(edit[s], s, text', blocks')
    <3>1. PICK q : q = edit[s] OBVIOUS
    <3>2. Whole(q, s, text, blocks) BY <3>1 DEF EditInv
    <3>3. q.pc = "idle" \/ ~q.alone BY <1>1, <3>1 DEF EditInv, AloneIsAlone
    <3>4. Covered(q, s, blocks')
      <4> SUFFICES ASSUME q.text = None, q.pc # "idle", NEW c \in BlockIds \ q.touched,
                          blocks'[c] # None, blocks'[c].content = s
                   PROVE  c \in q.todo \/ \E i \in (q.at + 1)..Len(q.list) : q.list[i][1] = c
        BY <3>3 DEF Covered
      <4>1. blocks'[c] = IF c \in edit[r].touched THEN edit[r].mine[c] ELSE blocks[c]
        BY <1>3 DEF Sees
      <4>2. CASE c \in edit[r].touched
        <5>1. edit[r].mine[c].content = r BY <4>1, <4>2 DEF EditInv, Whole, Placed
        <5> QED BY <4>1, <4>2, <5>1
      <4>3. CASE c \notin edit[r].touched BY <3>2, <4>1, <4>3 DEF Whole, Covered
      <4> QED BY <4>2, <4>3
    <3>5. Tracks(q, text', blocks')
      <4>1. q.pc = "idle" => q.touched = {} /\ q.text = None
        BY <3>2 DEF Whole, Ordered, Idle
      <4> QED BY <3>3, <4>1 DEF Tracks
    <3> QED BY <3>1, <3>2, <3>4, <3>5 DEF Whole
  <2>4. \A s \in Requests : Whole(edit'[s], s, text', blocks') BY <2>1, <2>3, IdleIsWhole
  <2> QED BY <2>2, <2>4 DEF EditInv
<1> QED BY <1>2, <1>3 DEF Commit

LEMMA NextWhole == EditInv /\ [Next]_vars => EditInv'
<1> SUFFICES ASSUME EditInv, [Next]_vars PROVE EditInv' OBVIOUS
<1>1. IInv' BY NextKeeps DEF EditInv
<1>2. CASE UNCHANGED vars
  <2>1. text' = text /\ blocks' = blocks /\ edit' = edit BY <1>2 DEF vars
  <2>2. AloneIsAlone' BY <2>1 DEF EditInv, AloneIsAlone
  <2>3. \A r \in Requests : Whole(edit'[r], r, text', blocks') BY <2>1 DEF EditInv
  <2> QED BY <1>1, <2>2, <2>3 DEF EditInv
<1>3. CASE Next
  <2>1. PICK r \in Requests :
          \/ EditGame(r)
          \/ \E list \in Lists : EditGameBlocks(r, list)
          \/ Statement(r)
          \/ Abort(r)
          \/ DeadlockVictim(r)
    BY <1>3 DEF Next
  <2>2. CASE EditGame(r) BY <1>1, <2>2, EditGameWhole
  <2>3. CASE \E list \in Lists : EditGameBlocks(r, list) BY <1>1, <2>3, EditGameBlocksWhole
  <2>4. CASE Statement(r)
    <3>1. CASE \E b \in BlockIds : DeleteBlock(r, b) BY <1>1, <3>1, DeleteBlockWhole
    <3>2. CASE \E b \in BlockIds : InsertBlock(r, b) BY <1>1, <3>2, InsertBlockWhole
    <3>3. CASE UpdateBlock(r) BY <1>1, <3>3, UpdateBlockWhole
    <3>4. CASE ComputeDocument(r) BY <1>1, <3>4, ComputeDocumentWhole
    <3>5. CASE UpsertDocument(r) BY <1>1, <3>5, UpsertDocumentWhole
    <3>6. CASE Commit(r) BY <1>1, <3>6, CommitWhole
    <3> QED BY <2>4, <3>1, <3>2, <3>3, <3>4, <3>5, <3>6 DEF Statement
  <2>5. CASE Abort(r) BY <1>1, <2>5, RollbackWhole DEF Abort
  <2>6. CASE DeadlockVictim(r)
    <3>1. edit[r].pc # "idle"
      <4>1. WaitsFor(r) # {} BY <2>6 DEF DeadlockVictim, Deadlocked
      <4> QED BY <4>1 DEF WaitsFor, Ready, Finished
    <3> QED BY <1>1, <2>6, <3>1, RollbackWhole DEF DeadlockVictim
  <2> QED BY <2>1, <2>2, <2>3, <2>4, <2>5, <2>6
<1> QED BY <1>2, <1>3

\* The inductive invariant of the edits: what each has written is what its
\* list says, and its documents show it.
THEOREM EditInvariance == Spec => []EditInv
<1>1. Init => EditInv BY InitEditInv
<1>2. EditInv /\ [Next]_vars => EditInv' BY NextWhole
<1> QED BY <1>1, <1>2, PTL DEF Spec

\* Only its own COMMIT ends a request with something committed.
LEMMA OnlyCommitEnds ==
    ASSUME IInv, Next, NEW r \in Requests, ~UNCHANGED Committed,
           edit[r].pc # "idle", edit'[r].pc = "idle"
    PROVE  Commit(r)
<1>1. PICK s \in Requests :
        \/ EditGame(s)
        \/ \E list \in Lists : EditGameBlocks(s, list)
        \/ Statement(s)
        \/ Abort(s)
        \/ DeadlockVictim(s)
  BY DEF Next
<1>2. Commit(s)
  BY <1>1 DEF EditGame, EditGameBlocks, Statement, DeleteBlock, InsertBlock, UpdateBlock,
              ComputeDocument, UpsertDocument, Abort, DeadlockVictim, Rollback
<1>3. Becomes(s, Idle) BY <1>2 DEF Commit, Rollback
<1>4. s # r => edit'[r] = edit[r] BY <1>3 DEF IInv, Becomes
<1> QED BY <1>2, <1>4

LEMMA CommitShows ==
    ASSUME EditInv, NEW r \in Requests, Commit(r), ~UNCHANGED Committed,
           NamesBlocksOnce(edit[r].list)
    PROVE  IF edit[r].text # None
           THEN document'.text = edit[r].text
           ELSE edit[r].at = Entered(document', r)
<1>1. Whole(edit[r], r, text, blocks) BY DEF EditInv
<1>2. /\ edit[r].pc = "statement" /\ edit[r].todo = {} /\ edit[r].triggers = 0
      /\ edit[r].at = Len(edit[r].list)
  BY DEF Commit, Finished, Ready
<1>3. /\ text' = SeesText(r) /\ blocks' = Sees(r)
      /\ document' = IF edit[r].document = None THEN document ELSE edit[r].document
  BY DEF Commit, Rollback
<1>4. CASE edit[r].text # None BY <1>1, <1>2, <1>3, <1>4 DEF Whole, Shows
<1>5. CASE edit[r].text = None /\ edit[r].touched # {}
  BY <1>1, <1>2, <1>3, <1>5 DEF Whole, Shows
<1>6. CASE edit[r].text = None /\ edit[r].touched = {}
  <2>1. text' = text BY <1>3, <1>6 DEF SeesText
  <2>2. blocks' = blocks BY <1>3, <1>6 DEF Sees, EditInv, IInv, Tables
  <2>3. document' = document BY <1>1, <1>3, <1>6 DEF Whole, Ordered
  <2> QED BY <2>1, <2>2, <2>3 DEF Committed
<1> QED BY <1>4, <1>5, <1>6

\* A saved edit can be found: after EditGame the search document has its text,
\* after EditGameBlocks the blocks of its list, whatever ran beside it.
THEOREM SavedEditsShow == Spec => EditShowsItself
<1>1. ASSUME EditInv, [Next]_vars, NEW r \in Requests, Committed' # Committed,
             edit[r].pc # "idle", edit'[r].pc = "idle", NamesBlocksOnce(edit[r].list)
      PROVE  IF edit[r].text # None
             THEN document'.text = edit[r].text
             ELSE edit[r].at = Cardinality({entry \in document'.body : entry[1] = r})
  <2>1. ~UNCHANGED Committed /\ IInv BY <1>1 DEF EditInv
  <2>2. Next BY <1>1 DEF vars
  <2>3. Commit(r) BY <1>1, <2>1, <2>2, OnlyCommitEnds
  <2> QED BY <1>1, <2>1, <2>3, CommitShows DEF Entered
<1>2. EditInv /\ [Next]_vars => [
        \A r \in Requests :
            /\ Committed' # Committed /\ edit[r].pc # "idle" /\ edit'[r].pc = "idle"
            /\ NamesBlocksOnce(edit[r].list)
            => IF edit[r].text # None
               THEN document'.text = edit[r].text
               ELSE edit[r].at = Cardinality({entry \in document'.body : entry[1] = r})]_vars
  BY <1>1
<1> QED BY <1>2, EditInvariance, PTL DEF Spec, EditShowsItself

LEMMA AloneCommits ==
    ASSUME EditInv, NEW r \in Requests, edit[r].alone, Commit(r)
    PROVE  /\ edit[r].text # None \/ edit[r].touched # {} => document' = DocumentOf(text', blocks')
           /\ edit[r].text = None /\ NamesBlocksOnce(edit[r].list) =>
                {blocks'[b].position : b \in Present(blocks')} = 0..(Len(edit[r].list) - 1)
<1>1. Whole(edit[r], r, text, blocks) /\ Sound(edit[r]) /\ edit[r] \in Records /\ IInv
  BY DEF EditInv, IInv
<1>2. /\ edit[r].pc = "statement" /\ edit[r].todo = {} /\ edit[r].triggers = 0
      /\ edit[r].at = Len(edit[r].list)
  BY DEF Commit, Finished, Ready
<1>3. edit[r].at \in Nat /\ edit[r].list \in Seq(Entries) /\ edit[r].mine \in Tables
  BY <1>1 DEF Records
<1>4. edit[r].text = None => \A c \in BlockIds \ edit[r].touched : blocks[c] = None
  <2>1. (edit[r].at + 1)..Len(edit[r].list) = {} BY <1>2, <1>3
  <2> QED BY <2>1, <1>1, <1>2 DEF Whole, Covered
\* Nobody is at its positions, so that it is not turned away.
<1>5. \A p \in Doubts(r) : CommittedAt(r, p) = {}
  <2>1. CASE edit[r].text # None
    <3>1. edit[r].doubtful = {} BY <2>1, <1>1 DEF Whole, Ordered, Sound
    <3> QED BY <3>1 DEF Doubts
  <2>2. CASE edit[r].text = None BY <2>2, <1>4 DEF CommittedAt
  <2> QED BY <2>1, <2>2
<1>6. /\ text' = SeesText(r) /\ blocks' = Sees(r)
      /\ document' = IF edit[r].document = None THEN document ELSE edit[r].document
  BY <1>5 DEF Commit
<1>7. ASSUME edit[r].text # None \/ edit[r].touched # {}
      PROVE  document' = DocumentOf(text', blocks')
  <2>1. edit[r].document = DocumentOf(SeesText(r), Sees(r))
    BY <1>1, <1>2, <1>7 DEF Whole, Tracks, ReadsIn, SeesIn, SeesText, Sees
  <2>2. DocumentOf(SeesText(r), Sees(r)) # None
    BY <1>1, SeenTypes, DocumentType, NoneAssumption
  <2> QED BY <2>1, <2>2, <1>6
<1>8. ASSUME edit[r].text = None, NamesBlocksOnce(edit[r].list)
      PROVE  {blocks'[b].position : b \in Present(blocks')} = 0..(Len(edit[r].list) - 1)
  <2> DEFINE mine == edit[r].mine
             n == Len(edit[r].list)
  <2>1. \A b \in BlockIds : blocks'[b] = IF b \in edit[r].touched THEN mine[b] ELSE blocks[b]
    BY <1>6 DEF Sees
  <2>2. \A b \in BlockIds : mine[b] # None =>
          b \in edit[r].touched /\ mine[b].position \in Nat /\ mine[b].position < n
    BY <1>1, <1>2, <1>3 DEF Sound, Tables, Rows
  <2>3. \A b \in Present(blocks') : mine[b] # None /\ blocks'[b] = mine[b]
    BY <2>1, <1>4, <1>8 DEF Present
  <2>4. \A b \in Present(blocks') : blocks'[b].position \in 0..(n - 1)
    BY <2>2, <2>3, <1>3 DEF Present
  <2>5. ASSUME NEW i \in 0..(n - 1)
        PROVE  \E b \in Present(blocks') : blocks'[b].position = i
    <3>1. PICK b \in BlockIds : mine[b] # None /\ mine[b].position = i
      BY <1>1, <1>2, <1>8 DEF Whole, Placed
    <3> QED BY <3>1, <2>1, <2>2 DEF Present
  <2> HIDE DEF n, mine
  <2>6. {blocks'[b].position : b \in Present(blocks')} = 0..(n - 1) BY <2>4, <2>5
  <2> QED BY <2>6 DEF n
<1> QED BY <1>7, <1>8

\* An edit nobody ran beside leaves the document the game's and its list
\* numbered from zero without a gap, whatever earlier ones had left.
THEOREM LoneEditsAreWhole == Spec => EditAloneIsWhole
<1>1. EditInv /\ [Next]_vars => [
        \A r \in Requests : edit[r].alone /\ Commit(r) =>
            /\ edit[r].text # None \/ edit[r].touched # {} => document' = DocumentOf(text', blocks')
            /\ edit[r].text = None /\ NamesBlocksOnce(edit[r].list) =>
                {blocks'[b].position : b \in Present(blocks')} = 0..(Len(edit[r].list) - 1)]_vars
  BY AloneCommits
<1> QED BY <1>1, EditInvariance, PTL DEF Spec, EditAloneIsWhole
=============================================================================
