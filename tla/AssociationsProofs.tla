------------------------- MODULE AssociationsProofs -------------------------
(***************************************************************************)
(* Proofs about Associations, for any links and any number of requests.    *)
(* The argument: no two requests hold one link, one request at a time      *)
(* updates the game, and nobody shares a key that is being changed; so     *)
(* what a request found under its locks is so when it commits.             *)
(***************************************************************************)
EXTENDS Associations, TLAPS

USE LinksAssumption

Records == [pc : {"idle", "replacing", "flagging"}, table : {{}, Categories, Materials},
            asked : SUBSET Items, todo : SUBSET Items, left : SUBSET Items,
            deleted : SUBSET Items, inserted : SUBSET Items, rewritten : SUBSET Items,
            shares : BOOLEAN, flag : BOOLEAN, alone : BOOLEAN]

Locks(q) == q.deleted \cup q.inserted \cup q.rewritten

\* What is so of a request whatever the tables hold.
Sound(q) ==
    /\ q \in Records
    /\ q.todo \cup q.deleted \subseteq q.table \ q.asked
    /\ q.left \cup q.inserted \cup q.rewritten \subseteq q.asked
    /\ q.asked \subseteq q.table
    /\ q.pc # "replacing" => q.left = {} /\ q.todo = {} /\ Locks(q) = {} /\ q.shares = FALSE
    /\ q.shares => q.todo = {} /\ q.left = {}
    /\ q.table = Materials => q.asked \ q.left \subseteq q.inserted \cup q.rewritten

\* What it found under its locks.
Grounded(q) ==
    /\ q.rewritten \subseteq links
    /\ q.shares /\ q.inserted \cap Materials # {} => ~noMaterials

\* What a replace nobody ran beside has yet to do.
OnCourse(q) ==
    /\ (links \cap q.table) \ q.asked \subseteq q.todo \cup q.deleted
    /\ q.asked \ q.left \subseteq links \cup q.inserted

\* Two requests do not have the same locks.
Apart(p, q) ==
    /\ Locks(p) \cap Locks(q) = {}
    /\ ~(p.pc = "flagging" /\ q.pc = "flagging")
    /\ p.pc = "flagging" /\ p.flag # noMaterials => ~q.shares

\* The inductive invariant.
IInv ==
    /\ links \subseteq Items
    /\ noMaterials \in BOOLEAN
    /\ req \in [Requests -> Records]
    /\ \A r \in Requests : Sound(req[r]) /\ Grounded(req[r])
    /\ \A r, s \in Requests : r # s => Apart(req[r], req[s])
    /\ \A r \in Requests : req[r].pc = "replacing" /\ req[r].alone =>
        Alone(r) /\ OnCourse(req[r])
    /\ FlaggedGamesHaveNoMaterials

LEMMA IdleIsSound == Sound(Idle) /\ Grounded(Idle)
<1>1. Idle \in Records BY DEF Idle, Records
<1> QED BY <1>1 DEF Sound, Grounded, Idle, Locks

LEMMA InitIInv == Init => IInv
<1> SUFFICES ASSUME Init PROVE IInv OBVIOUS
<1>1. links \subseteq Items /\ noMaterials \in BOOLEAN BY DEF Init, Items
<1>2. req \in [Requests -> Records] BY IdleIsSound DEF Init, Sound
<1>3. \A r \in Requests : req[r] = Idle BY DEF Init
<1>4. Apart(Idle, Idle) BY DEF Apart, Idle, Locks
<1>5. FlaggedGamesHaveNoMaterials BY DEF Init, FlaggedGamesHaveNoMaterials
<1>6. Idle.pc = "idle" BY DEF Idle
<1> QED BY <1>1, <1>2, <1>3, <1>4, <1>5, <1>6, IdleIsSound DEF IInv

\* A request gets further, or gives up, and nothing is committed.
LEMMA StepKeeps ==
    ASSUME IInv, NEW r \in Requests, NEW q, Becomes(r, q), UNCHANGED Committed,
           Sound(q), Grounded(q),
           q.pc # "idle" => q.pc = req[r].pc /\ q.alone = req[r].alone /\ q.flag = req[r].flag,
           \A s \in Requests \ {r} : Locks(q) \cap Locks(req[s]) = {},
           q.shares => KeyChangers(r) = {},
           q.pc = "replacing" /\ q.alone /\ OnCourse(req[r]) => OnCourse(q)
    PROVE  IInv'
<1>1. links' = links /\ noMaterials' = noMaterials BY DEF Committed
<1>2. req' \in [Requests -> Records] BY DEF IInv, Becomes, Sound
<1>3. req'[r] = q /\ \A s \in Requests \ {r} : req'[s] = req[s] BY DEF IInv, Becomes
<1>4. \A s \in Requests : Sound(req[s])' /\ Grounded(req[s])' BY <1>1, <1>3 DEF IInv, Grounded
<1>5. \A s, t \in Requests : s # t => Apart(req[s], req[t])'
  <2> SUFFICES ASSUME NEW s \in Requests, NEW t \in Requests, s # t
               PROVE  Apart(req[s], req[t])'
    OBVIOUS
  <2>0. noMaterials' = noMaterials BY <1>1
  <2>1. CASE s # r /\ t # r BY <2>0, <2>1, <1>3 DEF IInv, Apart
  <2>2. CASE s = r
    <3>1. Apart(req[r], req[t]) BY <2>2 DEF IInv
    <3>2. Locks(q) \cap Locks(req[t]) = {} BY <2>2
    <3>3. q.pc = "flagging" => req[r].pc = "flagging" /\ q.flag = req[r].flag OBVIOUS
    <3> QED BY <3>1, <3>2, <3>3, <2>0, <2>2, <1>3 DEF Apart
  <2>3. CASE t = r
    <3>1. Apart(req[s], req[r]) BY <2>3 DEF IInv
    <3>2. Locks(req[s]) \cap Locks(q) = {} BY <2>3
    <3>3. q.pc = "flagging" => req[r].pc = "flagging" OBVIOUS
    <3>4. req[s].pc = "flagging" /\ req[s].flag # noMaterials => s \in KeyChangers(r)
      BY <2>3 DEF KeyChangers, Updaters
    <3>5. req[s].pc = "flagging" /\ req[s].flag # noMaterials => ~q.shares BY <3>4
    <3> QED BY <3>1, <3>2, <3>3, <3>5, <2>0, <2>3, <1>3 DEF Apart
  <2> QED BY <2>1, <2>2, <2>3
<1>6. \A s \in Requests : req'[s].pc = "replacing" /\ req'[s].alone =>
        Alone(s)' /\ OnCourse(req[s])'
  <2> SUFFICES ASSUME NEW s \in Requests, req'[s].pc = "replacing", req'[s].alone
               PROVE  Alone(s)' /\ OnCourse(req[s])'
    OBVIOUS
  <2>1. req[s].pc = "replacing" /\ req[s].alone BY <1>3
  <2>2. Alone(s) /\ OnCourse(req[s]) BY <2>1 DEF IInv
  <2>3. Alone(s)' BY <2>2, <1>3 DEF Alone
  <2>4. OnCourse(req'[s])
    <3>1. CASE s = r BY <3>1, <2>2, <1>3
    <3>2. CASE s # r BY <3>2, <2>2, <1>3
    <3> QED BY <3>1, <3>2
  <2>5. OnCourse(req[s])' BY <2>4, <1>1 DEF OnCourse
  <2> QED BY <2>3, <2>5
<1>7. FlaggedGamesHaveNoMaterials' BY <1>1 DEF IInv, FlaggedGamesHaveNoMaterials
<1>8. links' \subseteq Items /\ noMaterials' \in BOOLEAN BY <1>1 DEF IInv
<1> QED BY <1>2, <1>4, <1>5, <1>6, <1>7, <1>8 DEF IInv

LEMMA RollbackKeeps ==
    ASSUME IInv, NEW r \in Requests, Rollback(r)
    PROVE  IInv'
<1>1. Becomes(r, Idle) /\ UNCHANGED Committed BY DEF Rollback
<1>2. Idle.pc = "idle" /\ Locks(Idle) = {} /\ Idle.shares = FALSE BY DEF Idle, Locks
<1> QED BY <1>1, <1>2, IdleIsSound, StepKeeps

\* A request starts, and holds nothing yet; an update of the game starts
\* alone.
LEMMA StartKeeps ==
    ASSUME IInv, NEW r \in Requests, NEW q, Starts(r, q), UNCHANGED Committed,
           req[r].pc = "idle", Sound(q), Locks(q) = {}, q.shares = FALSE,
           q.pc = "flagging" =>
               Updaters(r) = {} /\ (q.flag = noMaterials \/ Sharers(r) = {}),
           q.pc = "replacing" /\ q.alone => Alone(r) /\ OnCourse(q),
           q.pc # "idle"
    PROVE  IInv'
<1>1. links' = links /\ noMaterials' = noMaterials BY DEF Committed
<1>2. /\ req'[r] = q
      /\ \A s \in Requests \ {r} :
            req'[s] = [req[s] EXCEPT !.alone = @ /\ req[s].pc = "idle"]
  BY DEF Starts
<1>3. \A s \in Requests \ {r} :
        /\ req'[s] \in Records
        /\ req'[s].pc = req[s].pc /\ req'[s].table = req[s].table /\ req'[s].asked = req[s].asked
        /\ req'[s].todo = req[s].todo /\ req'[s].left = req[s].left
        /\ req'[s].deleted = req[s].deleted /\ req'[s].inserted = req[s].inserted
        /\ req'[s].rewritten = req[s].rewritten /\ req'[s].shares = req[s].shares
        /\ req'[s].flag = req[s].flag
        /\ req'[s].alone => req[s].pc = "idle"
  <2> SUFFICES ASSUME NEW s \in Requests \ {r}
               PROVE  /\ req'[s] \in Records
                      /\ req'[s].pc = req[s].pc /\ req'[s].table = req[s].table
                      /\ req'[s].asked = req[s].asked
                      /\ req'[s].todo = req[s].todo /\ req'[s].left = req[s].left
                      /\ req'[s].deleted = req[s].deleted /\ req'[s].inserted = req[s].inserted
                      /\ req'[s].rewritten = req[s].rewritten /\ req'[s].shares = req[s].shares
                      /\ req'[s].flag = req[s].flag
                      /\ req'[s].alone => req[s].pc = "idle"
    OBVIOUS
  <2>1. PICK alone \in BOOLEAN : alone = (req[s].alone /\ req[s].pc = "idle") OBVIOUS
  <2>2. req'[s] = [req[s] EXCEPT !.alone = alone] BY <1>2, <2>1, Zenon
  <2>3. req[s] \in Records BY DEF IInv
  <2>4. alone => req[s].pc = "idle" BY <2>1
  <2>5. req'[s].alone = alone BY <2>2, <2>3 DEF Records
  <2>6. req'[s] \in Records BY <2>2, <2>3 DEF Records
  <2> QED BY <2>2, <2>3, <2>4, <2>5, <2>6 DEF Records
<1>4. req' \in [Requests -> Records] BY <1>2, <1>3 DEF Starts, Sound
<1>5. \A s \in Requests : Sound(req[s])' /\ Grounded(req[s])'
  <2>1. Sound(req[r])' /\ Grounded(req[r])' BY <1>2 DEF Grounded, Locks
  <2>2. \A s \in Requests \ {r} : Sound(req[s])' BY <1>3 DEF IInv, Sound, Locks
  <2>3. \A s \in Requests \ {r} : Grounded(req[s])' BY <1>1, <1>3 DEF IInv, Grounded
  <2> QED BY <2>1, <2>2, <2>3
<1>6. \A s, t \in Requests : s # t => Apart(req[s], req[t])'
  <2> SUFFICES ASSUME NEW s \in Requests, NEW t \in Requests, s # t
               PROVE  Apart(req[s], req[t])'
    OBVIOUS
  <2>0. Apart(req[s], req[t]) BY DEF IInv
  <2>1. CASE s # r /\ t # r BY <2>0, <2>1, <1>1, <1>3 DEF Apart, Locks
  <2>2. CASE s = r
    <3>1. q.pc = "flagging" => req[t].pc # "flagging" BY <2>2 DEF Updaters
    <3>2. q.pc = "flagging" /\ q.flag # noMaterials => ~req[t].shares BY <2>2 DEF Sharers
    <3> QED BY <3>1, <3>2, <2>2, <1>1, <1>2, <1>3 DEF Apart, Locks
  <2>3. CASE t = r
    <3>1. q.pc = "flagging" => req[s].pc # "flagging" BY <2>3 DEF Updaters
    <3> QED BY <3>1, <2>3, <1>1, <1>2, <1>3 DEF Apart, Locks
  <2> QED BY <2>1, <2>2, <2>3
<1>7. \A s \in Requests : req'[s].pc = "replacing" /\ req'[s].alone =>
        Alone(s)' /\ OnCourse(req[s])'
  <2> SUFFICES ASSUME NEW s \in Requests, req'[s].pc = "replacing", req'[s].alone
               PROVE  Alone(s)' /\ OnCourse(req[s])'
    OBVIOUS
  <2>1. s = r BY <1>3
  <2>2. Alone(r) /\ OnCourse(q) BY <2>1, <1>2
  <2>3. Alone(r)' BY <2>2, <1>3 DEF Alone
  <2>4. OnCourse(req[r])' BY <2>2, <1>1, <1>2 DEF OnCourse
  <2> QED BY <2>1, <2>3, <2>4
<1>8. FlaggedGamesHaveNoMaterials' BY <1>1 DEF IInv, FlaggedGamesHaveNoMaterials
<1>9. links' \subseteq Items /\ noMaterials' \in BOOLEAN BY <1>1 DEF IInv
<1> QED BY <1>4, <1>5, <1>6, <1>7, <1>8, <1>9 DEF IInv

LEMMA ReplaceKeeps ==
    ASSUME IInv, NEW r \in Requests, NEW table \in {Categories, Materials},
           NEW asked \in SUBSET table, Replace(r, table, asked)
    PROVE  IInv'
<1> DEFINE todo == (links \cap table) \ asked
           q == Replacing(r, table, asked, todo)
<1>1. /\ q.pc = "replacing" /\ q.table = table /\ q.asked = asked /\ q.todo = todo
      /\ q.left = asked /\ q.deleted = {} /\ q.inserted = {} /\ q.rewritten = {}
      /\ q.shares = FALSE /\ q.flag = FALSE /\ q.alone = Alone(r)
  BY DEF Replacing
<1>2. Starts(r, q) /\ UNCHANGED Committed /\ req[r].pc = "idle" BY DEF Replace
<1>3. q \in Records
  <2>1. asked \in SUBSET Items /\ todo \in SUBSET Items BY DEF Items
  <2>2. Alone(r) \in BOOLEAN BY DEF Alone
  <2> HIDE DEF todo
  <2> QED BY <2>1, <2>2 DEF Replacing, Records
<1> HIDE DEF q
<1>4. Sound(q) BY <1>1, <1>3 DEF Sound, Locks
<1>5. OnCourse(q) BY <1>1 DEF OnCourse
<1>6. Locks(q) = {} BY <1>1 DEF Locks
<1> QED BY <1>1, <1>2, <1>4, <1>5, <1>6, StartKeeps

LEMMA EditGameKeeps ==
    ASSUME IInv, NEW r \in Requests, NEW flag \in BOOLEAN, EditGame(r, flag)
    PROVE  IInv'
<1> DEFINE q == Flagging(r, flag)
<1>1. /\ q.pc = "flagging" /\ q.table = {} /\ q.asked = {} /\ q.todo = {}
      /\ q.left = {} /\ q.deleted = {} /\ q.inserted = {} /\ q.rewritten = {}
      /\ q.shares = FALSE /\ q.flag = flag
  BY DEF Flagging
<1>2. /\ Starts(r, q) /\ UNCHANGED Committed /\ req[r].pc = "idle"
      /\ Updaters(r) = {} /\ (flag = noMaterials \/ Sharers(r) = {})
  BY DEF EditGame
<1>3. q \in Records
  <2>1. Alone(r) \in BOOLEAN BY DEF Alone
  <2> QED BY <2>1 DEF Flagging, Records
<1> HIDE DEF q
<1>4. Sound(q) BY <1>1, <1>3 DEF Sound, Locks
<1>5. Locks(q) = {} BY <1>1 DEF Locks
<1> QED BY <1>1, <1>2, <1>4, <1>5, StartKeeps

\* What stays as it is of a replace that has got further.
LEMMA GoingIsWhole ==
    ASSUME NEW r \in Requests, req[r] \in Records,
           NEW todo \in SUBSET Items, NEW left \in SUBSET Items, NEW deleted \in SUBSET Items,
           NEW inserted \in SUBSET Items, NEW rewritten \in SUBSET Items, NEW q,
           q = Going(r, todo, left, deleted, inserted, rewritten)
    PROVE  /\ q \in Records
           /\ q.pc = req[r].pc /\ q.table = req[r].table /\ q.asked = req[r].asked
           /\ q.todo = todo /\ q.left = left /\ q.deleted = deleted
           /\ q.inserted = inserted /\ q.rewritten = rewritten
           /\ q.shares = req[r].shares /\ q.flag = req[r].flag /\ q.alone = req[r].alone
BY DEF Going, Records

\* Nobody holds what it may take.
LEMMA NobodyHolds ==
    ASSUME NEW r \in Requests, NEW x, Holders(r, x) = {}
    PROVE  \A s \in Requests \ {r} : x \notin Locks(req[s])
BY DEF Holders, Locks

LEMMA DeleteLinkKeeps ==
    ASSUME IInv, NEW r \in Requests, NEW x \in Items, DeleteLink(r, x)
    PROVE  IInv'
<1> DEFINE deleted == req[r].deleted \cup {x}
           todo == req[r].todo \ {x}
           q == Going(r, todo, req[r].left, deleted, req[r].inserted, req[r].rewritten)
<1>1. req[r] \in Records /\ Sound(req[r]) /\ Grounded(req[r]) BY DEF IInv
<1>2. x \in req[r].todo /\ Becomes(r, q) /\ UNCHANGED Committed BY DEF DeleteLink
<1>3. /\ q \in Records
      /\ q.pc = req[r].pc /\ q.table = req[r].table /\ q.asked = req[r].asked
      /\ q.todo = todo /\ q.left = req[r].left /\ q.deleted = deleted
      /\ q.inserted = req[r].inserted /\ q.rewritten = req[r].rewritten
      /\ q.shares = req[r].shares /\ q.flag = req[r].flag /\ q.alone = req[r].alone
  <2>1. /\ req[r].todo \in SUBSET Items /\ req[r].left \in SUBSET Items
        /\ req[r].deleted \in SUBSET Items /\ req[r].inserted \in SUBSET Items
        /\ req[r].rewritten \in SUBSET Items
    BY <1>1 DEF Records
  <2>2. todo \in SUBSET Items /\ deleted \in SUBSET Items BY <2>1
  <2> HIDE DEF todo, deleted
  <2> QED BY <1>1, <2>1, <2>2, GoingIsWhole
<1> HIDE DEF q
<1>4. req[r].pc = "replacing" /\ ~req[r].shares BY <1>1, <1>2 DEF Sound, Records
<1>5. Sound(q) BY <1>1, <1>2, <1>3, <1>4 DEF Sound, Locks
<1>6. Grounded(q) BY <1>1, <1>3 DEF Grounded
<1>7. \A s \in Requests \ {r} : Locks(q) \cap Locks(req[s]) = {}
  <2>1. Locks(q) \subseteq Locks(req[r]) \cup {x} BY <1>3 DEF Locks
  <2>2. \A s \in Requests \ {r} : x \notin Locks(req[s]) BY NobodyHolds DEF DeleteLink
  <2>3. \A s \in Requests \ {r} : Locks(req[r]) \cap Locks(req[s]) = {} BY DEF IInv, Apart
  <2> QED BY <2>1, <2>2, <2>3
<1>8. OnCourse(req[r]) => OnCourse(q) BY <1>3 DEF OnCourse
<1> QED BY <1>2, <1>3, <1>4, <1>5, <1>6, <1>7, <1>8, StepKeeps

LEMMA InsertLinkKeeps ==
    ASSUME IInv, NEW r \in Requests, NEW x \in Items, InsertLink(r, x)
    PROVE  IInv'
<1> DEFINE left == req[r].left \ {x}
           inserted == req[r].inserted \cup ({x} \ links)
           rewritten == req[r].rewritten \cup ({x} \cap links \cap Materials)
           q == Going(r, req[r].todo, left, req[r].deleted, inserted, rewritten)
<1>1. req[r] \in Records /\ Sound(req[r]) /\ Grounded(req[r]) BY DEF IInv
<1>2. /\ x \in req[r].left /\ req[r].todo = {}
      /\ Becomes(r, q) /\ UNCHANGED Committed
  BY DEF InsertLink
<1>3. /\ q \in Records
      /\ q.pc = req[r].pc /\ q.table = req[r].table /\ q.asked = req[r].asked
      /\ q.todo = req[r].todo /\ q.left = left /\ q.deleted = req[r].deleted
      /\ q.inserted = inserted /\ q.rewritten = rewritten
      /\ q.shares = req[r].shares /\ q.flag = req[r].flag /\ q.alone = req[r].alone
  <2>1. /\ req[r].todo \in SUBSET Items /\ req[r].left \in SUBSET Items
        /\ req[r].deleted \in SUBSET Items /\ req[r].inserted \in SUBSET Items
        /\ req[r].rewritten \in SUBSET Items
    BY <1>1 DEF Records
  <2>2. left \in SUBSET Items /\ inserted \in SUBSET Items /\ rewritten \in SUBSET Items BY <2>1
  <2> HIDE DEF left, inserted, rewritten
  <2> QED BY <1>1, <2>1, <2>2, GoingIsWhole
<1> HIDE DEF q
<1>4. req[r].pc = "replacing" /\ ~req[r].shares BY <1>1, <1>2 DEF Sound, Records
<1>5. Sound(q)
  <2>1. q.table = Materials => q.asked \ q.left \subseteq q.inserted \cup q.rewritten
    BY <1>1, <1>2, <1>3 DEF Sound
  <2>2. q.left \cup q.inserted \cup q.rewritten \subseteq q.asked BY <1>1, <1>2, <1>3 DEF Sound
  <2>3. /\ q.todo \cup q.deleted \subseteq q.table \ q.asked
        /\ q.asked \subseteq q.table
    BY <1>1, <1>3 DEF Sound
  <2> QED BY <1>3, <1>4, <2>1, <2>2, <2>3 DEF Sound
<1>6. Grounded(q) BY <1>1, <1>3, <1>4 DEF Grounded
<1>7. \A s \in Requests \ {r} : Locks(q) \cap Locks(req[s]) = {}
  <2>1. Locks(q) \subseteq Locks(req[r]) \cup {x} BY <1>3 DEF Locks
  <2>2. \A s \in Requests \ {r} : x \notin Locks(req[s]) BY NobodyHolds DEF InsertLink
  <2>3. \A s \in Requests \ {r} : Locks(req[r]) \cap Locks(req[s]) = {} BY DEF IInv, Apart
  <2> QED BY <2>1, <2>2, <2>3
<1>8. OnCourse(req[r]) => OnCourse(q) BY <1>3 DEF OnCourse
<1> QED BY <1>2, <1>3, <1>4, <1>5, <1>6, <1>7, <1>8, StepKeeps

LEMMA CheckForeignKeyKeeps ==
    ASSUME IInv, NEW r \in Requests, CheckForeignKey(r)
    PROVE  IInv'
<1>1. CASE Rollback(r) BY <1>1, RollbackKeeps
<1>2. CASE /\ req[r].inserted \cap Materials = {} \/ ~noMaterials
           /\ KeyChangers(r) = {}
           /\ Becomes(r, [req[r] EXCEPT !.shares = TRUE])
           /\ UNCHANGED Committed
  <2> DEFINE q == [req[r] EXCEPT !.shares = TRUE]
  <2>1. req[r] \in Records /\ Sound(req[r]) /\ Grounded(req[r]) BY DEF IInv
  <2>2. /\ q \in Records
        /\ q.pc = req[r].pc /\ q.table = req[r].table /\ q.asked = req[r].asked
        /\ q.todo = req[r].todo /\ q.left = req[r].left /\ q.deleted = req[r].deleted
        /\ q.inserted = req[r].inserted /\ q.rewritten = req[r].rewritten
        /\ q.shares /\ q.flag = req[r].flag /\ q.alone = req[r].alone
    BY <2>1 DEF Records
  <2> HIDE DEF q
  <2>3. req[r].pc = "replacing" /\ req[r].todo = {} /\ req[r].left = {}
    BY DEF CheckForeignKey, Linked
  <2>4. Sound(q) BY <2>1, <2>2, <2>3 DEF Sound, Locks
  <2>5. Grounded(q) BY <2>1, <2>2, <1>2 DEF Grounded
  <2>6. \A s \in Requests \ {r} : Locks(q) \cap Locks(req[s]) = {} BY <2>2 DEF IInv, Apart, Locks
  <2>7. OnCourse(req[r]) => OnCourse(q) BY <2>2 DEF OnCourse
  <2>8. Becomes(r, q) BY <1>2 DEF q
  <2> QED BY <1>2, <2>2, <2>3, <2>4, <2>5, <2>6, <2>7, <2>8, StepKeeps
<1> QED BY <1>1, <1>2 DEF CheckForeignKey

\* A transaction that ends leaves the others as they are.
LEMMA OthersStay ==
    ASSUME IInv, NEW r \in Requests, Becomes(r, Idle)
    PROVE  /\ req' \in [Requests -> Records]
           /\ req'[r] = Idle /\ \A s \in Requests \ {r} : req'[s] = req[s]
           /\ \A s \in Requests : Sound(req[s])'
<1>1. req'[r] = Idle /\ \A s \in Requests \ {r} : req'[s] = req[s] BY DEF IInv, Becomes
<1>2. req' \in [Requests -> Records] BY IdleIsSound DEF IInv, Becomes, Sound
<1>3. \A s \in Requests : Sound(req'[s]) BY <1>1, IdleIsSound DEF IInv
<1> QED BY <1>1, <1>2, <1>3

\* The others lose nothing but rows their DELETE had yet to reach.
LEMMA OthersPassOver ==
    ASSUME IInv, NEW r \in Requests, CommitReplace(r)
    PROVE  /\ req' \in [Requests -> Records]
           /\ req'[r] = Idle
           /\ \A s \in Requests \ {r} :
                /\ req'[s].pc = req[s].pc /\ req'[s].flag = req[s].flag
                /\ req'[s].shares = req[s].shares /\ req'[s].alone = req[s].alone
                /\ req'[s].inserted = req[s].inserted /\ req'[s].rewritten = req[s].rewritten
                /\ Locks(req'[s]) = Locks(req[s])
           /\ \A s \in Requests : Sound(req'[s])
<1>1. req'[r] = Idle BY DEF CommitReplace
<1>2. ASSUME NEW s \in Requests \ {r}
      PROVE  /\ req'[s] \in Records /\ Sound(req'[s])
             /\ req'[s].pc = req[s].pc /\ req'[s].flag = req[s].flag
             /\ req'[s].shares = req[s].shares /\ req'[s].alone = req[s].alone
             /\ req'[s].inserted = req[s].inserted /\ req'[s].rewritten = req[s].rewritten
             /\ Locks(req'[s]) = Locks(req[s])
  <2> DEFINE todo == req[s].todo \ req[r].deleted
             q == [req[s] EXCEPT !.todo = todo]
  <2>1. req'[s] = q BY DEF CommitReplace
  <2>2. req[s] \in Records /\ Sound(req[s]) BY DEF IInv
  <2>3. todo \subseteq req[s].todo OBVIOUS
  <2> HIDE DEF todo
  <2>4. /\ q.pc = req[s].pc /\ q.table = req[s].table /\ q.asked = req[s].asked
        /\ q.todo = todo /\ q.left = req[s].left /\ q.deleted = req[s].deleted
        /\ q.inserted = req[s].inserted /\ q.rewritten = req[s].rewritten
        /\ q.shares = req[s].shares /\ q.flag = req[s].flag /\ q.alone = req[s].alone
        /\ q \in Records
    BY <2>2, <2>3 DEF Records
  <2> HIDE DEF q
  <2>5. Locks(q) = Locks(req[s]) BY <2>4 DEF Locks
  <2>6. Sound(q) BY <2>2, <2>3, <2>4, <2>5 DEF Sound
  <2> QED BY <2>1, <2>4, <2>5, <2>6
<1>3. req' \in [Requests -> Records] BY <1>1, <1>2, IdleIsSound DEF CommitReplace, Sound
<1>4. \A s \in Requests : Sound(req'[s]) BY <1>1, <1>2, IdleIsSound
<1> QED BY <1>1, <1>2, <1>3, <1>4

LEMMA CommitReplaceKeeps ==
    ASSUME IInv, NEW r \in Requests, CommitReplace(r)
    PROVE  IInv'
<1>1. /\ links' = (links \ req[r].deleted) \cup req[r].inserted
      /\ noMaterials' = noMaterials
      /\ req[r].inserted = {} \/ req[r].shares
      /\ req[r].pc = "replacing"
  BY DEF CommitReplace, Checked, Linked
<1>2. req[r] \in Records /\ Sound(req[r]) /\ Grounded(req[r]) BY DEF IInv
<1>3. links' \subseteq Items BY <1>1, <1>2 DEF IInv, Records
<1>4. \A s \in Requests : Grounded(req[s])'
  <2>1. Grounded(req[r])' BY <1>1, OthersPassOver DEF Grounded, Idle
  <2>2. ASSUME NEW s \in Requests \ {r} PROVE Grounded(req[s])'
    <3>1. /\ req'[s].rewritten = req[s].rewritten /\ req'[s].inserted = req[s].inserted
          /\ req'[s].shares = req[s].shares
      BY OthersPassOver
    <3>2. Locks(req[r]) \cap Locks(req[s]) = {} BY DEF IInv, Apart
    <3>3. req[s].rewritten \subseteq links' BY <3>2, <1>1 DEF IInv, Grounded, Locks
    <3> QED BY <3>1, <3>3, <1>1 DEF IInv, Grounded
  <2> QED BY <2>1, <2>2
<1>5. \A s, t \in Requests : s # t => Apart(req[s], req[t])'
  <2> SUFFICES ASSUME NEW s \in Requests, NEW t \in Requests, s # t
               PROVE  Apart(req[s], req[t])'
    OBVIOUS
  <2>1. Apart(req[s], req[t]) BY DEF IInv
  <2>2. /\ req'[r] = Idle
        /\ \A u \in Requests \ {r} :
              /\ req'[u].pc = req[u].pc /\ req'[u].flag = req[u].flag
              /\ req'[u].shares = req[u].shares /\ Locks(req'[u]) = Locks(req[u])
    BY OthersPassOver
  <2>3. Idle.pc = "idle" /\ Locks(Idle) = {} /\ ~Idle.shares BY DEF Idle, Locks
  <2> QED BY <1>1, <2>1, <2>2, <2>3 DEF Apart
<1>6. \A s \in Requests : req'[s].pc = "replacing" /\ req'[s].alone =>
        Alone(s)' /\ OnCourse(req[s])'
  <2>1. ASSUME NEW s \in Requests, req'[s].pc = "replacing", req'[s].alone PROVE FALSE
    <3>1. s # r BY <2>1, OthersPassOver DEF Idle
    <3>2. req[s].pc = "replacing" /\ req[s].alone BY <2>1, <3>1, OthersPassOver
    <3>3. Alone(s) BY <3>2 DEF IInv
    <3> QED BY <3>1, <3>3, <1>1 DEF Alone
  <2> QED BY <2>1
<1>7. FlaggedGamesHaveNoMaterials'
  <2>1. req[r].inserted \cap Materials # {} => ~noMaterials BY <1>1, <1>2 DEF Grounded
  <2> QED BY <2>1, <1>1 DEF IInv, FlaggedGamesHaveNoMaterials
<1>8. noMaterials' \in BOOLEAN BY <1>1 DEF IInv
<1>9. req' \in [Requests -> Records] /\ \A s \in Requests : Sound(req[s])'
  BY OthersPassOver
<1> QED BY <1>3, <1>4, <1>5, <1>6, <1>7, <1>8, <1>9 DEF IInv

LEMMA CommitEditKeeps ==
    ASSUME IInv, NEW r \in Requests, CommitEdit(r)
    PROVE  IInv'
<1>1. /\ req[r].pc = "flagging" /\ noMaterials' = req[r].flag
      /\ Becomes(r, Idle) /\ links' = links
      /\ req[r].flag /\ ~noMaterials => links \cap Materials = {}
  BY DEF CommitEdit, Raises
<1>2. noMaterials' \in BOOLEAN BY <1>1 DEF IInv, Records
<1>3. \A s \in Requests \ {r} :
        /\ req[s].pc # "flagging"
        /\ req[r].flag # noMaterials => ~req[s].shares
  BY <1>1 DEF IInv, Apart
<1>4. \A s \in Requests : Grounded(req[s])'
  <2>1. Grounded(req[r])' BY <1>1, OthersStay DEF Grounded, Idle
  <2>2. ASSUME NEW s \in Requests \ {r} PROVE Grounded(req[s])'
    <3>1. req'[s] = req[s] BY <1>1, OthersStay
    <3>2. Grounded(req[s]) BY DEF IInv
    <3>3. noMaterials' = noMaterials \/ ~req[s].shares BY <1>1, <1>3
    <3> QED BY <3>1, <3>2, <3>3, <1>1 DEF Grounded
  <2> QED BY <2>1, <2>2
<1>5. \A s, t \in Requests : s # t => Apart(req[s], req[t])'
  <2> SUFFICES ASSUME NEW s \in Requests, NEW t \in Requests, s # t
               PROVE  Apart(req[s], req[t])'
    OBVIOUS
  <2>1. Apart(req[s], req[t]) BY DEF IInv
  <2>2. /\ req'[r] = Idle /\ \A u \in Requests \ {r} : req'[u] = req[u] BY <1>1, OthersStay
  <2>3. Idle.pc = "idle" /\ Locks(Idle) = {} /\ ~Idle.shares BY DEF Idle, Locks
  <2>4. \A u \in Requests : req'[u].pc # "flagging" BY <2>2, <2>3, <1>3
  <2> QED BY <2>1, <2>2, <2>3, <2>4 DEF Apart
<1>6. \A s \in Requests : req'[s].pc = "replacing" /\ req'[s].alone =>
        Alone(s)' /\ OnCourse(req[s])'
  <2>1. ASSUME NEW s \in Requests, req'[s].pc = "replacing", req'[s].alone PROVE FALSE
    <3>1. s # r BY <2>1, <1>1, OthersStay DEF Idle
    <3>2. req[s].pc = "replacing" /\ req[s].alone BY <2>1, <3>1, <1>1, OthersStay
    <3>3. Alone(s) BY <3>2 DEF IInv
    <3> QED BY <3>1, <3>3, <1>1 DEF Alone
  <2> QED BY <2>1
<1>7. FlaggedGamesHaveNoMaterials' BY <1>1 DEF IInv, FlaggedGamesHaveNoMaterials
<1>8. links' \subseteq Items BY <1>1 DEF IInv
<1>9. req' \in [Requests -> Records] /\ \A s \in Requests : Sound(req[s])'
  BY <1>1, OthersStay
<1> QED BY <1>2, <1>4, <1>5, <1>6, <1>7, <1>8, <1>9 DEF IInv

LEMMA StatementKeeps ==
    ASSUME IInv, NEW r \in Requests, Statement(r)
    PROVE  IInv'
<1>1. CASE \E x \in Items : DeleteLink(r, x) BY <1>1, DeleteLinkKeeps
<1>2. CASE \E x \in Items : InsertLink(r, x) BY <1>2, InsertLinkKeeps
<1>3. CASE CheckForeignKey(r) BY <1>3, CheckForeignKeyKeeps
<1>4. CASE CommitReplace(r) BY <1>4, CommitReplaceKeeps
<1>5. CASE EditGameInUse(r) BY <1>5, RollbackKeeps DEF EditGameInUse
<1>6. CASE CommitEdit(r) BY <1>6, CommitEditKeeps
<1> QED BY <1>1, <1>2, <1>3, <1>4, <1>5, <1>6 DEF Statement

LEMMA NextKeeps == IInv /\ [Next]_vars => IInv'
<1> SUFFICES ASSUME IInv, [Next]_vars PROVE IInv' OBVIOUS
<1>1. CASE UNCHANGED vars
  BY <1>1 DEF vars, IInv, Sound, Grounded, Apart, Alone, OnCourse, Locks,
              FlaggedGamesHaveNoMaterials
<1>2. CASE Next
  <2>1. PICK r \in Requests :
          \/ \E asked \in SUBSET Categories : Replace(r, Categories, asked)
          \/ \E asked \in SUBSET Materials : Replace(r, Materials, asked)
          \/ \E flag \in BOOLEAN : EditGame(r, flag)
          \/ Statement(r)
          \/ Abort(r)
          \/ DeadlockVictim(r)
    BY <1>2 DEF Next
  <2>2. CASE \E asked \in SUBSET Categories : Replace(r, Categories, asked)
    BY <2>2, ReplaceKeeps
  <2>3. CASE \E asked \in SUBSET Materials : Replace(r, Materials, asked)
    BY <2>3, ReplaceKeeps
  <2>4. CASE \E flag \in BOOLEAN : EditGame(r, flag) BY <2>4, EditGameKeeps
  <2>5. CASE Statement(r) BY <2>5, StatementKeeps
  <2>6. CASE Abort(r) BY <2>6, RollbackKeeps DEF Abort
  <2>7. CASE DeadlockVictim(r) BY <2>7, RollbackKeeps DEF DeadlockVictim
  <2> QED BY <2>1, <2>2, <2>3, <2>4, <2>5, <2>6, <2>7
<1> QED BY <1>1, <1>2

\* The inductive invariant of Associations: locks exclude each other, and what
\* a request found under its locks stays so until it commits.
THEOREM Invariance == Spec => []IInv
<1>1. Init => IInv BY InitIInv
<1>2. IInv /\ [Next]_vars => IInv' BY NextKeeps
<1> QED BY <1>1, <1>2, PTL DEF Spec

\* The links of one game and the requests that replace them have their types.
THEOREM TypeCorrectness == Spec => []TypeOK
<1>1. IInv => TypeOK
  BY DEF IInv, TypeOK, Sound, Records
<1> QED BY <1>1, Invariance, PTL

\* A game flagged no_materials has none (games_id_no_materials_key and the
\* foreign key of game_materials), however lists and flags race.
THEOREM FlagsAreHonest == Spec => []FlaggedGamesHaveNoMaterials
<1>1. IInv => FlaggedGamesHaveNoMaterials BY DEF IInv
<1> QED BY <1>1, Invariance, PTL

LEMMA ListedAreThere ==
    ASSUME IInv, NEW r \in Requests, req[r].table = Materials, CommitReplace(r)
    PROVE  req[r].asked \subseteq links'
<1>1. Sound(req[r]) /\ Grounded(req[r]) BY DEF IInv
<1>2. links' = (links \ req[r].deleted) \cup req[r].inserted /\ req[r].left = {}
  BY DEF CommitReplace, Linked
<1>3. req[r].asked \subseteq req[r].inserted \cup req[r].rewritten BY <1>1, <1>2 DEF Sound
<1>4. req[r].rewritten \subseteq links BY <1>1 DEF Grounded
<1>5. req[r].deleted \cap req[r].asked = {} BY <1>1 DEF Sound
<1> QED BY <1>2, <1>3, <1>4, <1>5

\* The materials a list names (EditGameMaterials, ON CONFLICT DO UPDATE) are
\* linked when it commits.
THEOREM ListsStay == Spec => ListedMaterialsStay
<1>1. IInv /\ [Next]_vars =>
        [\A r \in Requests : req[r].table = Materials /\ CommitReplace(r) =>
            req[r].asked \subseteq links']_vars
  BY ListedAreThere
<1> QED BY <1>1, Invariance, PTL DEF Spec, ListedMaterialsStay

LEMMA AloneIsExact ==
    ASSUME IInv, NEW r \in Requests, req[r].pc = "replacing", req[r].alone, CommitReplace(r)
    PROVE  links' \cap req[r].table = req[r].asked
<1>1. Sound(req[r]) /\ OnCourse(req[r]) BY DEF IInv
<1>2. /\ links' = (links \ req[r].deleted) \cup req[r].inserted
      /\ req[r].left = {} /\ req[r].todo = {}
  BY DEF CommitReplace, Linked
<1>3. (links \cap req[r].table) \ req[r].asked \subseteq req[r].deleted
  BY <1>1, <1>2 DEF OnCourse
<1>4. req[r].asked \subseteq links \cup req[r].inserted BY <1>1, <1>2 DEF OnCourse
<1>5. /\ req[r].deleted \cap req[r].asked = {}
      /\ req[r].inserted \subseteq req[r].asked
      /\ req[r].asked \subseteq req[r].table
  BY <1>1 DEF Sound
<1> QED BY <1>2, <1>3, <1>4, <1>5

\* A replace nobody ran beside (EditGameCategories, EditGameMaterials) leaves
\* the set it was sent.
THEOREM ReplacesAreExact == Spec => ReplaceAloneIsExact
<1>1. IInv /\ [Next]_vars =>
        [\A r \in Requests : req[r].pc = "replacing" /\ req[r].alone /\ CommitReplace(r) =>
            links' \cap req[r].table = req[r].asked]_vars
  BY AloneIsExact
<1> QED BY <1>1, Invariance, PTL DEF Spec, ReplaceAloneIsExact
=============================================================================
