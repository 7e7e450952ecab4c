---------------------------- MODULE CatalogProofs ----------------------------
(***************************************************************************)
(* The promises of Catalog hold for every set of games and of concurrent   *)
(* HTTP requests.                                                          *)
(***************************************************************************)
EXTENDS Catalog, TLAPS

USE CatalogAssumption
USE DEF games, States, Targets, DraftParts, Steps, Idle, Publishing, Varying, Becomes, Rollback

\* Nothing exists at the start.
LEMMA InitIInv == Init => IInv
<1> SUFFICES ASSUME Init PROVE IInv  OBVIOUS
<1> USE DEF Init
<1>1. TypeOK  BY DEF TypeOK
<1>2. OriginalsArePublished  BY DEF OriginalsArePublished
<1>3. RowsAreWhole  BY DEF RowsAreWhole, Variants
<1>4. RequestsKeepTheirGround  BY DEF RequestsKeepTheirGround
<1>5. LocksAreExclusive  BY DEF LocksAreExclusive, HoldsGame, ChangesKey, SharesKey
<1> QED  BY <1>1, <1>2, <1>3, <1>4, <1>5 DEF IInv

\* A new draft is nobody's original and nobody's game yet.
LEMMA CreateDraftKeepsIInv ==
  ASSUME IInv, NEW r \in Requests, NEW g \in Games, NEW given \in SUBSET DraftParts,
         CreateDraft(r, g, given)
  PROVE  IInv'
<1> USE DEF IInv, CreateDraft, FreshGame
<1>1. TypeOK'  BY DEF TypeOK
<1>2. OriginalsArePublished'  BY DEF TypeOK, OriginalsArePublished
<1>3. RowsAreWhole'  BY DEF TypeOK, RowsAreWhole, Variants
<1>4. RequestsKeepTheirGround'
  BY DEF TypeOK, RequestsKeepTheirGround, Variants
<1>5. LocksAreExclusive'
  BY DEF TypeOK, LocksAreExclusive, HoldsGame, ChangesKey, SharesKey, RequestsKeepTheirGround
<1> QED  BY <1>1, <1>2, <1>3, <1>4, <1>5 DEF IInv

\* Steps that leave publish_state and original_id alone, and every request.
LEMMA EditPartKeepsIInv ==
  ASSUME IInv, NEW r \in Requests, NEW g \in Games, NEW p \in Parts,
         FillPart(r, g, p) \/ EmptyPart(r, g, p)
  PROVE  IInv'
<1> USE DEF IInv, FillPart, EmptyPart
<1>1. TypeOK'  BY DEF TypeOK
<1>2. OriginalsArePublished'  BY DEF OriginalsArePublished
<1>3. RowsAreWhole'  BY DEF RowsAreWhole, Variants
<1>4. RequestsKeepTheirGround'  BY DEF RequestsKeepTheirGround, Variants
<1>5. LocksAreExclusive'  BY DEF LocksAreExclusive, HoldsGame, ChangesKey, SharesKey
<1> QED  BY <1>1, <1>2, <1>3, <1>4, <1>5 DEF IInv

\* What a step that changes one request and no table has to show.
LEMMA UnchangedTables ==
  ASSUME IInv, UNCHANGED games, TypeOK', RequestsKeepTheirGround', LocksAreExclusive'
  PROVE  IInv'
<1> USE DEF IInv
<1>1. OriginalsArePublished'  BY DEF OriginalsArePublished
<1>2. RowsAreWhole'  BY DEF RowsAreWhole, Variants
<1> QED  BY <1>1, <1>2 DEF IInv

LEMMA RollbackKeepsIInv ==
  ASSUME IInv, NEW r \in Requests, Rollback(r)
  PROVE  IInv'
<1> USE DEF IInv
<1>1. TypeOK'  BY DEF TypeOK
<1>2. RequestsKeepTheirGround'  BY DEF TypeOK, RequestsKeepTheirGround, Variants
<1>3. LocksAreExclusive'
  BY DEF TypeOK, LocksAreExclusive, HoldsGame, ChangesKey, SharesKey, RequestsKeepTheirGround
<1> QED  BY <1>1, <1>2, <1>3, UnchangedTables

LEMMA CheckPublishKeepsIInv ==
  ASSUME IInv, NEW r \in Requests, NEW g \in Games, CheckPublish(r, g)
  PROVE  IInv'
<1> USE DEF IInv, CheckPublish
<1>1. TypeOK'  BY DEF TypeOK
<1>2. RequestsKeepTheirGround'  BY DEF TypeOK, RequestsKeepTheirGround, Variants
<1>3. LocksAreExclusive'
  BY DEF TypeOK, LocksAreExclusive, HoldsGame, ChangesKey, SharesKey, RequestsKeepTheirGround
<1> QED  BY <1>1, <1>2, <1>3, UnchangedTables

\* The row is free, and its key is unshared when it is about to change.
LEMMA SetPublishedKeepsIInv ==
  ASSUME IInv, NEW r \in Requests, SetPublished(r)
  PROVE  IInv'
<1> USE DEF IInv, SetPublished, CanSet
<1>1. TypeOK'  BY DEF TypeOK, RequestsKeepTheirGround
<1>2. RequestsKeepTheirGround'  BY DEF TypeOK, RequestsKeepTheirGround, Variants
<1>3. LocksAreExclusive'
  BY DEF TypeOK, LocksAreExclusive, HoldsGame, ChangesKey, SharesKey, RequestsKeepTheirGround
<1> QED  BY <1>1, <1>2, <1>3, UnchangedTables

\* A draft has no variants, because originals are published.
LEMMA SetDraftKeepsIInv ==
  ASSUME IInv, NEW r \in Requests, NEW g \in Games, SetDraft(r, g)
  PROVE  IInv'
<1> USE DEF IInv, SetDraft, CanSet
<1>1. TypeOK'  BY DEF TypeOK
<1>2. Variants(g) = {}
  BY DEF TypeOK, OriginalsArePublished, Variants
<1>3. RequestsKeepTheirGround'  BY <1>2 DEF TypeOK, RequestsKeepTheirGround, Variants
<1>4. LocksAreExclusive'
  BY DEF TypeOK, LocksAreExclusive, HoldsGame, ChangesKey, SharesKey, RequestsKeepTheirGround
<1> QED  BY <1>1, <1>3, <1>4, UnchangedTables

\* The request whose row it is changes a key nobody shares, and only to
\* `draft' when no variant refers to it.
LEMMA CommitStateKeepsIInv ==
  ASSUME IInv, NEW r \in Requests, CommitState(r)
  PROVE  IInv'
<1> USE DEF IInv, CommitState
<1> DEFINE g == req[r].game
<1>1. g \in Games /\ publishState[g] # "none"  BY DEF RequestsKeepTheirGround
<1>2. req[r].target = "draft" => Variants(g) = {}  BY DEF RequestsKeepTheirGround
<1>3. HoldsGame(r, g)  BY DEF HoldsGame
<1>4. TypeOK'  BY <1>1 DEF TypeOK
<1>5. OriginalsArePublished'
  BY <1>1, <1>2 DEF TypeOK, OriginalsArePublished, Variants
<1>6. RowsAreWhole'  BY <1>1 DEF TypeOK, RowsAreWhole, Variants
<1>7. \A s \in Requests : SharesKey(s, g) => req[r].target = publishState[g]
  BY <1>1, <1>3 DEF LocksAreExclusive, ChangesKey
<1>8. RequestsKeepTheirGround'
  BY <1>1, <1>7 DEF TypeOK, RequestsKeepTheirGround, Variants, SharesKey
<1>9. \A s \in Requests : s # r => ~HoldsGame(s, g)
  BY <1>1, <1>3 DEF LocksAreExclusive
<1>10. LocksAreExclusive'
  BY <1>1, <1>9 DEF TypeOK, LocksAreExclusive, HoldsGame, ChangesKey, SharesKey,
                        RequestsKeepTheirGround
<1> QED  BY <1>4, <1>5, <1>6, <1>8, <1>10 DEF IInv

LEMMA BeginVariantKeepsIInv ==
  ASSUME IInv, NEW r \in Requests, NEW g \in Games, NEW o \in Games,
         NEW given \in SUBSET DraftParts, BeginVariant(r, g, o, given)
  PROVE  IInv'
<1> USE DEF IInv, BeginVariant, FreshGame
<1>1. TypeOK'  BY DEF TypeOK
<1>2. RequestsKeepTheirGround'  BY DEF TypeOK, RequestsKeepTheirGround, Variants
<1>3. LocksAreExclusive'
  BY DEF TypeOK, LocksAreExclusive, HoldsGame, ChangesKey, SharesKey, RequestsKeepTheirGround
<1> QED  BY <1>1, <1>2, <1>3, UnchangedTables

\* Nobody is changing the key it starts to share.
LEMMA InsertVariantKeepsIInv ==
  ASSUME IInv, NEW r \in Requests, InsertVariant(r)
  PROVE  IInv'
<1> USE DEF IInv, InsertVariant
<1>1. CASE Rollback(r)  BY <1>1, RollbackKeepsIInv
<1>2. CASE /\ publishState[req[r].from] = "published"
           /\ original[req[r].from] = None
           /\ \A s \in Requests : ~ChangesKey(s, req[r].from)
           /\ Becomes(r, Varying("inserted", req[r].game, req[r].from, req[r].given))
           /\ UNCHANGED games
  <2>1. TypeOK'  BY <1>2 DEF TypeOK
  <2>2. RequestsKeepTheirGround'
    BY <1>2 DEF TypeOK, RequestsKeepTheirGround, Variants
  <2>3. LocksAreExclusive'
    BY <1>2 DEF TypeOK, LocksAreExclusive, HoldsGame, ChangesKey, SharesKey,
                RequestsKeepTheirGround
  <2> QED  BY <1>2, <2>1, <2>2, <2>3, UnchangedTables
<1> QED  BY <1>1, <1>2

\* The variant appears while its original is still as the INSERT found it.
\* Whoever sets the original has its key unchanged, and so to published.
LEMMA CommitVariantKeepsIInv ==
  ASSUME IInv, NEW r \in Requests, CommitVariant(r)
  PROVE  IInv'
<1> USE DEF IInv, CommitVariant
<1> DEFINE g == req[r].game
           o == req[r].from
<1>1. /\ g \in Games /\ publishState[g] = "none"
      /\ o \in Games /\ publishState[o] = "published" /\ original[o] = None
  BY DEF RequestsKeepTheirGround
<1>2. original[g] = None /\ Variants(g) = {}  BY <1>1 DEF RowsAreWhole
<1>3. TypeOK'  BY <1>1 DEF TypeOK
<1>4. OriginalsArePublished'
  BY <1>1, <1>2 DEF TypeOK, OriginalsArePublished, Variants
<1>5. RowsAreWhole'  BY <1>1, <1>2 DEF TypeOK, RowsAreWhole, Variants
<1>6. SharesKey(r, o)  BY DEF SharesKey
<1>7. \A s \in Requests : HoldsGame(s, o) => req[s].target = "published"
  BY <1>1, <1>6 DEF LocksAreExclusive, ChangesKey
<1>8. \A s \in Requests : HoldsGame(s, g) => FALSE
  BY <1>1 DEF RequestsKeepTheirGround, HoldsGame
<1>9. RequestsKeepTheirGround'
  <2> SUFFICES ASSUME NEW s \in Requests PROVE
        /\ req'[s].pc \in {"checked", "setting"} =>
             req'[s].game \in Games /\ publishState'[req'[s].game] # "none"
        /\ req'[s].pc \in {"visible", "inserted"} =>
             /\ req'[s].game \in Games /\ publishState'[req'[s].game] = "none"
             /\ req'[s].from \in Games /\ publishState'[req'[s].from] # "none"
        /\ req'[s].pc = "inserted" =>
             publishState'[req'[s].from] = "published" /\ original'[req'[s].from] = None
        /\ req'[s].pc = "setting" /\ req'[s].target = "draft" =>
             \A v \in Games : original'[v] # req'[s].game
    BY DEF RequestsKeepTheirGround, Variants
  <2>1. CASE s = r  BY <2>1 DEF TypeOK
  <2>2. CASE s # r
    <3>1. req'[s] = req[s]  BY <2>2 DEF TypeOK
    <3>2. req[s].pc \in {"visible", "inserted"} => req[s].game # g
      BY <1>1, <2>2 DEF LocksAreExclusive
    <3>3. req[s].pc = "setting" /\ req[s].target = "draft" => req[s].game # o
      BY <1>7 DEF HoldsGame
    <3> QED  BY <1>1, <3>1, <3>2, <3>3 DEF TypeOK, RequestsKeepTheirGround, Variants
  <2> QED  BY <2>1, <2>2
<1>10. LocksAreExclusive'
  BY <1>1, <1>8 DEF TypeOK, LocksAreExclusive, HoldsGame, ChangesKey, SharesKey,
                        RequestsKeepTheirGround
<1> QED  BY <1>3, <1>4, <1>5, <1>9, <1>10 DEF IInv

LEMMA NextKeepsIInv == IInv /\ [Next]_vars => IInv'
<1> SUFFICES ASSUME IInv, [Next]_vars PROVE IInv'  OBVIOUS
<1>1. CASE UNCHANGED vars
  BY <1>1 DEF vars, IInv, TypeOK, OriginalsArePublished, RowsAreWhole, Variants,
              RequestsKeepTheirGround, LocksAreExclusive, HoldsGame, ChangesKey, SharesKey
<1>2. CASE Next
  <2> PICK r \in Requests :
        \/ \E g \in Games, given \in SUBSET DraftParts : CreateDraft(r, g, given)
        \/ \E g \in Games, p \in Parts : FillPart(r, g, p) \/ EmptyPart(r, g, p)
        \/ \E g \in Games : CheckPublish(r, g) \/ SetDraft(r, g)
        \/ \E g, o \in Games, given \in SUBSET DraftParts : BeginVariant(r, g, o, given)
        \/ SetPublished(r) \/ CommitState(r)
        \/ InsertVariant(r) \/ CommitVariant(r)
        \/ Abort(r)
    BY <1>2 DEF Next
  <2>1. CASE \E g \in Games, given \in SUBSET DraftParts : CreateDraft(r, g, given)
    BY <2>1, CreateDraftKeepsIInv
  <2>2. CASE \E g \in Games, p \in Parts : FillPart(r, g, p) \/ EmptyPart(r, g, p)
    BY <2>2, EditPartKeepsIInv
  <2>3. CASE \E g \in Games : CheckPublish(r, g) \/ SetDraft(r, g)
    BY <2>3, CheckPublishKeepsIInv, SetDraftKeepsIInv
  <2>4. CASE \E g, o \in Games, given \in SUBSET DraftParts : BeginVariant(r, g, o, given)
    BY <2>4, BeginVariantKeepsIInv
  <2>5. CASE SetPublished(r)  BY <2>5, SetPublishedKeepsIInv
  <2>6. CASE CommitState(r)  BY <2>6, CommitStateKeepsIInv
  <2>7. CASE InsertVariant(r)  BY <2>7, InsertVariantKeepsIInv
  <2>8. CASE CommitVariant(r)  BY <2>8, CommitVariantKeepsIInv
  <2>9. CASE Abort(r)  BY <2>9, RollbackKeepsIInv DEF Abort
  <2> QED  BY <2>1, <2>2, <2>3, <2>4, <2>5, <2>6, <2>7, <2>8, <2>9
<1> QED  BY <1>1, <1>2

\* The inductive invariant holds of every behaviour of the catalogue: what a
\* request found under its locks is still so when it commits.
THEOREM Invariance == Spec => []IInv
<1>1. Init => IInv  BY InitIInv
<1>2. IInv /\ [Next]_vars => IInv'  BY NextKeepsIInv
<1> QED  BY <1>1, <1>2, PTL DEF Spec

\* The tables and the requests have their types.
THEOREM TypeCorrectness == Spec => []TypeOK
<1>1. IInv => TypeOK BY DEF IInv
<1> QED BY <1>1, Invariance, PTL

\* A variant's original is a published game and no variant, for any number of
\* concurrent requests: the two sides of games_original_not_variant_fkey.
THEOREM VariantsHaveTheirOriginal == Spec => []OriginalsArePublished
<1>1. IInv => OriginalsArePublished  BY DEF IInv
<1> QED  BY <1>1, Invariance, PTL

LEMMA InitImplementsShelf == Init => Front!Init
BY DEF Init, Front!Init

\* Each request changes the tables in one step, when it commits.
LEMMA StepImplementsShelf ==
  ASSUME IInv, [Next]_vars
  PROVE  [Front!Next]_<<publishState, original, parts>>
<1>1. CASE UNCHANGED vars  BY <1>1 DEF vars
<1>2. CASE Next
  <2> USE DEF IInv
  <2> PICK r \in Requests :
        \/ \E g \in Games, given \in SUBSET DraftParts : CreateDraft(r, g, given)
        \/ \E g \in Games, p \in Parts : FillPart(r, g, p) \/ EmptyPart(r, g, p)
        \/ \E g \in Games : CheckPublish(r, g) \/ SetDraft(r, g)
        \/ \E g, o \in Games, given \in SUBSET DraftParts : BeginVariant(r, g, o, given)
        \/ SetPublished(r) \/ CommitState(r)
        \/ InsertVariant(r) \/ CommitVariant(r)
        \/ Abort(r)
    BY <1>2 DEF Next
  <2>1. ASSUME NEW g \in Games, NEW given \in SUBSET DraftParts, CreateDraft(r, g, given)
        PROVE  Front!Next
    <3>1. original' = [original EXCEPT ![g] = None]
      BY <2>1 DEF TypeOK, RowsAreWhole, CreateDraft, FreshGame
    <3>2. Front!Draft(g, given)
      BY <2>1, <3>1 DEF CreateDraft, FreshGame, Front!Draft, Front!Appear
    <3>3. given \in SUBSET Parts  BY <2>1
    <3> QED  BY <2>1, <3>2, <3>3 DEF Front!Next
  <2>2. ASSUME NEW g \in Games, NEW p \in Parts, FillPart(r, g, p) \/ EmptyPart(r, g, p)
        PROVE  Front!Next
    <3> DEFINE given == parts'[g]
    <3>1. given \in SUBSET Parts /\ parts' = [parts EXCEPT ![g] = given]
      BY <2>2 DEF TypeOK, FillPart, EmptyPart
    <3>2. Front!Edit(g, given)  BY <2>2, <3>1 DEF FillPart, EmptyPart, Front!Edit
    <3> HIDE DEF given
    <3> QED  BY <2>2, <3>1, <3>2 DEF Front!Next
  <2>3. CASE CommitState(r)
    <3> DEFINE g == req[r].game
    <3>1. g \in Games /\ publishState[g] # "none"
      BY <2>3 DEF CommitState, RequestsKeepTheirGround
    <3>2. publishState' = [publishState EXCEPT ![g] = req[r].target]
          /\ UNCHANGED <<original, parts>>
      BY <2>3 DEF CommitState
    <3>3. CASE req[r].target = publishState[g]
      BY <3>1, <3>2, <3>3 DEF TypeOK
    <3>4. CASE publishState[g] = "draft" /\ req[r].target = "published"
      <4>1. Front!Publish(g)  BY <3>2, <3>4 DEF Front!Publish
      <4> QED  BY <3>1, <4>1 DEF Front!Next
    <3>5. CASE publishState[g] = "published" /\ req[r].target = "draft"
      <4>1. \A v \in Games : original[v] # g
        BY <2>3, <3>5 DEF CommitState, RequestsKeepTheirGround, Variants
      <4>2. Front!Withdraw(g)  BY <3>2, <3>5, <4>1 DEF Front!Withdraw
      <4> QED  BY <3>1, <4>2 DEF Front!Next
    <3> QED  BY <3>1, <3>3, <3>4, <3>5 DEF TypeOK
  <2>4. CASE CommitVariant(r)
    <3> DEFINE g == req[r].game
               o == req[r].from
               given == req[r].given
    <3>1. /\ g \in Games /\ publishState[g] = "none"
          /\ o \in Games /\ publishState[o] = "published" /\ original[o] = None
      BY <2>4 DEF CommitVariant, RequestsKeepTheirGround
    <3>2. given \in SUBSET Parts  BY DEF TypeOK
    <3>3. Front!Vary(g, o, given)
      BY <2>4, <3>1 DEF CommitVariant, Front!Vary, Front!Appear
    <3> HIDE DEF g, o, given
    <3> QED  BY <3>1, <3>2, <3>3 DEF Front!Next
  <2>5. CASE UNCHANGED games  BY <2>5
  <2> QED
    BY <2>1, <2>2, <2>3, <2>4, <2>5 DEF CheckPublish, SetDraft, SetPublished, BeginVariant,
       InsertVariant, Abort
<1> QED  BY <1>1, <1>2

\* The catalogue implements the shelf of module Shelf: behind its locks, each
\* of its transactions looks like one step.
THEOREM Implementation == Spec => ImplementsShelf
<1>1. Init => Front!Init  BY InitImplementsShelf
<1>2. IInv /\ [Next]_vars => [Front!Next]_<<publishState, original, parts>>
  BY StepImplementsShelf
<1> QED  BY <1>1, <1>2, Invariance, PTL DEF Spec, ImplementsShelf, Front!Spec
=============================================================================
