----------------------------- MODULE ListingProofs ----------------------------
(***************************************************************************)
(* Proofs about a list that is read page by page while its rows change,    *)
(* for any games, numbers, ranks and limits.                               *)
(*                                                                         *)
(* The rows (Spine, whose writers are those of Listing): an original stays *)
(* a published game that is no variant as long as there is a variant of    *)
(* it, and every row satisfies the CHECKs, the originals' the one of       *)
(* games_non_variant_complete among them; so one step up finds whatever a  *)
(* variant leaves out.                                                     *)
(*                                                                         *)
(* The walk: ids break the ties of both orders, so the number of rows      *)
(* before a row is its place in a result, and what comes after a row is    *)
(* the tail of the result.  Neither id nor created_at of a row ever        *)
(* changes: what is below a cursor stays below it, whoever writes between  *)
(* the pages.  Hence no game twice and none missed, which is module Scan.  *)
(***************************************************************************)
EXTENDS Listing, FunctionTheorems, FiniteSetTheorems, SequenceTheorems, TLAPS

USE SpineAssumption

\* A game that is not there has an empty row.
NoneIsEmpty ==
    \A g \in Games : publishState[g] = "none" => original[g] = Null

\* games_original_not_variant_fkey.
OriginalsStand ==
    \A g \in Games : original[g] # Null =>
        /\ original[g] \in Games
        /\ publishState[original[g]] = "published"
        /\ original[original[g]] = Null

RowsAreAllowed ==
    \A g \in Games : publishState[g] # "none" => RowAllowed(own[g], original[g])

\* The inductive invariant.
IInv == RowsTypeOK /\ NoneIsEmpty /\ OriginalsStand /\ RowsAreAllowed

LEMMA InitIInv == RowsInit => IInv
<1> SUFFICES ASSUME RowsInit PROVE IInv OBVIOUS
<1>1. NoSpine \in Spines BY DEF NoSpine, Spines
<1>2. \A g \in Games : own[g] \in Spines
  BY <1>1, SeededAssumption DEF RowsInit
<1>3. RowsTypeOK BY <1>1, <1>2, SeededAssumption DEF RowsInit, RowsTypeOK
<1>4. NoneIsEmpty /\ OriginalsStand
  BY SeededAssumption DEF RowsInit, NoneIsEmpty, OriginalsStand
<1>5. RowsAreAllowed BY SeededAssumption DEF RowsInit, RowsAreAllowed
<1> QED BY <1>3, <1>4, <1>5 DEF IInv

\* A row appears, uncommitted.
LEMMA InsertKeeps ==
    ASSUME IInv, NEW g \in Games, NEW o, NEW s \in Spines,
           o # Null => o \in Games /\ publishState[o] = "published" /\ original[o] = Null,
           Insert(g, o, s)
    PROVE  IInv'
<1> USE DEF Insert
<1>1. RowsTypeOK' BY DEF IInv, RowsTypeOK
<1>2. NoneIsEmpty' BY DEF IInv, NoneIsEmpty, RowsTypeOK
<1>3. OriginalsStand' BY DEF IInv, NoneIsEmpty, OriginalsStand, RowsTypeOK
<1>4. RowsAreAllowed'
  <2>1. \A h \in Games \ {g} : own'[h] = own[h] /\ original'[h] = original[h]
                                /\ publishState'[h] = publishState[h]
    BY DEF IInv, RowsTypeOK
  <2>2. own'[g] = s /\ original'[g] = o BY DEF IInv, RowsTypeOK
  <2> QED BY <2>1, <2>2 DEF IInv, RowsAreAllowed
<1> QED BY <1>1, <1>2, <1>3, <1>4 DEF IInv

\* Nothing is a variant of a game that is not published.
LEMMA OnlyPublishedHaveVariants ==
    ASSUME IInv, NEW g \in Games, publishState[g] # "published"
    PROVE  \A h \in Games : original[h] # g
<1>1. g # Null OBVIOUS
<1> QED BY <1>1 DEF IInv, OriginalsStand

LEMMA CommitCreateKeeps ==
    ASSUME IInv, NEW g \in Games, CommitCreate(g)
    PROVE  IInv'
BY OnlyPublishedHaveVariants
   DEF CommitCreate, IInv, RowsTypeOK, NoneIsEmpty, OriginalsStand, RowsAreAllowed

LEMMA AbortCreateKeeps ==
    ASSUME IInv, NEW g \in Games, AbortCreate(g)
    PROVE  IInv'
<1>1. NoSpine \in Spines BY DEF NoSpine, Spines
<1>2. RowsTypeOK' BY <1>1 DEF AbortCreate, IInv, RowsTypeOK
<1>3. NoneIsEmpty' BY DEF AbortCreate, IInv, NoneIsEmpty, RowsTypeOK
<1>4. OriginalsStand'
  BY OnlyPublishedHaveVariants DEF AbortCreate, IInv, OriginalsStand, RowsTypeOK
<1>5. RowsAreAllowed' BY DEF AbortCreate, IInv, RowsAreAllowed, RowsTypeOK
<1> QED BY <1>2, <1>3, <1>4, <1>5 DEF IInv

LEMMA PublishKeeps ==
    ASSUME IInv, NEW g \in Games, Publish(g)
    PROVE  IInv'
BY OnlyPublishedHaveVariants
   DEF Publish, IInv, RowsTypeOK, NoneIsEmpty, OriginalsStand, RowsAreAllowed

LEMMA UnpublishKeeps ==
    ASSUME IInv, NEW g \in Games, Unpublish(g)
    PROVE  IInv'
<1>1. \A h \in Games : original[h] # g BY DEF Unpublish, Variants
<1> QED
  BY <1>1 DEF Unpublish, IInv, RowsTypeOK, NoneIsEmpty, OriginalsStand, RowsAreAllowed

LEMMA EditGameKeeps ==
    ASSUME IInv, NEW g \in Games, NEW edit \in Edits, EditGame(g, edit)
    PROVE  IInv'
<1>1. Assigned(own[g], edit) \in Spines
  BY DEF IInv, RowsTypeOK, Assigned, Edits, Spines
<1>2. own' = [own EXCEPT ![g] = Assigned(own[g], edit)] BY DEF EditGame
<1>3. UNCHANGED <<publishState, original, createdAt, now>> BY DEF EditGame
<1>4. RowsTypeOK' BY <1>1, <1>2, <1>3 DEF IInv, RowsTypeOK
<1>5. NoneIsEmpty' /\ OriginalsStand' BY <1>3 DEF IInv, NoneIsEmpty, OriginalsStand
<1>6. RowsAreAllowed'
  <2>1. RowAllowed(Assigned(own[g], edit), original[g]) BY DEF EditGame
  <2> QED BY <1>2, <1>3, <2>1 DEF IInv, RowsAreAllowed, RowsTypeOK
<1> QED BY <1>4, <1>5, <1>6 DEF IInv

LEMMA WriteKeeps == IInv /\ [Write]_rows => IInv'
<1> SUFFICES ASSUME IInv, [Write]_rows PROVE IInv' OBVIOUS
<1>1. CASE Tick
  BY <1>1 DEF Tick, IInv, RowsTypeOK, NoneIsEmpty, OriginalsStand, RowsAreAllowed
<1>2. ASSUME NEW g \in Games, NEW s \in Spines, CreateDraft(g, s) PROVE IInv'
  BY <1>2, InsertKeeps DEF CreateDraft
<1>3. ASSUME NEW g \in Games, NEW o \in Games, NEW s \in Spines, CreateVariant(g, o, s) PROVE IInv'
  BY <1>3, InsertKeeps DEF CreateVariant
<1>4. ASSUME NEW g \in Games, CommitCreate(g) \/ AbortCreate(g) PROVE IInv'
  BY <1>4, CommitCreateKeeps, AbortCreateKeeps
<1>5. ASSUME NEW g \in Games, Publish(g) \/ Unpublish(g) PROVE IInv'
  BY <1>5, PublishKeeps, UnpublishKeeps
<1>6. ASSUME NEW g \in Games, NEW edit \in Edits, EditGame(g, edit) PROVE IInv'
  BY <1>6, EditGameKeeps
<1>7. CASE UNCHANGED rows
  BY <1>7 DEF rows, IInv, RowsTypeOK, NoneIsEmpty, OriginalsStand, RowsAreAllowed
<1> QED BY <1>1, <1>2, <1>3, <1>4, <1>5, <1>6, <1>7 DEF Write

\* The inductive invariant holds in every reachable state of the table.
THEOREM RowsInvariance == RowsSpec => []IInv
BY InitIInv, WriteKeeps, PTL DEF RowsSpec

\* Paging and searching leave the table alone: what Listing does to it, Spine
\* does.
THEOREM ListingWritesRows == Spec => RowsSpec
<1>1. Init => RowsInit BY DEF Init
<1>2. [Next]_vars => [Write]_rows
  <2> SUFFICES ASSUME [Next]_vars PROVE [Write]_rows OBVIOUS
  <2>1. CASE WriteRows BY <2>1 DEF WriteRows
  <2>2. ASSUME NEW g \in Games, NEW r \in Ranks, EditText(g, r) PROVE UNCHANGED rows
    BY <2>2 DEF EditText
  <2>3. ASSUME NEW phase \in {"listing", "searching"}, NEW p \in (Numbers \ {0}) \cup {Null},
               Start(phase, p)
        PROVE  UNCHANGED rows
    BY <2>3 DEF Start
  <2>4. ASSUME NEW asked \in 0..MaxGameLimit, ListGames(asked) \/ SearchGames(asked)
        PROVE  UNCHANGED rows
    BY <2>4 DEF ListGames, SearchGames
  <2>5. CASE Leave BY <2>5 DEF Leave
  <2>6. CASE UNCHANGED vars BY <2>6 DEF vars
  <2> QED BY <2>1, <2>2, <2>3, <2>4, <2>5, <2>6 DEF Next
<1> QED BY <1>1, <1>2, PTL DEF Spec, RowsSpec

\* Every game shows a whole pair of numbers, whatever is cleared of it or of
\* its original (gameSource in store/games.go).
THEOREM NumbersAreComplete == Spec => []ResolvedIsComplete
<1>1. IInv => ResolvedIsComplete
  <2> SUFFICES ASSUME IInv, NEW g \in Committed, NEW c \in Columns
               PROVE  Resolved(g)[c] # Null
    BY DEF ResolvedIsComplete, Complete
  <2>1. g \in Games /\ publishState[g] # "none" BY DEF Committed
  <2>2. CASE original[g] = Null
    BY <2>1, <2>2 DEF IInv, RowsAreAllowed, RowAllowed, Complete, Resolved
  <2>3. CASE original[g] # Null
    BY <2>1, <2>3 DEF IInv, OriginalsStand, RowsAreAllowed, RowAllowed, Complete, Resolved
  <2> QED BY <2>2, <2>3
<1> QED BY <1>1, RowsInvariance, ListingWritesRows, PTL

\* Only a range that is put together of a variant's end and its original's can
\* be the wrong way round (games_participants_range).
THEOREM RangesHold == Spec => []RangesAreInOrder
<1>1. IInv => RangesAreInOrder
  <2> SUFFICES ASSUME IInv, NEW g \in Committed,
                      ~(original[g] # Null /\ ~Complete(own[g]) /\ own[g] # NoSpine)
               PROVE  RangeInOrder(Resolved(g))
    BY DEF RangesAreInOrder
  <2>1. g \in Games /\ publishState[g] # "none" BY DEF Committed
  <2>2. RangeInOrder(own[g]) BY <2>1 DEF IInv, RowsAreAllowed, RowAllowed
  <2>3. CASE original[g] = Null \/ Complete(own[g])
    BY <2>2, <2>3 DEF Resolved, RangeInOrder, Complete, Columns
  <2>4. CASE original[g] # Null /\ own[g] = NoSpine
    <3>1. RangeInOrder(own[original[g]])
      BY <2>1, <2>4 DEF IInv, OriginalsStand, RowsAreAllowed, RowAllowed
    <3> QED BY <2>4, <3>1 DEF Resolved, RangeInOrder, NoSpine, Columns
  <2> QED BY <2>3, <2>4
<1> QED BY <1>1, RowsInvariance, ListingWritesRows, PTL

(***************************************************************************)
(* Sorted results.  In a strict order the number of rows before a row is   *)
(* its place, so that a set reads in one way only, and what comes after    *)
(* one of its rows is the tail.                                            *)
(***************************************************************************)
StrictOrder(before) ==
    /\ before \in [Games -> SUBSET Games]
    /\ \A g \in Games : g \notin before[g]
    /\ \A g, h, k \in Games : h \in before[g] /\ k \in before[h] => k \in before[g]
    /\ \A g, h \in Games : g = h \/ g \in before[h] \/ h \in before[g]

\* How many rows of S come before g.
Ahead(S, before, g) == Cardinality(S \cap before[g])

LEMMA SetsAreFinite ==
    ASSUME NEW S \in SUBSET Games
    PROVE  IsFiniteSet(S) /\ Cardinality(S) \in Nat
BY ListingAssumption, FS_Subset, FS_CardinalityType

LEMMA AheadGrows ==
    ASSUME NEW before, StrictOrder(before), NEW S \in SUBSET Games,
           NEW g \in S, NEW h \in S, g \in before[h]
    PROVE  Ahead(S, before, g) < Ahead(S, before, h)
<1>1. S \cap before[g] \in SUBSET (S \cap before[h]) BY DEF StrictOrder
<1>2. S \cap before[g] # S \cap before[h] BY DEF StrictOrder
<1>3. S \cap before[h] \in SUBSET Games /\ S \cap before[g] \in SUBSET Games OBVIOUS
<1>4. /\ Cardinality(S \cap before[g]) <= Cardinality(S \cap before[h])
      /\ Cardinality(S \cap before[g]) # Cardinality(S \cap before[h])
  BY <1>1, <1>2, <1>3, SetsAreFinite, FS_Subset
<1>5. Cardinality(S \cap before[g]) \in Nat /\ Cardinality(S \cap before[h]) \in Nat
  BY <1>3, SetsAreFinite
<1> QED BY <1>4, <1>5 DEF Ahead

\* Two rows do not have as many rows before them.
LEMMA PlacesDiffer ==
    ASSUME NEW before, StrictOrder(before), NEW S \in SUBSET Games,
           NEW g \in S, NEW h \in S, Ahead(S, before, g) = Ahead(S, before, h)
    PROVE  g = h
<1>1. Ahead(S, before, g) \in Nat /\ Ahead(S, before, h) \in Nat
  <2>1. S \cap before[g] \in SUBSET Games /\ S \cap before[h] \in SUBSET Games OBVIOUS
  <2> QED BY <2>1, SetsAreFinite DEF Ahead
<1>2. CASE g \in before[h] BY <1>1, <1>2, AheadGrows
<1>3. CASE h \in before[g] BY <1>1, <1>3, AheadGrows
<1> QED BY <1>2, <1>3 DEF StrictOrder

\* Every place is taken: rows and places are equally many.
LEMMA PlacesAreTaken ==
    ASSUME NEW before, StrictOrder(before), NEW S \in SUBSET Games
    PROVE  /\ \A g \in S : Ahead(S, before, g) \in 0..(Cardinality(S) - 1)
           /\ \A i \in 1..Cardinality(S) : \E g \in S : Ahead(S, before, g) = i - 1
<1> DEFINE n == Cardinality(S)
           f == [g \in S |-> Ahead(S, before, g)]
<1>1. IsFiniteSet(S) /\ n \in Nat BY SetsAreFinite
<1>2. ASSUME NEW g \in S PROVE Ahead(S, before, g) \in 0..(n - 1)
  <2>1. S \cap before[g] \in SUBSET S /\ S \cap before[g] # S BY DEF StrictOrder
  <2>2. /\ Cardinality(S \cap before[g]) <= n /\ Cardinality(S \cap before[g]) # n
    BY <1>1, <2>1, FS_Subset
  <2>3. Cardinality(S \cap before[g]) \in Nat
    <3>1. S \cap before[g] \in SUBSET Games OBVIOUS
    <3> QED BY <3>1, SetsAreFinite
  <2> QED BY <1>1, <2>2, <2>3 DEF Ahead
<1>3. f \in [S -> 0..(n - 1)] BY <1>2
<1>4. \A g, h \in S : f[g] = f[h] => g = h BY PlacesDiffer
<1>5. f \in Injection(S, 0..(n - 1)) BY <1>3, <1>4, Fun_IsInj
<1>6. IsFiniteSet(0..(n - 1)) /\ Cardinality(0..(n - 1)) = n
  <2>1. 0 \in Int /\ n - 1 \in Int BY <1>1
  <2>2. /\ IsFiniteSet(0..(n - 1))
        /\ Cardinality(0..(n - 1)) = IF 0 > n - 1 THEN 0 ELSE (n - 1) - 0 + 1
    BY <2>1, FS_Interval
  <2> HIDE DEF n
  <2> QED BY <1>1, <2>2
<1>7. f \in Surjection(S, 0..(n - 1)) BY <1>5, <1>6, FS_Injection
<1>8. \A g \in S : f[g] = Ahead(S, before, g) OBVIOUS
<1>9. \A i \in 1..n : i - 1 \in 0..(n - 1) BY <1>1
<1> HIDE DEF n, f
<1>10. \A k \in 0..(n - 1) : \E g \in S : f[g] = k BY <1>7, Fun_SurjectionProperties
<1> QED BY <1>2, <1>8, <1>9, <1>10 DEF n

\* A sorted result has every row once, and in order.
LEMMA OrderedIsSorted ==
    ASSUME NEW before, StrictOrder(before), NEW S \in SUBSET Games,
           NEW s, s = Ordered(before)[S]
    PROVE  /\ s \in Seq(S) /\ s \in Seq(Games) /\ Len(s) = Cardinality(S)
           /\ \A i \in 1..Len(s) : s[i] \in S /\ Ahead(S, before, s[i]) = i - 1
           /\ ToSet(s) = S
<1>1. Cardinality(S) \in Nat BY SetsAreFinite
<1>2. s = [i \in 1..Cardinality(S) |-> CHOOSE g \in S : Ahead(S, before, g) = i - 1]
  BY DEF Ordered, Ahead
<1>3. ASSUME NEW i \in 1..Cardinality(S)
      PROVE  s[i] \in S /\ Ahead(S, before, s[i]) = i - 1
  <2>1. \E g \in S : Ahead(S, before, g) = i - 1 BY PlacesAreTaken
  <2>2. s[i] = CHOOSE g \in S : Ahead(S, before, g) = i - 1 BY <1>2
  <2> QED BY <2>1, <2>2
<1>4. s \in [1..Cardinality(S) -> S] BY <1>2, <1>3
<1>5. s \in Seq(S) /\ Len(s) = Cardinality(S) BY <1>1, <1>4
<1>6. s \in Seq(Games)
  <2>1. s \in [1..Cardinality(S) -> Games] BY <1>4
  <2> QED BY <1>1, <2>1
<1>7. DOMAIN s = 1..Cardinality(S) BY <1>4
<1>8. ASSUME NEW g \in S PROVE \E i \in 1..Cardinality(S) : s[i] = g
  <2>1. Ahead(S, before, g) \in 0..(Cardinality(S) - 1) BY PlacesAreTaken
  <2>2. PICK i \in 1..Cardinality(S) : i - 1 = Ahead(S, before, g) BY <1>1, <2>1
  <2> QED BY <1>3, <2>2, PlacesDiffer
<1>9. ToSet(s) = S BY <1>3, <1>7, <1>8 DEF ToSet
<1> QED BY <1>3, <1>5, <1>6, <1>9

\* T is what comes after the k-th row when S is read in order.
TailOf(T, s, k, before, S) ==
    /\ StrictOrder(before)
    /\ S \in SUBSET Games
    /\ s = Ordered(before)[S]
    /\ k \in 1..Len(s)
    /\ T = {g \in S : s[k] \in before[g]}

\* What comes after a row of a sorted result is the result of what is after it.
LEMMA OrderedTail ==
    ASSUME NEW T, NEW s, NEW k, NEW before, NEW S, TailOf(T, s, k, before, S)
    PROVE  Ordered(before)[T] = SubSeq(s, k + 1, Len(s))
<1> USE DEF TailOf
<1> DEFINE t == Ordered(before)[T]
           n == Len(s)
           x == s[k]
<1>1. /\ s \in Seq(S) /\ s \in Seq(Games) /\ n = Cardinality(S) /\ n \in Nat
      /\ \A i \in 1..n : s[i] \in S /\ Ahead(S, before, s[i]) = i - 1
      /\ ToSet(s) = S
  BY OrderedIsSorted, SetsAreFinite
<1>2. T \in SUBSET Games /\ T \in SUBSET S OBVIOUS
<1>3. /\ t \in Seq(T) /\ t \in Seq(Games) /\ Len(t) = Cardinality(T)
      /\ \A i \in 1..Len(t) : t[i] \in T /\ Ahead(T, before, t[i]) = i - 1
  BY <1>2, OrderedIsSorted
<1>4. k \in Nat /\ k >= 1 /\ k <= n /\ x \in S BY <1>1
\* Before and at x there are k rows.
<1>5. IsFiniteSet(S) /\ Cardinality((S \cap before[x]) \cup {x}) = k
  <2>1. S \cap before[x] \in SUBSET Games OBVIOUS
  <2>2. IsFiniteSet(S \cap before[x]) /\ Cardinality(S \cap before[x]) = k - 1
    BY <1>1, <2>1, SetsAreFinite DEF Ahead
  <2>3. x \notin S \cap before[x] BY <1>4 DEF StrictOrder
  <2>4. Cardinality((S \cap before[x]) \cup {x}) = (k - 1) + 1 BY <2>2, <2>3, FS_AddElement
  <2> QED BY <1>4, <2>4, SetsAreFinite
\* So they are ahead of a row after x, beside those of T.
<1>6. ASSUME NEW g \in T
      PROVE  Ahead(S, before, g) = Ahead(T, before, g) + k
  <2> DEFINE A == S \cap before[g]
             B == (S \cap before[x]) \cup {x}
  <2>1. A \cap B = B
    <3>1. x \in A BY <1>4
    <3>2. S \cap before[x] \subseteq A BY <1>4 DEF StrictOrder
    <3> QED BY <3>1, <3>2
  <2>2. A \ B = T \cap before[g]
    <3>1. ASSUME NEW h \in A, h \notin B PROVE h \in T
      BY <1>4, <3>1 DEF StrictOrder
    <3>2. ASSUME NEW h \in T PROVE h \in S /\ h \notin B
      BY <1>4, <3>2 DEF StrictOrder
    <3> QED BY <3>1, <3>2
  <2>3. A \in SUBSET Games /\ T \cap before[g] \in SUBSET Games OBVIOUS
  <2>4. IsFiniteSet(A) /\ Cardinality(A) \in Nat /\ Cardinality(T \cap before[g]) \in Nat
    BY <2>3, SetsAreFinite
  <2>5. Cardinality(A \ B) = Cardinality(A) - Cardinality(A \cap B) BY <2>4, FS_Difference
  <2>6. Cardinality(T \cap before[g]) = Cardinality(A) - k BY <1>5, <2>1, <2>2, <2>5
  <2> QED BY <1>4, <2>4, <2>6 DEF Ahead
<1>7. Cardinality(T) = n - k
  <2> DEFINE B == (S \cap before[x]) \cup {x}
  <2>1. S \ B = T BY <1>4 DEF StrictOrder
  <2>2. S \cap B = B BY <1>4
  <2>3. Cardinality(S \ B) = Cardinality(S) - Cardinality(S \cap B) BY <1>5, FS_Difference
  <2> QED BY <1>1, <1>5, <2>1, <2>2, <2>3
<1>8. Len(t) = n - k /\ Len(t) \in Nat BY <1>3, <1>4, <1>7, <1>1
<1>9. ASSUME NEW i \in 1..Len(t) PROVE t[i] = s[i + k]
  <2>1. t[i] \in T /\ Ahead(T, before, t[i]) = i - 1 BY <1>3
  <2>2. Ahead(S, before, t[i]) = (i - 1) + k BY <1>6, <2>1
  <2>3. i + k \in 1..n BY <1>4, <1>8, <1>1
  <2>4. s[i + k] \in S /\ Ahead(S, before, s[i + k]) = (i + k) - 1 BY <1>1, <2>3
  <2>5. (i - 1) + k = (i + k) - 1 BY <1>4, <1>8
  <2>6. t[i] \in S /\ Ahead(S, before, t[i]) = Ahead(S, before, s[i + k])
    BY <1>2, <2>1, <2>2, <2>4, <2>5
  <2> DEFINE g == t[i]
             h == s[i + k]
  <2>7. g \in S /\ h \in S /\ Ahead(S, before, g) = Ahead(S, before, h) BY <2>4, <2>6
  <2> HIDE DEF g, h
  <2>8. g = h BY <2>7, PlacesDiffer
  <2> QED BY <2>8 DEF g, h
<1> HIDE DEF t, n, x
<1>10. /\ SubSeq(s, k + 1, n) \in Seq(Games)
       /\ Len(SubSeq(s, k + 1, n)) = n - k
       /\ \A i \in 1..(n - k) : SubSeq(s, k + 1, n)[i] = s[k + i]
  <2>1. ASSUME NEW i \in (k + 1)..n PROVE s[i] \in Games
    <3>1. i \in 1..n BY <1>1, <1>4
    <3> QED BY <1>1, <3>1
  <2>2. k + 1 \in Int /\ n \in Int BY <1>1, <1>4
  <2>3. /\ SubSeq(s, k + 1, n) \in Seq(Games)
        /\ Len(SubSeq(s, k + 1, n)) = IF k + 1 <= n THEN n - (k + 1) + 1 ELSE 0
        /\ \A i \in 1..(n - (k + 1) + 1) : SubSeq(s, k + 1, n)[i] = s[(k + 1) + i - 1]
    BY <2>1, <2>2, SubSeqProperties
  <2>4. n - (k + 1) + 1 = n - k /\ \A i \in 1..(n - k) : (k + 1) + i - 1 = k + i
    BY <1>1, <1>4
  <2> QED BY <1>1, <1>4, <2>3, <2>4
<1>11. t = SubSeq(s, k + 1, n)
  <2>1. \A i \in 1..(n - k) : s[i + k] = s[k + i] BY <1>4, <1>1
  <2>2. \A i \in 1..Len(t) : t[i] = SubSeq(s, k + 1, n)[i]
    BY <1>8, <1>9, <1>10, <2>1
  <2>3. Len(t) = Len(SubSeq(s, k + 1, n)) BY <1>8, <1>10
  <2> DEFINE u == SubSeq(s, k + 1, n)
  <2>4. t \in Seq(Games) /\ u \in Seq(Games) BY <1>3, <1>10
  <2> HIDE DEF u
  <2>5. t = u BY <2>2, <2>3, <2>4, SeqEqual DEF u
  <2> QED BY <2>5 DEF u
<1> QED BY <1>11 DEF t, n

(***************************************************************************)
(* The two orders are strict, whatever the clocks and the ranks: ids break *)
(* the ties.                                                               *)
(***************************************************************************)
NewerBy(created) ==
    [g \in Games |-> {h \in Games : created[g] < created[h] \/ (created[g] = created[h] /\ g < h)}]

BetterBy(ranks, created) ==
    [g \in Games |-> {h \in Games : ranks[h] > ranks[g]
                                      \/ (ranks[h] = ranks[g] /\ h \in NewerBy(created)[g])}]

LEMMA NewerIsStrict ==
    ASSUME NEW created \in [Games -> Nat]
    PROVE  StrictOrder(NewerBy(created))
<1>1. \A g \in Games : g \in Nat /\ created[g] \in Nat OBVIOUS
<1> QED BY <1>1 DEF StrictOrder, NewerBy

LEMMA BetterIsStrict ==
    ASSUME NEW ranks \in [Games -> Nat], NEW created \in [Games -> Nat]
    PROVE  StrictOrder(BetterBy(ranks, created))
<1> DEFINE newer == NewerBy(created)
           better == BetterBy(ranks, created)
<1>1. StrictOrder(newer) BY NewerIsStrict
<1>2. \A g \in Games : ranks[g] \in Nat OBVIOUS
<1>3. better \in [Games -> SUBSET Games] BY DEF BetterBy
<1>4. \A g, h \in Games : h \in better[g] <=>
        ranks[h] > ranks[g] \/ (ranks[h] = ranks[g] /\ h \in newer[g])
  BY DEF BetterBy
<1> HIDE DEF newer, better
<1>5. ASSUME NEW g \in Games PROVE g \notin better[g]
  <2>1. g \notin newer[g] /\ ~(ranks[g] > ranks[g]) BY <1>1, <1>2 DEF StrictOrder
  <2> QED BY <1>4, <2>1
<1>6. ASSUME NEW g \in Games, NEW h \in Games, NEW k \in Games, h \in better[g], k \in better[h]
      PROVE  k \in better[g]
  <2>1. /\ ranks[h] > ranks[g] \/ (ranks[h] = ranks[g] /\ h \in newer[g])
        /\ ranks[k] > ranks[h] \/ (ranks[k] = ranks[h] /\ k \in newer[h])
    BY <1>4, <1>6
  <2>2. ranks[g] \in Nat /\ ranks[h] \in Nat /\ ranks[k] \in Nat BY <1>2
  <2>3. h \in newer[g] /\ k \in newer[h] => k \in newer[g] BY <1>1 DEF StrictOrder
  <2>4. ranks[k] > ranks[g] \/ (ranks[k] = ranks[g] /\ k \in newer[g]) BY <2>1, <2>2, <2>3
  <2> QED BY <1>4, <2>4
<1>7. ASSUME NEW g \in Games, NEW h \in Games
      PROVE  g = h \/ g \in better[h] \/ h \in better[g]
  <2>1. ranks[g] > ranks[h] \/ ranks[h] > ranks[g] \/ ranks[g] = ranks[h] BY <1>2
  <2>2. g = h \/ g \in newer[h] \/ h \in newer[g] BY <1>1 DEF StrictOrder
  <2> QED BY <1>4, <2>1, <2>2
<1>8. StrictOrder(better) BY <1>3, <1>5, <1>6, <1>7 DEF StrictOrder
<1> QED BY <1>8 DEF better

\* What a walk reads from is a sorted result, before a step and after it.
LEMMA ResultsAreSorted ==
    ASSUME NEW p
    PROVE  /\ List(p) = Ordered(NewerBy(createdAt))[Listed(p)]
           /\ Search(p) = Ordered(BetterBy(rank, createdAt))[Found(p)]
           /\ List(p)' = Ordered(NewerBy(createdAt'))[Listed(p)']
           /\ Search(p)' = Ordered(BetterBy(rank', createdAt'))[Found(p)']
<1>1. Newer = NewerBy(createdAt) BY DEF Newer, NewerBy, KeyBelow, Cursor
<1>2. Newer' = NewerBy(createdAt') BY DEF Newer, NewerBy, KeyBelow, Cursor
<1>3. Better = BetterBy(rank, createdAt) BY <1>1 DEF Better, BetterBy
<1>4. Better' = BetterBy(rank', createdAt') BY <1>2 DEF Better, BetterBy
<1> QED BY <1>1, <1>2, <1>3, <1>4 DEF List, Search

\* The rows a walk in this phase may see.
Eligible(phase, p) ==
    CASE phase \in {"listing", "listed"}  -> Listed(p)
      [] phase \in {"searching", "found"} -> Found(p)
      [] OTHER                            -> {}

LEMMA ResultSet ==
    ASSUME RowsTypeOK, rank \in [Games -> Ranks], NEW phase, NEW p
    PROVE  /\ ResultOf(phase, p) \in Seq(Games)
           /\ ToSet(ResultOf(phase, p)) = Eligible(phase, p)
<1>1. createdAt \in [Games -> Nat] /\ rank \in [Games -> Nat]
  <2>1. 0..MaxTime \subseteq Nat /\ Ranks \subseteq Nat BY ListingAssumption
  <2>2. createdAt \in [Games -> 0..MaxTime] BY DEF RowsTypeOK
  <2> QED BY <2>1, <2>2
<1>2. Listed(p) \in SUBSET Games /\ Found(p) \in SUBSET Games BY DEF Listed, Found
<1>3. List(p) \in Seq(Games) /\ ToSet(List(p)) = Listed(p)
  BY <1>1, <1>2, ResultsAreSorted, NewerIsStrict, OrderedIsSorted
<1>4. Search(p) \in Seq(Games) /\ ToSet(Search(p)) = Found(p)
  <2>1. StrictOrder(BetterBy(rank, createdAt)) BY <1>1, BetterIsStrict
  <2> QED BY <1>2, <2>1, ResultsAreSorted, OrderedIsSorted
<1>5. <<>> \in Seq(Games) /\ ToSet(<<>>) = {} BY DEF ToSet
<1> QED BY <1>3, <1>4, <1>5 DEF ResultOf, Eligible

LEMMA ResultSetAfter ==
    ASSUME RowsTypeOK', rank' \in [Games -> Ranks], NEW phase, NEW p
    PROVE  /\ ResultOf(phase, p)' \in Seq(Games)
           /\ ToSet(ResultOf(phase, p)') = Eligible(phase, p)'
<1>1. createdAt' \in [Games -> Nat] /\ rank' \in [Games -> Nat]
  <2>1. 0..MaxTime \subseteq Nat /\ Ranks \subseteq Nat BY ListingAssumption
  <2>2. createdAt' \in [Games -> 0..MaxTime] BY DEF RowsTypeOK
  <2> QED BY <2>1, <2>2
<1>2. Listed(p)' \in SUBSET Games /\ Found(p)' \in SUBSET Games BY DEF Listed, Found
<1>3. List(p)' \in Seq(Games) /\ ToSet(List(p)') = Listed(p)'
  BY <1>1, <1>2, ResultsAreSorted, NewerIsStrict, OrderedIsSorted
<1>4. Search(p)' \in Seq(Games) /\ ToSet(Search(p)') = Found(p)'
  <2>1. StrictOrder(BetterBy(rank', createdAt')) BY <1>1, BetterIsStrict
  <2> QED BY <1>2, <2>1, ResultsAreSorted, OrderedIsSorted
<1>5. <<>> \in Seq(Games) /\ ToSet(<<>>) = {} BY DEF ToSet
<1> QED BY <1>3, <1>4, <1>5 DEF ResultOf, Eligible

(***************************************************************************)
(* The walk.                                                               *)
(***************************************************************************)
Walks == [phase : {"idle", "listing", "listed", "searching", "found"},
          participants : Numbers \cup {Null},
          cursor : [at : Nat, id : Games \cup {Null}],
          offset : 0..MaxGameSearchOffset,
          shown : Seq(Games), throughout : SUBSET Games, still : BOOLEAN]

\* Whether a page can still show g.
StillAhead(w, g) == w.cursor = NoCursor \/ KeyBelow(g, w.cursor)

\* The cursor is the key of a row that stays, what was shown is not below it,
\* and what was listed all the time was shown or is.
CursorSplits(w) ==
    /\ w.cursor # NoCursor => w.cursor.id \in Committed /\ w.cursor = Cursor(w.cursor.id)
    /\ \A g \in ToSet(w.shown) : g \in Committed /\ ~StillAhead(w, g)
    /\ \A g \in w.throughout : g \in ToSet(w.shown) \/ StillAhead(w, g)

\* A still walk has shown the first rows of its result, and goes on after the
\* last of them.
Exact(w, result) ==
    /\ Len(w.shown) <= Len(result) /\ w.shown = SubSeq(result, 1, Len(w.shown))
    /\ w.phase = "listing" =>
        IF w.shown = <<>> THEN w.cursor = NoCursor
        ELSE w.cursor # NoCursor /\ w.cursor.id = w.shown[Len(w.shown)]
    /\ w.phase = "listed" => w.shown = result
    /\ w.phase = "found" => w.shown = result \/ Len(w.shown) > MaxGameSearchOffset

WalkStands(w) ==
    /\ w.phase = "idle" => w = Idle
    /\ w.phase = "listing" => CursorSplits(w)
    /\ w.phase = "listed" => w.throughout \subseteq ToSet(w.shown)
    /\ w.phase = "searching" => w.offset = Len(w.shown)
    /\ w.phase = "found" => Len(w.shown) <= MaxGameSearchOffset + MaxGameLimit
    /\ w.throughout \subseteq Eligible(w.phase, w.participants)

\* The inductive invariant of Listing.
WalkInv ==
    /\ IInv
    /\ rank \in [Games -> Ranks]
    /\ writes \in 0..MaxWrites
    /\ walk \in Walks
    /\ WalkStands(walk)
    /\ walk.still => Exact(walk, Result)

\* What is committed stays, with the key it has: games are not deleted, and
\* nothing but a rollback takes a row away.
LEMMA KeysStand ==
    ASSUME IInv, Write, NEW g \in Committed
    PROVE  g \in Committed' /\ createdAt'[g] = createdAt[g]
<1>1. g \in Games /\ publishState[g] \in {"draft", "published"} BY DEF Committed
<1>2. CASE Tick BY <1>1, <1>2 DEF Tick, Committed
<1>3. ASSUME NEW h \in Games, NEW o, NEW t, Insert(h, o, t)
      PROVE  g \in Committed' /\ createdAt'[g] = createdAt[g]
  <2>1. g # h BY <1>1, <1>3 DEF Insert
  <2> QED BY <1>1, <1>3, <2>1 DEF Insert, Committed, IInv, RowsTypeOK
<1>4. ASSUME NEW h \in Games, CommitCreate(h) \/ Publish(h) \/ Unpublish(h)
      PROVE  g \in Committed' /\ createdAt'[g] = createdAt[g]
  BY <1>1, <1>4 DEF CommitCreate, Publish, Unpublish, Committed, IInv, RowsTypeOK
<1>5. ASSUME NEW h \in Games, AbortCreate(h)
      PROVE  g \in Committed' /\ createdAt'[g] = createdAt[g]
  <2>1. g # h BY <1>1, <1>5 DEF AbortCreate
  <2> QED BY <1>1, <1>5, <2>1 DEF AbortCreate, Committed, IInv, RowsTypeOK
<1>6. ASSUME NEW h \in Games, NEW edit, EditGame(h, edit)
      PROVE  g \in Committed' /\ createdAt'[g] = createdAt[g]
  BY <1>1, <1>6 DEF EditGame, Committed
<1> QED BY <1>2, <1>3, <1>4, <1>5, <1>6 DEF Write, CreateDraft, CreateVariant

\* Of two rows of a sorted result the one before is before.
LEMMA SortedPairs ==
    ASSUME NEW before, StrictOrder(before), NEW S \in SUBSET Games,
           NEW s, s = Ordered(before)[S], NEW i \in 1..Len(s), NEW k \in 1..Len(s)
    PROVE  i < k <=> s[i] \in before[s[k]]
<1>1. /\ Len(s) \in Nat /\ s[i] \in S /\ s[k] \in S
      /\ Ahead(S, before, s[i]) = i - 1 /\ Ahead(S, before, s[k]) = k - 1
  BY OrderedIsSorted, SetsAreFinite
<1>2. ASSUME s[i] \in before[s[k]] PROVE i < k
  <2>1. i - 1 < k - 1 BY <1>1, <1>2, AheadGrows
  <2> QED BY <1>1, <2>1
<1>3. ASSUME i < k PROVE s[i] \in before[s[k]]
  <2>1. s[i] # s[k] BY <1>1, <1>3
  <2>2. ASSUME s[k] \in before[s[i]] PROVE FALSE
    <3>1. k - 1 < i - 1 BY <1>1, <2>2, AheadGrows
    <3> QED BY <1>1, <1>3, <3>1
  <2> QED BY <1>1, <2>1, <2>2 DEF StrictOrder
<1> QED BY <1>2, <1>3

\* q is s with the first n rows of r put after it.
Paged(q, s, r, n) ==
    s \in Seq(Games) /\ r \in Seq(Games) /\ n \in 0..Len(r) /\ q = s \o SubSeq(r, 1, n)

\* A prefix that a page is put after.
LEMMA PrefixGrows ==
    ASSUME NEW q, NEW s, NEW r, NEW n, Paged(q, s, r, n)
    PROVE  /\ q \in Seq(Games) /\ Len(q) = Len(s) + n
           /\ ToSet(s) \subseteq ToSet(q) /\ \A i \in 1..n : r[i] \in ToSet(q)
           /\ \A g \in ToSet(q) : g \in ToSet(s) \/ \E i \in 1..n : r[i] = g
           /\ n > 0 => q # <<>> /\ q[Len(q)] = r[n]
           /\ q = SubSeq(s \o r, 1, Len(q)) /\ Len(q) <= Len(s \o r)
<1> USE DEF Paged
<1>1. /\ SubSeq(r, 1, n) \in Seq(Games) /\ Len(SubSeq(r, 1, n)) = n
      /\ \A i \in 1..n : SubSeq(r, 1, n)[i] = r[i]
  OBVIOUS
<1>2. /\ q \in Seq(Games) /\ Len(q) = Len(s) + n /\ n \in Nat /\ Len(s) \in Nat
      /\ DOMAIN q = 1..Len(q)
      /\ \A i \in 1..Len(q) : q[i] = IF i <= Len(s) THEN s[i] ELSE r[i - Len(s)]
  <2>1. /\ q \in Seq(Games) /\ Len(q) = Len(s) + n
        /\ \A i \in 1..(Len(s) + n) :
            q[i] = IF i <= Len(s) THEN s[i] ELSE SubSeq(r, 1, n)[i - Len(s)]
    BY <1>1, ConcatProperties
  <2>2. \A i \in 1..(Len(s) + n) : ~(i <= Len(s)) => i - Len(s) \in 1..n OBVIOUS
  <2> QED BY <1>1, <2>1, <2>2
<1>3. /\ ToSet(s) \subseteq ToSet(q) /\ \A i \in 1..n : r[i] \in ToSet(q)
      /\ \A g \in ToSet(q) : g \in ToSet(s) \/ \E i \in 1..n : r[i] = g
  <2>1. ASSUME NEW g \in ToSet(q) PROVE g \in ToSet(s) \/ \E i \in 1..n : r[i] = g
    <3>1. PICK i \in 1..Len(q) : g = q[i] BY <1>2 DEF ToSet
    <3>2. CASE i <= Len(s)
      <4>1. i \in DOMAIN s /\ g = s[i] BY <1>2, <3>1, <3>2
      <4> QED BY <4>1 DEF ToSet
    <3>3. CASE ~(i <= Len(s))
      <4>1. i - Len(s) \in 1..n /\ g = r[i - Len(s)] BY <1>2, <3>1, <3>3
      <4> QED BY <4>1
    <3> QED BY <3>2, <3>3
  <2>2. ASSUME NEW g \in ToSet(s) PROVE g \in ToSet(q)
    <3>1. PICK i \in 1..Len(s) : g = s[i] BY DEF ToSet
    <3>2. i \in DOMAIN q /\ g = q[i] BY <1>2, <3>1
    <3> QED BY <3>2 DEF ToSet
  <2>3. ASSUME NEW i \in 1..n PROVE r[i] \in ToSet(q)
    <3>1. Len(s) + i \in 1..Len(q) /\ ~(Len(s) + i <= Len(s)) /\ (Len(s) + i) - Len(s) = i
      BY <1>2
    <3>2. q[Len(s) + i] = r[i] BY <1>2, <3>1
    <3> QED BY <1>2, <3>1, <3>2 DEF ToSet
  <2> QED BY <2>1, <2>2, <2>3
<1>4. ASSUME n > 0 PROVE q # <<>> /\ q[Len(q)] = r[n]
  <2>1. Len(q) \in 1..Len(q) /\ ~(Len(q) <= Len(s)) /\ Len(q) - Len(s) = n BY <1>2, <1>4
  <2>2. q[Len(q)] = r[n] BY <1>2, <2>1
  <2>3. Len(q) # 0 BY <1>2, <1>4
  <2>4. q # <<>> BY <2>3
  <2> QED BY <2>2, <2>4
<1>5. /\ s \o r \in Seq(Games) /\ Len(s \o r) = Len(s) + Len(r) /\ Len(r) \in Nat
      /\ \A i \in 1..(Len(s) + Len(r)) :
            (s \o r)[i] = IF i <= Len(s) THEN s[i] ELSE r[i - Len(s)]
  BY ConcatProperties
<1>6. Len(q) <= Len(s \o r) BY <1>2, <1>5
<1>7. q = SubSeq(s \o r, 1, Len(q))
  <2> DEFINE t == s \o r
             u == SubSeq(t, 1, Len(q))
  <2>1. \A i \in 1..Len(q) : i \in 1..Len(t) BY <1>2, <1>6
  <2>2. /\ t \in Seq(Games) /\ Len(q) <= Len(t) /\ Len(q) \in Nat
        /\ \A i \in 1..Len(q) : q[i] = t[i]
    BY <1>2, <1>5, <1>6, <2>1
  <2> HIDE DEF t
  <2>3. u \in Seq(Games) /\ Len(u) = Len(q) /\ \A i \in 1..Len(q) : u[i] = t[i] BY <2>2
  <2> HIDE DEF u
  <2>4. q = u BY <1>2, <2>2, <2>3, SeqEqual
  <2> QED BY <2>4 DEF t, u
<1> QED BY <1>2, <1>3, <1>4, <1>6, <1>7

LEMMA IdleStands == Idle \in Walks /\ WalkStands(Idle) /\ Exact(Idle, <<>>)
<1>1. <<>> \in Seq(Games) /\ Len(<<>>) = 0 /\ SubSeq(<<>>, 1, 0) = <<>> OBVIOUS
<1>2. Idle \in Walks BY <1>1, ListingAssumption DEF Idle, Walks, NoCursor
<1>3. Idle.phase = "idle" /\ Idle.throughout = {} /\ Idle.shown = <<>> BY DEF Idle
<1>4. WalkStands(Idle) BY <1>3 DEF WalkStands
<1>5. Exact(Idle, <<>>) BY <1>1, <1>3 DEF Exact
<1> QED BY <1>2, <1>4, <1>5

LEMMA InitWalkInv == Init => WalkInv
<1> SUFFICES ASSUME Init PROVE WalkInv OBVIOUS
<1>1. IInv BY InitIInv DEF Init
<1>2. walk = Idle /\ rank \in [Games -> Ranks] /\ writes \in 0..MaxWrites
  BY ListingAssumption DEF Init
<1>3. Result = <<>> BY <1>2 DEF Result, ResultOf, Idle
<1> QED BY <1>1, <1>2, <1>3, IdleStands DEF WalkInv

\* A writer's step leaves the walk where it is, and takes from what it
\* remembers.
LEMMA ObserveKeeps ==
    ASSUME WalkInv, IInv', rank' \in [Games -> Ranks], ObserveResult,
           \A g \in Committed : g \in Committed' /\ createdAt'[g] = createdAt[g]
    PROVE  walk' \in Walks /\ WalkStands(walk)' /\ (walk.still => Exact(walk, Result))'
<1>1. PICK w \in {walk} : \E result \in {ResultOf(w.phase, w.participants)'} :
        walk' = [w EXCEPT !.throughout = @ \cap ToSet(result),
                          !.still = @ /\ result = Result]
  BY DEF ObserveResult
<1> PICK result \in {ResultOf(w.phase, w.participants)'} :
        walk' = [w EXCEPT !.throughout = @ \cap ToSet(result),
                          !.still = @ /\ result = Result]
  BY <1>1
<1>2. w = walk /\ w \in Walks BY DEF WalkInv
<1>3. PICK still \in BOOLEAN : still = (w.still /\ result = Result) OBVIOUS
<1> PICK rest \in SUBSET Games : rest = w.throughout \cap ToSet(result)
  BY <1>2 DEF Walks
<1>4. walk' = [w EXCEPT !.throughout = rest, !.still = still]
  BY <1>3, Zenon
<1>5. /\ result = ResultOf(w.phase, w.participants)'
      /\ ToSet(result) = Eligible(w.phase, w.participants)'
  <2>1. result = ResultOf(w.phase, w.participants)' OBVIOUS
  <2>2. RowsTypeOK' BY DEF IInv
  <2> QED BY <2>1, <2>2, ResultSetAfter
<1>6. /\ walk' \in Walks
      /\ walk'.phase = w.phase /\ walk'.participants = w.participants
      /\ walk'.cursor = w.cursor /\ walk'.offset = w.offset /\ walk'.shown = w.shown
      /\ walk'.throughout = rest /\ walk'.still = still
  BY <1>2, <1>4 DEF Walks
<1>7. WalkStands(walk)'
  <2>1. CASE w.phase = "idle"
    <3>1. w = Idle BY <1>2, <2>1 DEF WalkInv, WalkStands
    <3>2. w.throughout = {} BY <3>1 DEF Idle
    <3>3. rest = {} BY <3>2
    <3>4. result = <<>> BY <1>5, <2>1 DEF ResultOf
    <3>5. Result = <<>> BY <1>2, <2>1 DEF Result, ResultOf
    <3>6. still = TRUE BY <1>3, <3>1, <3>4, <3>5 DEF Idle
    <3>7. walk' = Idle BY <1>4, <3>1, <3>3, <3>6 DEF Idle
    <3>8. walk'.phase = "idle" /\ walk'.throughout = {} BY <1>6, <2>1, <3>3
    <3> QED BY <3>7, <3>8 DEF WalkStands
  <2>2. CASE w.phase = "listing"
    <3>1. CursorSplits(w) BY <1>2, <2>2 DEF WalkInv, WalkStands
    <3>2. CursorSplits(walk)'
      <4>1. w.cursor # NoCursor => w.cursor.id \in Committed' /\ w.cursor = Cursor(w.cursor.id)'
        BY <3>1 DEF CursorSplits, Cursor
      <4>2. \A g \in w.throughout : g \in Committed
        BY <1>2, <2>2 DEF WalkInv, WalkStands, Eligible, Listed, Visible, Committed
      <4>3. \A g \in Committed : KeyBelow(g, w.cursor)' <=> KeyBelow(g, w.cursor)
        BY DEF KeyBelow
      <4> QED BY <1>6, <3>1, <4>1, <4>2, <4>3 DEF CursorSplits, StillAhead
    <3> QED BY <1>5, <1>6, <2>2, <3>2 DEF WalkStands
  <2>3. CASE w.phase \in {"listed", "searching", "found"}
    BY <1>2, <1>5, <1>6, <2>3 DEF WalkInv, WalkStands
  <2> QED BY <1>2, <2>1, <2>2, <2>3 DEF Walks
<1>8. ASSUME still PROVE Exact(walk', Result')
  <2>1. w.still /\ result = Result BY <1>3, <1>8
  <2>2. Result' = result BY <1>5, <1>6, Zenon DEF Result
  <2>3. Result' = Result BY <2>1, <2>2
  <2>4. Exact(w, Result) BY <1>2, <2>1 DEF WalkInv
  <2> QED BY <1>6, <2>3, <2>4 DEF Exact
<1> QED BY <1>6, <1>7, <1>8

LEMMA WriteRowsKeeps == WalkInv /\ WriteRows => WalkInv'
<1> SUFFICES ASSUME WalkInv, WriteRows PROVE WalkInv' OBVIOUS
<1>1. IInv /\ Write /\ UNCHANGED rank /\ ObserveResult BY DEF WalkInv, WriteRows, Observe
<1>2. IInv' BY <1>1, WriteKeeps
<1>3. rank' \in [Games -> Ranks] BY <1>1 DEF WalkInv
<1>4. writes' \in 0..MaxWrites BY ListingAssumption DEF WalkInv, WriteRows, Observe
<1>5. \A g \in Committed : g \in Committed' /\ createdAt'[g] = createdAt[g]
  BY <1>1, KeysStand
<1>6. walk' \in Walks /\ WalkStands(walk)' /\ (walk.still => Exact(walk, Result))'
  BY <1>1, <1>2, <1>3, <1>5, ObserveKeeps
<1> QED BY <1>2, <1>3, <1>4, <1>6 DEF WalkInv

LEMMA EditTextKeeps ==
    ASSUME WalkInv, NEW g \in Games, NEW r \in Ranks, EditText(g, r)
    PROVE  WalkInv'
<1>1. IInv /\ UNCHANGED rows /\ ObserveResult BY DEF WalkInv, EditText, Observe
<1>2. IInv' BY <1>1, WriteKeeps
<1>3. rank' \in [Games -> Ranks] BY DEF WalkInv, EditText
<1>4. writes' \in 0..MaxWrites BY ListingAssumption DEF WalkInv, EditText, Observe
<1>5. \A h \in Committed : h \in Committed' /\ createdAt'[h] = createdAt[h]
  BY <1>1 DEF rows, Committed
<1>6. walk' \in Walks /\ WalkStands(walk)' /\ (walk.still => Exact(walk, Result))'
  BY <1>1, <1>2, <1>3, <1>5, ObserveKeeps
<1> QED BY <1>2, <1>3, <1>4, <1>6 DEF WalkInv

\* The viewer moves nothing but the walk.
LEMMA ViewerReads ==
    ASSUME UNCHANGED <<rows, rank>>
    PROVE  /\ IInv => IInv'
           /\ UNCHANGED Committed
           /\ \A p : UNCHANGED <<Listed(p), Found(p), List(p), Search(p)>>
           /\ \A phase, p : UNCHANGED <<ResultOf(phase, p), Eligible(phase, p)>>
           /\ \A w : UNCHANGED <<WalkStands(w), CursorSplits(w)>>
<1>1. UNCHANGED <<publishState, original, createdAt, own, now, rank>> BY DEF rows
<1>2. IInv => IInv' BY <1>1 DEF IInv, RowsTypeOK, NoneIsEmpty, OriginalsStand, RowsAreAllowed
<1>3. UNCHANGED Committed BY <1>1 DEF Committed
<1>4. \A p : UNCHANGED Listed(p)
  <2>1. \A g : UNCHANGED Visible(g) BY <1>1 DEF Visible
  <2>2. \A g : UNCHANGED Resolved(g) BY <1>1 DEF Resolved
  <2>3. \A g, p : UNCHANGED Fits(g, p) BY <2>2 DEF Fits
  <2> QED BY <2>1, <2>3 DEF Listed
<1>5. \A p : UNCHANGED Found(p) BY <1>1, <1>4 DEF Found
<1>6. \A g : UNCHANGED Cursor(g) BY <1>1 DEF Cursor
<1>7. \A g, cursor : UNCHANGED KeyBelow(g, cursor) BY <1>1 DEF KeyBelow
<1>8. UNCHANGED Newer BY <1>6, <1>7 DEF Newer
<1>9. UNCHANGED Better BY <1>1, <1>8 DEF Better
<1>10. \A p : UNCHANGED List(p) BY <1>4, <1>8 DEF List
<1>11. \A p : UNCHANGED Search(p) BY <1>5, <1>9 DEF Search
<1>12. \A phase, p : UNCHANGED ResultOf(phase, p) BY <1>10, <1>11 DEF ResultOf
<1>13. \A phase, p : UNCHANGED Eligible(phase, p) BY <1>4, <1>5 DEF Eligible
<1>14. \A w, g : UNCHANGED StillAhead(w, g) BY <1>7 DEF StillAhead
<1>15. \A w : UNCHANGED CursorSplits(w) BY <1>3, <1>6, <1>14 DEF CursorSplits
<1>16. \A w : UNCHANGED WalkStands(w) BY <1>13, <1>15 DEF WalkStands
<1> QED BY <1>2, <1>3, <1>4, <1>5, <1>10, <1>11, <1>12, <1>13, <1>15, <1>16

\* What a step of the viewer has to show of the walk it leaves.
LEMMA ViewerKeeps ==
    ASSUME WalkInv, UNCHANGED <<rows, rank, writes>>,
           NEW w, w = walk', w \in Walks, WalkStands(w),
           w.still => Exact(w, ResultOf(w.phase, w.participants))
    PROVE  WalkInv'
<1>1. /\ IInv' /\ UNCHANGED WalkStands(w)
      /\ UNCHANGED ResultOf(w.phase, w.participants)
  BY ViewerReads DEF WalkInv
<1>2. WalkStands(walk)' BY <1>1
<1>3. Result' = ResultOf(w.phase, w.participants) BY <1>1 DEF Result
<1>4. (walk.still => Exact(walk, Result))' BY <1>3
<1> QED BY <1>1, <1>2, <1>4 DEF WalkInv

LEMMA LeaveKeeps == WalkInv /\ Leave => WalkInv'
<1> SUFFICES ASSUME WalkInv, Leave PROVE WalkInv' OBVIOUS
<1>1. walk' = Idle /\ UNCHANGED <<rows, rank, writes>> BY DEF Leave
<1>2. Idle.phase = "idle" BY DEF Idle
<1>3. ResultOf(Idle.phase, Idle.participants) = <<>> BY <1>2 DEF ResultOf
<1> QED BY <1>1, <1>3, IdleStands, ViewerKeeps

LEMMA StartKeeps ==
    ASSUME WalkInv, NEW phase \in {"listing", "searching"},
           NEW p \in (Numbers \ {0}) \cup {Null}, Start(phase, p)
    PROVE  WalkInv'
<1> DEFINE result == ResultOf(phase, p)
           started == [Idle EXCEPT !.phase = phase, !.participants = p]
           w == [started EXCEPT !.throughout = ToSet(result)]
<1>1. result \in Seq(Games) /\ ToSet(result) = Eligible(phase, p)
  BY ResultSet DEF WalkInv, IInv
<1>2. ToSet(result) \subseteq Games BY <1>1 DEF ToSet
<1>3. walk' = w /\ UNCHANGED <<rows, rank, writes>> BY DEF Start
<1>4. /\ w \in Walks
      /\ w.phase = phase /\ w.participants = p /\ w.cursor = NoCursor /\ w.offset = 0
      /\ w.shown = <<>> /\ w.throughout = ToSet(result) /\ w.still = TRUE
  BY <1>2, IdleStands DEF Idle, Walks
<1> HIDE DEF w, result
<1>5. Len(<<>>) = 0 /\ ToSet(<<>>) = {} BY DEF ToSet
<1>6. WalkStands(w)
  <2>1. CursorSplits(w) BY <1>4, <1>5 DEF CursorSplits, StillAhead
  <2> QED BY <1>1, <1>4, <1>5, <2>1 DEF WalkStands
<1>7. Exact(w, ResultOf(w.phase, w.participants))
  <2>1. Len(result) \in Nat /\ SubSeq(result, 1, 0) = <<>> BY <1>1
  <2> QED BY <1>4, <1>5, <2>1 DEF Exact, result
<1> QED BY <1>3, <1>4, <1>6, <1>7, ViewerKeeps

\* What a walk through the list has not come to, as the next SELECT reads it.
IsRest(rest) ==
    rest = Ordered(NewerBy(createdAt))[Following(walk.participants, walk.cursor)]

\* A page of the list: the first rows of what is after the cursor, and, when
\* there is more, the last of them is the next cursor.
LEMMA PageOfList ==
    ASSUME WalkInv, NEW asked \in 0..MaxGameLimit, ListGames(asked)
    PROVE  \E rest \in Seq(Games), more \in BOOLEAN : \E n \in 0..Len(rest) :
             /\ IsRest(rest)
             /\ IF more THEN n > 0 ELSE n = Len(rest)
             /\ walk' = [walk EXCEPT !.phase = IF more THEN "listing" ELSE "listed",
                                     !.cursor = IF more THEN Cursor(rest[n]) ELSE @,
                                     !.shown = @ \o SubSeq(rest, 1, n)]
<1> DEFINE limit == LimitFor(asked)
           F == Following(walk.participants, walk.cursor)
           rest == Ordered(Newer)[F]
           more == Len(rest) > limit
           page == IF more THEN SubSeq(rest, 1, limit) ELSE rest
           n == IF more THEN limit ELSE Len(rest)
<1>1. limit \in 1..MaxGameLimit BY ListingAssumption DEF LimitFor
<1>2. walk' = [walk EXCEPT !.phase = IF more THEN "listing" ELSE "listed",
                           !.cursor = IF more THEN Cursor(page[limit]) ELSE @,
                           !.shown = @ \o page]
  BY Zenon DEF ListGames
<1>3. F \in SUBSET Games BY DEF Following, Listed
<1>4. Newer = NewerBy(createdAt) /\ StrictOrder(Newer)
  <2>1. Newer = NewerBy(createdAt) BY DEF Newer, NewerBy, KeyBelow, Cursor
  <2>2. createdAt \in [Games -> Nat]
    <3>1. createdAt \in [Games -> 0..MaxTime] /\ 0..MaxTime \subseteq Nat
      BY DEF WalkInv, IInv, RowsTypeOK
    <3> QED BY <3>1
  <2> QED BY <2>1, <2>2, NewerIsStrict
<1> HIDE DEF F
<1>5. rest \in Seq(Games) /\ ToSet(rest) = F BY <1>3, <1>4, OrderedIsSorted
<1> HIDE DEF limit, rest
<1>6. n \in 0..Len(rest) /\ more \in BOOLEAN /\ IF more THEN n > 0 ELSE n = Len(rest)
  BY <1>1, <1>5
<1>7. page = SubSeq(rest, 1, n) /\ (more => page[limit] = rest[n])
  <2>1. CASE more
    <3>1. limit \in 1..Len(rest) BY <1>1, <1>5, <2>1
    <3>2. SubSeq(rest, 1, limit)[limit] = rest[limit] BY <1>5, <3>1
    <3> QED BY <2>1, <3>2
  <2>2. CASE ~more
    <3>1. SubSeq(rest, 1, Len(rest)) = rest BY <1>5, SubSeqFull
    <3> QED BY <2>2, <3>1
  <2> QED BY <2>1, <2>2
<1>8. walk' = [walk EXCEPT !.phase = IF more THEN "listing" ELSE "listed",
                           !.cursor = IF more THEN Cursor(rest[n]) ELSE @,
                           !.shown = @ \o SubSeq(rest, 1, n)]
  <2>1. CASE more BY <1>2, <1>7, <2>1, Zenon
  <2>2. CASE ~more BY <1>2, <1>7, <2>2, Zenon
  <2> QED BY <2>1, <2>2
<1>9. rest = Ordered(NewerBy(createdAt))[F] BY <1>4 DEF rest
<1> HIDE DEF n, more, page
<1> QED BY <1>5, <1>6, <1>8, <1>9 DEF F, IsRest

\* Before a page, a still walk's list is what it has shown and the rest.
LEMMA StillRest ==
    ASSUME WalkInv, walk.phase = "listing", walk.still,
           NEW rest, IsRest(rest)
    PROVE  List(walk.participants) = walk.shown \o rest
<1> DEFINE p == walk.participants
           L == List(p)
           B == NewerBy(createdAt)
           shown == walk.shown
           k == Len(shown)
<1>1. createdAt \in [Games -> Nat]
  <2>1. createdAt \in [Games -> 0..MaxTime] /\ 0..MaxTime \subseteq Nat
    BY DEF WalkInv, IInv, RowsTypeOK
  <2> QED BY <2>1
<1>2. StrictOrder(B) BY <1>1, NewerIsStrict
<1>3. L = Ordered(B)[Listed(p)] BY ResultsAreSorted
<1>4. Listed(p) \in SUBSET Games BY DEF Listed
<1>5. L \in Seq(Games) /\ ToSet(L) = Listed(p) /\ \A i \in 1..Len(L) : L[i] \in Listed(p)
  BY <1>2, <1>3, <1>4, OrderedIsSorted
<1>6. /\ k <= Len(L) /\ shown = SubSeq(L, 1, k)
      /\ IF shown = <<>> THEN walk.cursor = NoCursor
         ELSE walk.cursor # NoCursor /\ walk.cursor.id = shown[k]
  <2>1. Exact(walk, Result) /\ Result = L BY DEF WalkInv, Result, ResultOf
  <2> QED BY <2>1 DEF Exact
<1>7. shown \in Seq(Games) BY DEF WalkInv, Walks
<1>8. CASE shown = <<>>
  <2>1. Following(p, walk.cursor) = Listed(p) BY <1>6, <1>8 DEF Following
  <2>2. rest = L BY <1>3, <2>1 DEF IsRest
  <2> QED BY <1>5, <1>8, <2>2, ConcatEmptySeq
<1>9. CASE shown # <<>>
  <2>1. k \in 1..Len(L) BY <1>5, <1>6, <1>7, <1>9
  <2>2. shown[k] = L[k]
    <3>1. SubSeq(L, 1, k)[k] = L[k] BY <1>5, <2>1
    <3> QED BY <1>6, <3>1
  <2>3. walk.cursor = Cursor(L[k])
    BY <1>6, <1>9, <2>2 DEF WalkInv, WalkStands, CursorSplits
  <2>4. Following(p, walk.cursor) = {g \in Listed(p) : L[k] \in B[g]}
    <3>1. L[k] \in Games BY <1>4, <1>5, <2>1
    <3>2. \A g \in Games : KeyBelow(g, Cursor(L[k])) <=> L[k] \in B[g]
      BY <3>1 DEF KeyBelow, Cursor, NewerBy
    <3> QED BY <1>4, <1>6, <1>9, <2>3, <3>2 DEF Following
  <2>5. rest = Ordered(B)[Following(p, walk.cursor)] BY DEF IsRest
  <2> HIDE DEF L, B, k, p
  <2>6. TailOf(Following(p, walk.cursor), L, k, B, Listed(p))
    BY <1>2, <1>3, <1>4, <2>1, <2>4 DEF TailOf
  <2>7. Ordered(B)[Following(p, walk.cursor)] = SubSeq(L, k + 1, Len(L)) BY <2>6, OrderedTail
  <2>8. SubSeq(L, 1, k) \o SubSeq(L, k + 1, Len(L)) = L
    <3>1. L \in Seq(Games) /\ Len(L) \in Nat /\ k \in Nat /\ 1 <= k /\ k <= Len(L) BY <1>5, <2>1
    <3>2. 1 \in 1..(Len(L) + 1) /\ k \in (1 - 1)..Len(L) /\ Len(L) \in k..Len(L) BY <3>1
    <3>3. SubSeq(L, 1, k) \o SubSeq(L, k + 1, Len(L)) = SubSeq(L, 1, Len(L))
      BY <3>1, <3>2, ConcatAdjacentSubSeq
    <3> QED BY <3>1, <3>3, SubSeqFull
  <2> QED BY <1>6, <2>5, <2>7, <2>8 DEF L, p, k
<1> QED BY <1>8, <1>9

\* The rows of a page come once, in order, and are new; the rows below them
\* wait for the next page.
LEMMA PageRows ==
    ASSUME WalkInv, walk.phase = "listing",
           NEW rest, IsRest(rest),
           NEW n, n \in 0..Len(rest)
    PROVE  /\ \A i \in 1..n : /\ rest[i] \in Listed(walk.participants)
                              /\ rest[i] \in Committed
                              /\ rest[i] \notin ToSet(walk.shown)
           /\ \A g \in walk.throughout :
                g \in ToSet(walk.shown) \/ \E i \in 1..Len(rest) : rest[i] = g
           /\ n > 0 =>
                /\ \A i \in 1..Len(rest) : KeyBelow(rest[i], Cursor(rest[n])) <=> n < i
                /\ \A g \in ToSet(walk.shown) : ~KeyBelow(g, Cursor(rest[n]))
<1> DEFINE p == walk.participants
           F == Following(p, walk.cursor)
           B == NewerBy(createdAt)
<1>1. createdAt \in [Games -> Nat]
  <2>1. createdAt \in [Games -> 0..MaxTime] /\ 0..MaxTime \subseteq Nat
    BY DEF WalkInv, IInv, RowsTypeOK
  <2> QED BY <2>1
<1>2. StrictOrder(B) BY <1>1, NewerIsStrict
<1>3. F \in SUBSET Games BY DEF Following, Listed
<1>4. /\ rest \in Seq(Games) /\ Len(rest) \in Nat /\ ToSet(rest) = F
      /\ \A i \in 1..Len(rest) : rest[i] \in F
  <2> HIDE DEF F, B
  <2>1. rest = Ordered(B)[F] BY DEF F, B, IsRest
  <2> QED BY <1>2, <1>3, <2>1, OrderedIsSorted
<1>5. CursorSplits(walk) BY DEF WalkInv, WalkStands
<1>6. F = {g \in Listed(p) : StillAhead(walk, g)} BY DEF Following, StillAhead
<1>7. Listed(p) \subseteq Committed /\ Committed \subseteq Games
  BY DEF Listed, Visible, Committed
<1>8. \A g, h \in Games : KeyBelow(g, Cursor(h)) <=> h \in B[g]
  BY DEF KeyBelow, Cursor, NewerBy
<1>9. walk.throughout \subseteq Listed(p) BY DEF WalkInv, WalkStands, Eligible
<1>10. \A i \in 1..n : i \in 1..Len(rest) BY <1>4
<1> HIDE DEF F, B, p
<1>11. ASSUME NEW i \in 1..n
       PROVE  rest[i] \in Listed(p) /\ rest[i] \in Committed /\ rest[i] \notin ToSet(walk.shown)
  <2>1. rest[i] \in F BY <1>4, <1>10
  <2> QED BY <1>5, <1>6, <1>7, <2>1 DEF CursorSplits
<1>12. ASSUME NEW g \in walk.throughout
       PROVE  g \in ToSet(walk.shown) \/ \E i \in 1..Len(rest) : rest[i] = g
  <2>1. CASE StillAhead(walk, g)
    <3>1. g \in ToSet(rest) BY <1>4, <1>6, <1>9, <2>1
    <3> QED BY <1>4, <3>1 DEF ToSet
  <2> QED BY <1>5, <2>1 DEF CursorSplits
<1>13. ASSUME n > 0
       PROVE  /\ \A i \in 1..Len(rest) : KeyBelow(rest[i], Cursor(rest[n])) <=> n < i
              /\ \A g \in ToSet(walk.shown) : ~KeyBelow(g, Cursor(rest[n]))
  <2>1. n \in 1..Len(rest) /\ rest[n] \in F BY <1>4, <1>13
  <2>2. ASSUME NEW i \in 1..Len(rest) PROVE KeyBelow(rest[i], Cursor(rest[n])) <=> n < i
    <3>1. n < i <=> rest[n] \in B[rest[i]]
      <4>1. rest = Ordered(B)[F] BY DEF F, B, p, IsRest
      <4> QED BY <1>2, <1>3, <2>1, <4>1, SortedPairs
    <3> QED BY <1>3, <1>4, <1>8, <2>1, <3>1
  <2>3. ASSUME NEW g \in ToSet(walk.shown), KeyBelow(g, Cursor(rest[n])) PROVE FALSE
    <3> DEFINE x == rest[n]
               c == walk.cursor.id
    <3>1. g \in Games /\ ~StillAhead(walk, g) BY <1>5, <1>7 DEF CursorSplits
    <3>2. walk.cursor = Cursor(c) /\ c \in Games /\ ~KeyBelow(g, walk.cursor)
      BY <1>5, <1>7, <3>1 DEF CursorSplits, StillAhead
    <3>3. x \in Games /\ KeyBelow(x, walk.cursor)
      BY <1>3, <1>6, <2>1, <3>1 DEF StillAhead
    <3> HIDE DEF x, c
    <3>4. c \in B[x] /\ x \in B[g] /\ c \notin B[g]
      BY <1>8, <2>3, <3>1, <3>2, <3>3 DEF x
    <3> QED BY <1>2, <3>1, <3>2, <3>3, <3>4 DEF StrictOrder
  <2> QED BY <2>2, <2>3
<1> QED BY <1>11, <1>12, <1>13 DEF p

LEMMA ListGamesKeeps ==
    ASSUME WalkInv, NEW asked \in 0..MaxGameLimit, ListGames(asked)
    PROVE  WalkInv'
<1>1. walk.phase = "listing" /\ UNCHANGED <<rows, rank, writes>> BY DEF ListGames
<1>2. PICK rest \in Seq(Games), more \in BOOLEAN : \E n \in 0..Len(rest) :
        /\ IsRest(rest)
        /\ IF more THEN n > 0 ELSE n = Len(rest)
        /\ walk' = [walk EXCEPT !.phase = IF more THEN "listing" ELSE "listed",
                                !.cursor = IF more THEN Cursor(rest[n]) ELSE @,
                                !.shown = @ \o SubSeq(rest, 1, n)]
  BY PageOfList
<1>3. PICK n \in 0..Len(rest) :
        /\ IsRest(rest)
        /\ IF more THEN n > 0 ELSE n = Len(rest)
        /\ walk' = [walk EXCEPT !.phase = IF more THEN "listing" ELSE "listed",
                                !.cursor = IF more THEN Cursor(rest[n]) ELSE @,
                                !.shown = @ \o SubSeq(rest, 1, n)]
  BY <1>2
<1> PICK q \in {walk.shown \o SubSeq(rest, 1, n)} : TRUE OBVIOUS
<1> PICK w \in {walk'} : TRUE OBVIOUS
<1>4. q = walk.shown \o SubSeq(rest, 1, n) /\ w = walk' OBVIOUS
<1>5. walk \in Walks /\ walk.shown \in Seq(Games) BY DEF WalkInv, Walks
<1>6. /\ q \in Seq(Games) /\ Len(q) = Len(walk.shown) + n
      /\ ToSet(walk.shown) \subseteq ToSet(q) /\ \A i \in 1..n : rest[i] \in ToSet(q)
      /\ \A g \in ToSet(q) : g \in ToSet(walk.shown) \/ \E i \in 1..n : rest[i] = g
      /\ n > 0 => q # <<>> /\ q[Len(q)] = rest[n]
      /\ q = SubSeq(walk.shown \o rest, 1, Len(q)) /\ Len(q) <= Len(walk.shown \o rest)
  <2>1. Paged(q, walk.shown, rest, n) BY <1>4, <1>5 DEF Paged
  <2> QED BY <2>1, PrefixGrows
<1>7. w = [walk EXCEPT !.phase = IF more THEN "listing" ELSE "listed",
                       !.cursor = IF more THEN Cursor(rest[n]) ELSE @,
                       !.shown = q]
  BY <1>3, <1>4, Zenon
<1>8. /\ \A i \in 1..n : /\ rest[i] \in Listed(walk.participants)
                         /\ rest[i] \in Committed
                         /\ rest[i] \notin ToSet(walk.shown)
      /\ \A g \in walk.throughout :
           g \in ToSet(walk.shown) \/ \E i \in 1..Len(rest) : rest[i] = g
      /\ n > 0 =>
           /\ \A i \in 1..Len(rest) : KeyBelow(rest[i], Cursor(rest[n])) <=> n < i
           /\ \A g \in ToSet(walk.shown) : ~KeyBelow(g, Cursor(rest[n]))
  BY <1>1, <1>3, PageRows
<1>9. walk.throughout \subseteq Listed(walk.participants)
  BY <1>1 DEF WalkInv, WalkStands, Eligible
<1>10. CASE more
  <2>1. n > 0 /\ n \in 1..n /\ n \in 1..Len(rest) BY <1>3, <1>10
  <2>2. /\ rest[n] \in Committed /\ Cursor(rest[n]).id = rest[n] /\ Cursor(rest[n]) # NoCursor
        /\ Cursor(rest[n]) \in [at : Nat, id : Games \cup {Null}]
    <3>1. rest[n] \in Committed /\ rest[n] \in Games BY <1>8, <2>1 DEF Committed
    <3>2. createdAt[rest[n]] \in Nat
      <4>1. createdAt[rest[n]] \in 0..MaxTime BY <3>1 DEF WalkInv, IInv, RowsTypeOK
      <4> QED BY <4>1
    <3> QED BY <3>1, <3>2 DEF Cursor, NoCursor
  <2>3. /\ w \in Walks /\ w.phase = "listing" /\ w.participants = walk.participants
        /\ w.cursor = Cursor(rest[n]) /\ w.shown = q
        /\ w.throughout = walk.throughout /\ w.still = walk.still
    BY <1>5, <1>6, <1>7, <1>10, <2>2 DEF Walks
  <2>4. CursorSplits(w)
    <3>1. \A g \in ToSet(w.shown) : g \in Committed /\ ~StillAhead(w, g)
      <4>1. ASSUME NEW g \in ToSet(walk.shown) PROVE g \in Committed /\ ~StillAhead(w, g)
        <5>1. g \in Committed BY <1>1 DEF WalkInv, WalkStands, CursorSplits
        <5> QED BY <1>8, <2>1, <2>2, <2>3, <5>1 DEF StillAhead
      <4>2. ASSUME NEW i \in 1..n PROVE rest[i] \in Committed /\ ~StillAhead(w, rest[i])
        <5>1. i \in 1..Len(rest) /\ ~(n < i) OBVIOUS
        <5> QED BY <1>8, <2>1, <2>2, <2>3, <5>1 DEF StillAhead
      <4> QED BY <1>6, <2>3, <4>1, <4>2
    <3>2. ASSUME NEW g \in w.throughout PROVE g \in ToSet(w.shown) \/ StillAhead(w, g)
      <4>1. CASE g \in ToSet(walk.shown) BY <1>6, <2>3, <4>1
      <4>2. ASSUME NEW i \in 1..Len(rest), rest[i] = g PROVE g \in ToSet(w.shown) \/ StillAhead(w, g)
        <5>1. CASE n < i BY <1>8, <2>1, <2>3, <4>2, <5>1 DEF StillAhead
        <5>2. CASE ~(n < i)
          <6>1. i \in 1..n BY <5>2
          <6> QED BY <1>6, <2>3, <4>2, <6>1
        <5> QED BY <5>1, <5>2
      <4> QED BY <1>8, <2>3, <4>1, <4>2
    <3> QED BY <2>2, <2>3, <3>1, <3>2 DEF CursorSplits
  <2>5. WalkStands(w) BY <1>9, <2>3, <2>4 DEF WalkStands, Eligible
  <2>6. ASSUME w.still PROVE Exact(w, ResultOf(w.phase, w.participants))
    <3>1. List(walk.participants) = walk.shown \o rest BY <1>1, <1>3, <2>3, <2>6, StillRest
    <3>2. ResultOf(w.phase, w.participants) = walk.shown \o rest BY <2>3, <3>1 DEF ResultOf
    <3> QED BY <1>6, <2>1, <2>2, <2>3, <3>2 DEF Exact
  <2> QED BY <1>1, <1>4, <2>3, <2>5, <2>6, ViewerKeeps
<1>11. CASE ~more
  <2>1. n = Len(rest) BY <1>3, <1>11
  <2>2. /\ w \in Walks /\ w.phase = "listed" /\ w.participants = walk.participants
        /\ w.shown = q /\ w.throughout = walk.throughout /\ w.still = walk.still
    BY <1>5, <1>6, <1>7, <1>11 DEF Walks
  <2>3. WalkStands(w)
    <3>1. w.throughout \subseteq ToSet(w.shown) BY <1>6, <1>8, <2>1, <2>2
    <3> QED BY <1>9, <2>2, <3>1 DEF WalkStands, Eligible
  <2>4. ASSUME w.still PROVE Exact(w, ResultOf(w.phase, w.participants))
    <3>1. List(walk.participants) = walk.shown \o rest BY <1>1, <1>3, <2>2, <2>4, StillRest
    <3>2. ResultOf(w.phase, w.participants) = walk.shown \o rest BY <2>2, <3>1 DEF ResultOf
    <3>3. q = walk.shown \o rest
      <4>1. SubSeq(rest, 1, Len(rest)) = rest BY SubSeqFull
      <4> QED BY <1>4, <2>1, <4>1
    <3> QED BY <1>6, <2>2, <3>2, <3>3 DEF Exact
  <2> QED BY <1>1, <1>4, <2>2, <2>3, <2>4, ViewerKeeps
<1> QED BY <1>10, <1>11

\* A page of a search: the next rows of what it finds now.
LEMMA PageOfSearch ==
    ASSUME WalkInv, NEW asked \in 0..MaxGameLimit, SearchGames(asked)
    PROVE  \E rest \in Seq(Games), more \in BOOLEAN, limit \in 1..MaxGameLimit :
           \E n \in 0..Len(rest) :
             /\ rest = SubSeq(Search(walk.participants), walk.offset + 1,
                              Len(Search(walk.participants)))
             /\ n = IF Len(rest) > limit THEN limit ELSE Len(rest)
             /\ more <=> Len(rest) > limit /\ walk.offset + limit <= MaxGameSearchOffset
             /\ walk' = [walk EXCEPT !.phase = IF more THEN "searching" ELSE "found",
                                     !.offset = IF more THEN @ + limit ELSE @,
                                     !.shown = @ \o SubSeq(rest, 1, n)]
<1> DEFINE limit == LimitFor(asked)
           found == Search(walk.participants)
           rest == SubSeq(found, walk.offset + 1, Len(found))
           more == Len(rest) > limit /\ FollowingAllowed(walk.offset, limit)
           page == IF Len(rest) > limit THEN SubSeq(rest, 1, limit) ELSE rest
           n == IF Len(rest) > limit THEN limit ELSE Len(rest)
<1>1. limit \in 1..MaxGameLimit BY ListingAssumption DEF LimitFor
<1>2. walk' = [walk EXCEPT !.phase = IF more THEN "searching" ELSE "found",
                           !.offset = IF more THEN @ + limit ELSE @,
                           !.shown = @ \o page]
  BY Zenon DEF SearchGames
<1>3. found \in Seq(Games)
  <2>1. RowsTypeOK /\ rank \in [Games -> Ranks] BY DEF WalkInv, IInv
  <2>2. ResultOf("searching", walk.participants) \in Seq(Games) BY <2>1, ResultSet
  <2> QED BY <2>2 DEF ResultOf
<1>4. walk.offset \in Nat BY ListingAssumption DEF WalkInv, Walks
<1> HIDE DEF limit, found
<1>5. rest \in Seq(Games)
  <2>1. \A i \in (walk.offset + 1)..Len(found) : found[i] \in Games BY <1>3, <1>4
  <2>2. walk.offset + 1 \in Int /\ Len(found) \in Int BY <1>3, <1>4
  <2> QED BY <2>1, <2>2, SubSeqProperties
<1> HIDE DEF rest
<1>6. n \in 0..Len(rest) /\ more \in BOOLEAN
  BY <1>1, <1>5
<1>7. page = SubSeq(rest, 1, n)
  <2>1. SubSeq(rest, 1, Len(rest)) = rest BY <1>5, SubSeqFull
  <2> QED BY <2>1
<1>8. walk' = [walk EXCEPT !.phase = IF more THEN "searching" ELSE "found",
                           !.offset = IF more THEN @ + limit ELSE @,
                           !.shown = @ \o SubSeq(rest, 1, n)]
  BY <1>2, <1>7, Zenon
<1>9. more <=> Len(rest) > limit /\ walk.offset + limit <= MaxGameSearchOffset
  BY DEF FollowingAllowed
<1>10. rest = SubSeq(Search(walk.participants), walk.offset + 1,
                     Len(Search(walk.participants)))
  BY DEF rest, found
<1>11. n = IF Len(rest) > limit THEN limit ELSE Len(rest) OBVIOUS
<1> HIDE DEF n, more, page
<1> QED BY <1>1, <1>5, <1>6, <1>8, <1>9, <1>10, <1>11

LEMMA SearchGamesKeeps ==
    ASSUME WalkInv, NEW asked \in 0..MaxGameLimit, SearchGames(asked)
    PROVE  WalkInv'
<1>1. walk.phase = "searching" /\ UNCHANGED <<rows, rank, writes>> BY DEF SearchGames
<1>2. PICK rest \in Seq(Games), more \in BOOLEAN, limit \in 1..MaxGameLimit :
           \E n \in 0..Len(rest) :
             /\ rest = SubSeq(Search(walk.participants), walk.offset + 1,
                              Len(Search(walk.participants)))
             /\ n = IF Len(rest) > limit THEN limit ELSE Len(rest)
             /\ more <=> Len(rest) > limit /\ walk.offset + limit <= MaxGameSearchOffset
             /\ walk' = [walk EXCEPT !.phase = IF more THEN "searching" ELSE "found",
                                     !.offset = IF more THEN @ + limit ELSE @,
                                     !.shown = @ \o SubSeq(rest, 1, n)]
  BY PageOfSearch
<1>3. PICK n \in 0..Len(rest) :
        /\ rest = SubSeq(Search(walk.participants), walk.offset + 1,
                         Len(Search(walk.participants)))
        /\ n = IF Len(rest) > limit THEN limit ELSE Len(rest)
        /\ more <=> Len(rest) > limit /\ walk.offset + limit <= MaxGameSearchOffset
        /\ walk' = [walk EXCEPT !.phase = IF more THEN "searching" ELSE "found",
                                !.offset = IF more THEN @ + limit ELSE @,
                                !.shown = @ \o SubSeq(rest, 1, n)]
  BY <1>2
<1> PICK q \in {walk.shown \o SubSeq(rest, 1, n)} : TRUE OBVIOUS
<1> PICK w \in {walk'} : TRUE OBVIOUS
<1>4. q = walk.shown \o SubSeq(rest, 1, n) /\ w = walk' OBVIOUS
<1>5. /\ walk \in Walks /\ walk.shown \in Seq(Games)
      /\ walk.offset = Len(walk.shown) /\ walk.offset \in 0..MaxGameSearchOffset
      /\ walk.throughout \subseteq Found(walk.participants)
  BY <1>1 DEF WalkInv, WalkStands, Walks, Eligible
<1>6. /\ q \in Seq(Games) /\ Len(q) = Len(walk.shown) + n
      /\ q = SubSeq(walk.shown \o rest, 1, Len(q)) /\ Len(q) <= Len(walk.shown \o rest)
  <2>1. Paged(q, walk.shown, rest, n) BY <1>4, <1>5 DEF Paged
  <2>2. q \in Seq(Games) /\ Len(q) = Len(walk.shown) + n BY <2>1, PrefixGrows
  <2>3. q = SubSeq(walk.shown \o rest, 1, Len(q)) /\ Len(q) <= Len(walk.shown \o rest)
    BY <2>1, PrefixGrows
  <2> QED BY <2>2, <2>3
<1>7. w = [walk EXCEPT !.phase = IF more THEN "searching" ELSE "found",
                       !.offset = IF more THEN @ + limit ELSE @,
                       !.shown = q]
  BY <1>3, <1>4, Zenon
<1>8. more => n = limit /\ walk.offset + limit \in 0..MaxGameSearchOffset
  <2>1. more => Len(rest) > limit /\ walk.offset + limit <= MaxGameSearchOffset BY <1>3
  <2>2. Len(rest) > limit => n = limit BY <1>3
  <2>3. limit \in Nat /\ walk.offset \in Nat /\ MaxGameSearchOffset \in Nat
    BY <1>5, ListingAssumption
  <2> QED BY <2>1, <2>2, <2>3
<1>9. /\ w \in Walks
      /\ w.phase = IF more THEN "searching" ELSE "found"
      /\ w.participants = walk.participants
      /\ w.offset = IF more THEN walk.offset + limit ELSE walk.offset
      /\ w.shown = q /\ w.throughout = walk.throughout /\ w.still = walk.still
  <2>1. CASE more BY <1>5, <1>6, <1>7, <1>8, <2>1 DEF Walks
  <2>2. CASE ~more BY <1>5, <1>6, <1>7, <2>2 DEF Walks
  <2> QED BY <2>1, <2>2
<1>10. WalkStands(w)
  <2>1. more => w.offset = Len(w.shown) BY <1>5, <1>6, <1>8, <1>9
  <2>2. Len(w.shown) <= MaxGameSearchOffset + MaxGameLimit
    <3>1. n <= limit /\ limit <= MaxGameLimit /\ n \in Nat BY <1>3, ListingAssumption
    <3> QED BY <1>5, <1>6, <1>9, <3>1, ListingAssumption
  <2> QED BY <1>5, <1>9, <2>1, <2>2 DEF WalkStands, Eligible
<1>11. ASSUME w.still PROVE Exact(w, ResultOf(w.phase, w.participants))
  <2> DEFINE S == Search(walk.participants)
             k == Len(walk.shown)
  <2>1. ResultOf(w.phase, w.participants) = S BY <1>9 DEF ResultOf
  <2>2. Exact(walk, S) BY <1>1, <1>9, <1>11 DEF WalkInv, Result, ResultOf
  <2>3. S \in Seq(Games)
    <3>1. RowsTypeOK /\ rank \in [Games -> Ranks] BY DEF WalkInv, IInv
    <3>2. ResultOf("searching", walk.participants) \in Seq(Games) BY <3>1, ResultSet
    <3> QED BY <3>2 DEF ResultOf
  <2>4. k \in Nat /\ k <= Len(S) /\ walk.shown = SubSeq(S, 1, k)
    BY <1>5, <2>2 DEF Exact
  <2>5. rest = SubSeq(S, k + 1, Len(S)) BY <1>3, <1>5
  <2> HIDE DEF S
  <2>6. S = walk.shown \o rest
    <3> HIDE DEF k
    <3>1. 1 \in 1..(Len(S) + 1) /\ k \in (1 - 1)..Len(S) /\ Len(S) \in k..Len(S)
      BY <2>3, <2>4
    <3>2. SubSeq(S, 1, k) \o SubSeq(S, k + 1, Len(S)) = SubSeq(S, 1, Len(S))
      BY <2>3, <3>1, ConcatAdjacentSubSeq
    <3> QED BY <2>3, <2>4, <2>5, <3>2, SubSeqFull
  <2>7. ~more => q = S \/ Len(q) > MaxGameSearchOffset
    <3>1. CASE Len(rest) > limit
      <4>1. n = limit /\ (~more => ~(walk.offset + limit <= MaxGameSearchOffset)) BY <1>3, <3>1
      <4>2. limit \in Nat /\ walk.offset \in Nat /\ MaxGameSearchOffset \in Nat
        BY <1>5, ListingAssumption
      <4>3. Len(q) = walk.offset + limit BY <1>5, <1>6, <4>1
      <4> QED BY <4>1, <4>2, <4>3
    <3>2. CASE ~(Len(rest) > limit)
      <4>1. SubSeq(rest, 1, Len(rest)) = rest BY SubSeqFull
      <4> QED BY <1>3, <1>4, <2>6, <3>2, <4>1
    <3> QED BY <3>1, <3>2
  <2> QED BY <1>6, <1>9, <2>1, <2>6, <2>7 DEF Exact
<1> QED BY <1>1, <1>4, <1>9, <1>10, <1>11, ViewerKeeps

\* The inductive step.
LEMMA NextKeeps == WalkInv /\ [Next]_vars => WalkInv'
<1> SUFFICES ASSUME WalkInv, [Next]_vars PROVE WalkInv' OBVIOUS
<1>1. CASE WriteRows BY <1>1, WriteRowsKeeps
<1>2. ASSUME NEW g \in Games, NEW r \in Ranks, EditText(g, r) PROVE WalkInv'
  BY <1>2, EditTextKeeps
<1>3. ASSUME NEW phase \in {"listing", "searching"}, NEW p \in (Numbers \ {0}) \cup {Null},
             Start(phase, p)
      PROVE  WalkInv'
  BY <1>3, StartKeeps
<1>4. ASSUME NEW asked \in 0..MaxGameLimit, ListGames(asked) PROVE WalkInv'
  BY <1>4, ListGamesKeeps
<1>5. ASSUME NEW asked \in 0..MaxGameLimit, SearchGames(asked) PROVE WalkInv'
  BY <1>5, SearchGamesKeeps
<1>6. CASE Leave BY <1>6, LeaveKeeps
<1>7. CASE UNCHANGED vars
  <2> PICK w \in {walk'} : TRUE OBVIOUS
  <2>1. w = walk' /\ w = walk /\ UNCHANGED <<rows, rank, writes>> BY <1>7 DEF vars
  <2>2. w \in Walks /\ WalkStands(w) BY <2>1 DEF WalkInv
  <2>3. w.still => Exact(w, ResultOf(w.phase, w.participants))
    BY <2>1 DEF WalkInv, Result
  <2> QED BY <2>1, <2>2, <2>3, ViewerKeeps
<1> QED BY <1>1, <1>2, <1>3, <1>4, <1>5, <1>6, <1>7 DEF Next

\* The inductive invariant of Listing holds in every reachable state.
THEOREM WalkInvariance == Spec => []WalkInv
BY InitWalkInv, NextKeeps, PTL DEF Spec

\* Every variable keeps its type, and a search never shows more rows than the
\* deepest page and its limit allow (maxGameSearchOffset, maxGameLimit).
THEOREM TypeCorrectness == Spec => []TypeOK
<1>1. WalkInv => TypeOK
  <2> SUFFICES ASSUME WalkInv PROVE TypeOK OBVIOUS
  <2>1. walk \in Walks /\ WalkStands(walk) BY DEF WalkInv
  <2>2. walk.phase \in {"searching", "found"} =>
          Len(walk.shown) <= MaxGameSearchOffset + MaxGameLimit
    <3>1. CASE walk.phase = "searching"
      <4>1. Len(walk.shown) \in 0..MaxGameSearchOffset BY <2>1, <3>1 DEF WalkStands, Walks
      <4> QED BY <4>1, ListingAssumption
    <3>2. CASE walk.phase = "found" BY <2>1, <3>2 DEF WalkStands
    <3> QED BY <3>1, <3>2
  <2> QED BY <2>1, <2>2 DEF WalkInv, IInv, TypeOK, Walks
<1> QED BY <1>1, WalkInvariance, PTL

\* A walk beside which its result stayed as it was has shown the first rows of
\* it, each once and in order, and at its end all of them, or in a search as
\* many as the deepest offset lets it (ListGames and SearchGames in store/).
THEOREM StillWalks == Spec => []StillWalksAreExact
<1>1. WalkInv => StillWalksAreExact
  <2> SUFFICES ASSUME WalkInv, walk.still
               PROVE  /\ IsPrefix(walk.shown, Result)
                      /\ walk.phase = "listed" => walk.shown = Result
                      /\ walk.phase = "found" =>
                           walk.shown = Result \/ Len(walk.shown) > MaxGameSearchOffset
    BY DEF StillWalksAreExact
  <2>1. Exact(walk, Result) BY DEF WalkInv
  <2>2. IsPrefix(walk.shown, Result)
    <3>1. walk.shown \in Seq(Games) BY DEF WalkInv, Walks
    <3>2. Result \in Seq(Games) BY ResultSet DEF WalkInv, IInv, Result
    <3>3. Len(walk.shown) \in 0..Len(Result) /\ walk.shown = SubSeq(Result, 1, Len(walk.shown))
      BY <2>1, <3>1, <3>2 DEF Exact
    <3> QED BY <3>1, <3>2, <3>3 DEF IsPrefix
  <2> QED BY <2>1, <2>2 DEF Exact
<1> QED BY <1>1, WalkInvariance, PTL

(***************************************************************************)
(* The list, as its clients know it (module Scan).                         *)
(***************************************************************************)
Seen == <<ClientPhase, ClientListed, ClientShown, ClientThroughout>>

\* What a browsing client knows, before a step and after it.
LEMMA BrowsingSees ==
    /\ Browsing => /\ ClientPhase = IF walk.phase = "listing" THEN "paging" ELSE "complete"
                   /\ ClientListed = Listed(walk.participants)
                   /\ ClientShown = ToSet(walk.shown)
                   /\ ClientThroughout = walk.throughout
    /\ ~Browsing => /\ ClientPhase = "idle" /\ ClientListed = {}
                    /\ ClientShown = {} /\ ClientThroughout = {}
BY DEF Browsing, ClientPhase, ClientListed, ClientShown, ClientThroughout

LEMMA BrowsingSeesAfter ==
    /\ Browsing' => /\ ClientPhase' = IF walk'.phase = "listing" THEN "paging" ELSE "complete"
                    /\ ClientListed' = Listed(walk.participants)'
                    /\ ClientShown' = ToSet(walk'.shown)
                    /\ ClientThroughout' = walk'.throughout
    /\ ~Browsing' => /\ ClientPhase' = "idle" /\ ClientListed' = {}
                     /\ ClientShown' = {} /\ ClientThroughout' = {}
BY DEF Browsing, ClientPhase, ClientListed, ClientShown, ClientThroughout

\* Beside the list there is nothing to see of a walk.
LEMMA NotBrowsing ==
    ASSUME ~Browsing, Browsing' = FALSE
    PROVE  UNCHANGED Seen
BY BrowsingSees, BrowsingSeesAfter DEF Seen

LEMMA InitImplementsScan == Init => Pages!Init
BY DEF Init, Idle, Pages!Init, Browsing, ClientPhase, ClientListed, ClientShown,
       ClientThroughout

\* Whatever the writers do is a change of the list.
LEMMA ObserveImplementsChange ==
    ASSUME WalkInv, WalkInv', ObserveResult
    PROVE  Pages!Change \/ UNCHANGED Seen
<1>1. PICK w \in {walk} : \E result \in {ResultOf(w.phase, w.participants)'} :
        walk' = [w EXCEPT !.throughout = @ \cap ToSet(result),
                          !.still = @ /\ result = Result]
  BY DEF ObserveResult
<1> PICK result \in {ResultOf(w.phase, w.participants)'} :
        walk' = [w EXCEPT !.throughout = @ \cap ToSet(result),
                          !.still = @ /\ result = Result]
  BY <1>1
<1>2. w = walk /\ w \in Walks BY DEF WalkInv
<1> PICK kept \in {w.throughout \cap ToSet(result)}, still \in {w.still /\ result = Result} : TRUE
  OBVIOUS
<1>3. walk' = [w EXCEPT !.throughout = kept, !.still = still] BY Zenon
<1>4. /\ walk'.phase = w.phase /\ walk'.participants = w.participants
      /\ walk'.shown = w.shown /\ walk'.throughout = kept
  BY <1>2, <1>3 DEF Walks
<1>5. CASE Browsing
  <2>1. ToSet(result) = Listed(w.participants)'
    <3>1. RowsTypeOK' /\ rank' \in [Games -> Ranks] BY DEF WalkInv, IInv
    <3>2. ToSet(ResultOf(w.phase, w.participants)') = Eligible(w.phase, w.participants)'
      BY <3>1, ResultSetAfter
    <3> QED BY <1>2, <1>5, <3>2 DEF Eligible, Browsing
  <2>2. Browsing' BY <1>2, <1>4, <1>5 DEF Browsing
  <2>3. Listed(w.participants)' \in SUBSET Games BY DEF Listed
  <2>4. kept = w.throughout \cap Listed(w.participants)' BY <2>1
  <2>5. Listed(walk.participants)' = Listed(w.participants)' BY <1>4
  <2>6. /\ ClientPhase # "idle" /\ ClientPhase' = ClientPhase
        /\ ClientListed' = Listed(w.participants)' /\ ClientShown' = ClientShown
        /\ ClientThroughout' = ClientThroughout \cap Listed(w.participants)'
    BY <1>2, <1>4, <1>5, <2>2, <2>4, <2>5, BrowsingSees, BrowsingSeesAfter
  <2> QED BY <2>3, <2>6 DEF Pages!Change
<1>6. CASE ~Browsing
  <2>1. Browsing' = FALSE BY <1>2, <1>4, <1>6 DEF Browsing
  <2> QED BY <1>6, <2>1, NotBrowsing
<1> QED BY <1>5, <1>6

LEMMA StartImplementsStart ==
    ASSUME WalkInv, WalkInv', NEW phase \in {"listing", "searching"},
           NEW p \in (Numbers \ {0}) \cup {Null}, Start(phase, p)
    PROVE  Pages!Start \/ UNCHANGED Seen
<1> DEFINE result == ResultOf(phase, p)
           started == [Idle EXCEPT !.phase = phase, !.participants = p]
<1>1. ToSet(result) = Eligible(phase, p)
  BY ResultSet DEF WalkInv, IInv
<1>2. walk' = [started EXCEPT !.throughout = ToSet(result)] /\ UNCHANGED <<rows, rank>>
  BY DEF Start
<1> HIDE DEF result
<1>3. /\ walk'.phase = phase /\ walk'.participants = p
      /\ walk'.shown = <<>> /\ walk'.throughout = Eligible(phase, p)
  BY <1>1, <1>2 DEF Idle
<1>4. walk.phase = "idle" /\ ~Browsing BY DEF Start, Browsing
<1>5. CASE phase = "listing"
  <2>1. Browsing' /\ walk'.throughout = Listed(p) /\ ToSet(<<>>) = {}
    BY <1>3, <1>5 DEF Browsing, Eligible, ToSet
  <2>2. Listed(p)' = Listed(p) /\ Listed(p) \in SUBSET Games
    BY <1>2, ViewerReads DEF Listed
  <2>3. Listed(walk.participants)' = Listed(p)' BY <1>3
  <2>4. /\ ClientPhase = "idle" /\ ClientPhase' = "paging" /\ ClientListed' = Listed(p)
        /\ ClientShown' = {} /\ ClientThroughout' = Listed(p)
    BY <1>3, <1>4, <1>5, <2>1, <2>2, <2>3, BrowsingSees, BrowsingSeesAfter
  <2> QED BY <2>2, <2>4 DEF Pages!Start
<1>6. CASE phase = "searching"
  <2>1. Browsing' = FALSE BY <1>3, <1>6 DEF Browsing
  <2> QED BY <1>4, <2>1, NotBrowsing
<1> QED BY <1>5, <1>6

\* A page shows rows that did not come before, and the last one leaves out
\* nothing that was there all the time.
LEMMA ListGamesImplementsShow ==
    ASSUME WalkInv, WalkInv', NEW asked \in 0..MaxGameLimit, ListGames(asked)
    PROVE  \E page \in SUBSET ClientListed : Pages!Show(page) \/ Pages!ShowLast(page)
<1>1. walk.phase = "listing" /\ Browsing /\ UNCHANGED <<rows, rank>>
  BY DEF ListGames, Browsing
<1>2. PICK rest \in Seq(Games), more \in BOOLEAN : \E n \in 0..Len(rest) :
        /\ IsRest(rest)
        /\ IF more THEN n > 0 ELSE n = Len(rest)
        /\ walk' = [walk EXCEPT !.phase = IF more THEN "listing" ELSE "listed",
                                !.cursor = IF more THEN Cursor(rest[n]) ELSE @,
                                !.shown = @ \o SubSeq(rest, 1, n)]
  BY PageOfList
<1>3. PICK n \in 0..Len(rest) :
        /\ IsRest(rest)
        /\ IF more THEN n > 0 ELSE n = Len(rest)
        /\ walk' = [walk EXCEPT !.phase = IF more THEN "listing" ELSE "listed",
                                !.cursor = IF more THEN Cursor(rest[n]) ELSE @,
                                !.shown = @ \o SubSeq(rest, 1, n)]
  BY <1>2
<1> PICK q \in {walk.shown \o SubSeq(rest, 1, n)} : TRUE OBVIOUS
<1>4. walk \in Walks /\ walk.shown \in Seq(Games) BY DEF WalkInv, Walks
<1>5. walk' = [walk EXCEPT !.phase = IF more THEN "listing" ELSE "listed",
                           !.cursor = IF more THEN Cursor(rest[n]) ELSE @,
                           !.shown = q]
  BY <1>3, Zenon
<1>6. /\ walk'.phase = IF more THEN "listing" ELSE "listed"
      /\ walk'.participants = walk.participants /\ walk'.shown = q
      /\ walk'.throughout = walk.throughout
  BY <1>4, <1>5 DEF Walks
<1>7. /\ ToSet(walk.shown) \subseteq ToSet(q) /\ \A i \in 1..n : rest[i] \in ToSet(q)
      /\ \A g \in ToSet(q) : g \in ToSet(walk.shown) \/ \E i \in 1..n : rest[i] = g
  <2>1. Paged(q, walk.shown, rest, n) BY <1>4 DEF Paged
  <2>2. ToSet(walk.shown) \subseteq ToSet(q) /\ \A i \in 1..n : rest[i] \in ToSet(q)
    BY <2>1, PrefixGrows
  <2>3. \A g \in ToSet(q) : g \in ToSet(walk.shown) \/ \E i \in 1..n : rest[i] = g
    BY <2>1, PrefixGrows
  <2> QED BY <2>2, <2>3
<1>8. /\ \A i \in 1..n : /\ rest[i] \in Listed(walk.participants)
                         /\ rest[i] \notin ToSet(walk.shown)
      /\ \A g \in walk.throughout :
           g \in ToSet(walk.shown) \/ \E i \in 1..Len(rest) : rest[i] = g
  BY <1>1, <1>3, PageRows
<1> DEFINE page == ToSet(q) \ ToSet(walk.shown)
<1>9. /\ page \in SUBSET Listed(walk.participants) /\ page \cap ToSet(walk.shown) = {}
      /\ ToSet(q) = ToSet(walk.shown) \cup page
  BY <1>7, <1>8
<1>10. ~more => walk.throughout \subseteq ToSet(walk.shown) \cup page
  <2>1. ~more => n = Len(rest) BY <1>3
  <2> QED BY <1>7, <1>8, <2>1
<1>11. Browsing' BY <1>6 DEF Browsing
<1>12. /\ Listed(walk.participants)' = Listed(walk.participants)
       /\ ToSet(walk.shown)' = ToSet(q)
  <2>1. Listed(walk.participants)' = Listed(walk'.participants)
    <3>1. \A p : Listed(p)' = Listed(p) BY <1>1, ViewerReads
    <3> QED BY <3>1
  <2> QED BY <1>6, <2>1
<1> HIDE DEF page
<1>13. /\ ClientPhase = "paging" /\ ClientPhase' = IF more THEN "paging" ELSE "complete"
       /\ ClientListed = Listed(walk.participants) /\ ClientListed' = ClientListed
       /\ ClientShown = ToSet(walk.shown) /\ ClientShown' = ClientShown \cup page
       /\ ClientThroughout = walk.throughout /\ ClientThroughout' = ClientThroughout
  BY <1>1, <1>6, <1>9, <1>11, <1>12, BrowsingSees, BrowsingSeesAfter
<1>14. CASE more
  <2>1. Pages!Show(page) BY <1>9, <1>13, <1>14 DEF Pages!Show
  <2> QED BY <1>9, <1>13, <2>1
<1>15. CASE ~more
  <2>1. Pages!ShowLast(page) BY <1>9, <1>10, <1>13, <1>15 DEF Pages!ShowLast
  <2> QED BY <1>9, <1>13, <2>1
<1> QED BY <1>14, <1>15

LEMMA StepImplementsScan ==
    ASSUME WalkInv, WalkInv', [Next]_vars
    PROVE  [Pages!Next]_Seen
<1>1. CASE WriteRows
  <2>1. ObserveResult BY <1>1 DEF WriteRows, Observe
  <2> QED BY <2>1, ObserveImplementsChange DEF Pages!Next
<1>2. ASSUME NEW g \in Games, NEW r \in Ranks, EditText(g, r) PROVE [Pages!Next]_Seen
  <2>1. ObserveResult BY <1>2 DEF EditText, Observe
  <2> QED BY <2>1, ObserveImplementsChange DEF Pages!Next
<1>3. ASSUME NEW phase \in {"listing", "searching"}, NEW p \in (Numbers \ {0}) \cup {Null},
             Start(phase, p)
      PROVE  [Pages!Next]_Seen
  BY <1>3, StartImplementsStart DEF Pages!Next
<1>4. ASSUME NEW asked \in 0..MaxGameLimit, ListGames(asked) PROVE [Pages!Next]_Seen
  <2>1. \E page \in SUBSET ClientListed : Pages!Show(page) \/ Pages!ShowLast(page)
    BY <1>4, ListGamesImplementsShow
  <2> QED BY <2>1 DEF Pages!Next, ClientListed
<1>5. ASSUME NEW asked \in 0..MaxGameLimit, SearchGames(asked) PROVE [Pages!Next]_Seen
  <2>1. walk.phase = "searching" /\ ~Browsing BY <1>5 DEF SearchGames, Browsing
  <2> PICK more \in BOOLEAN, offset \in {walk'.offset}, shown \in {walk'.shown} :
        walk' = [walk EXCEPT !.phase = IF more THEN "searching" ELSE "found",
                             !.offset = offset, !.shown = shown]
    <3>1. \E m \in BOOLEAN : \E o, q :
            walk' = [walk EXCEPT !.phase = IF m THEN "searching" ELSE "found",
                                 !.offset = o, !.shown = q]
      <4>1. PICK rest \in Seq(Games), more \in BOOLEAN, limit \in 1..MaxGameLimit :
              \E n \in 0..Len(rest) :
                walk' = [walk EXCEPT !.phase = IF more THEN "searching" ELSE "found",
                                     !.offset = IF more THEN @ + limit ELSE @,
                                     !.shown = @ \o SubSeq(rest, 1, n)]
        BY <1>5, PageOfSearch
      <4> QED BY <4>1, Zenon
    <3> QED BY <3>1 DEF WalkInv, Walks
  <2>2. walk'.phase \in {"searching", "found"} BY DEF WalkInv, Walks
  <2>3. Browsing' = FALSE BY <2>2 DEF Browsing
  <2> QED BY <2>1, <2>3, NotBrowsing
<1>6. CASE Leave
  <2>1. walk' = Idle /\ walk.phase # "idle" BY <1>6 DEF Leave
  <2>2. Idle.phase = "idle" BY DEF Idle
  <2>3. Browsing' = FALSE BY <2>1, <2>2 DEF Browsing
  <2>4. CASE Browsing
    <3>1. Pages!Leave BY <2>3, <2>4, BrowsingSees, BrowsingSeesAfter DEF Pages!Leave
    <3> QED BY <3>1 DEF Pages!Next
  <2>5. CASE ~Browsing BY <2>3, <2>5, NotBrowsing
  <2> QED BY <2>4, <2>5
<1>7. CASE UNCHANGED vars
  <2>1. UNCHANGED <<walk, rows, rank>> BY <1>7 DEF vars
  <2>2. \A p : UNCHANGED Listed(p) BY <2>1, ViewerReads
  <2>3. UNCHANGED Listed(walk.participants) BY <2>1, <2>2
  <2>4. UNCHANGED Browsing BY <2>1 DEF Browsing
  <2> QED BY <2>1, <2>3, <2>4
          DEF Seen, ClientPhase, ClientListed, ClientShown, ClientThroughout
<1> QED BY <1>1, <1>2, <1>3, <1>4, <1>5, <1>6, <1>7 DEF Next

\* Reading the list page by page keeps the promise of module Scan, whatever
\* the writers do between the pages: no game comes twice, and none that was
\* listed all the time is left out (the cursor of ListGames, store/games.go).
THEOREM Implementation == Spec => ImplementsScan
<1>1. WalkInv /\ WalkInv' /\ [Next]_vars =>
        [Pages!Next]_<<ClientPhase, ClientListed, ClientShown, ClientThroughout>>
  BY StepImplementsScan DEF Seen
<1>2. WalkInv /\ [Next]_vars => WalkInv' BY NextKeeps
<1> HIDE DEF ClientPhase, ClientListed, ClientShown, ClientThroughout
<1> QED
  BY <1>1, <1>2, InitWalkInv, InitImplementsScan, PTL
  DEF Spec, ImplementsScan, Pages!Spec
=============================================================================
