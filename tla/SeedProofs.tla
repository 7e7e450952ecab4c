----------------------------- MODULE SeedProofs -----------------------------
(***************************************************************************)
(* Proofs about Seed, for any dataset.  The argument: a row of the dataset *)
(* is left out only if it clashes, and a row that needs one left out would *)
(* have refused the run; deleting a game deletes whatever needs it, and    *)
(* what goes with it is needed by nothing.                                 *)
(***************************************************************************)
EXTENDS Seed, TLAPS

Dataset == {Sample[i] : i \in 1..Len(Sample)}

\* The invariant with what makes it inductive: only rows of the dataset count.
IInv == rows \subseteq Dataset /\ ReferencesHold

\* A run of the dataset.
LEMMA SeedKeeps ==
    ASSUME WellFormed, IInv, Seed
    PROVE  IInv'
<1> DEFINE N == Len(Sample)
<1>1. Clashing \cap rows = {} BY DEF Clashing
<1>2. rows' = (rows \cup Dataset) \ Clashing
  <2>1. rows' = (rows \cup {Sample[k] : k \in 1..((N + 1) - 1)}) \ Clashing
    BY DEF Seed, Before
  <2>2. 1..((N + 1) - 1) = 1..N
    <3>1. N \in Nat BY DEF WellFormed
    <3> QED BY <3>1
  <2> QED BY <2>1, <2>2 DEF Dataset
<1>3. ASSUME NEW row \in rows' PROVE Needs[row] \subseteq rows'
  <2>1. CASE row \in rows BY <2>1, <1>1, <1>2 DEF IInv, ReferencesHold
  <2>2. CASE row \notin rows
    <3>1. PICK i \in 1..N : row = Sample[i] BY <2>2, <1>2, <1>3 DEF Dataset
    <3>2. Needs[row] \subseteq Before(i) BY <2>2, <3>1, <1>2, <1>3 DEF Seed, Refused
    <3>3. Before(i) \subseteq (rows \cup Dataset) \ Clashing
      <4>1. \A k \in 1..(i - 1) : k \in 1..N BY <3>1 DEF WellFormed
      <4> QED BY <4>1 DEF Before, Dataset
    <3> QED BY <3>2, <3>3, <1>2
  <2> QED BY <2>1, <2>2
<1>4. rows' \subseteq Dataset BY <1>2 DEF IInv
<1> QED BY <1>3, <1>4 DEF IInv, ReferencesHold

\* A game deleted by hand.
LEMMA RemoveGameKeeps ==
    ASSUME WellFormed, IInv, NEW g \in SampleGames, RemoveGame(g)
    PROVE  IInv'
<1>1. rows' = rows \ {row \in rows : row = g \/ g \in Needs[row]} BY DEF RemoveGame
<1>2. ASSUME NEW row \in rows', NEW n \in Needs[row] PROVE n \in rows'
  <2>1. row \in rows /\ row # g /\ g \notin Needs[row] BY <1>1
  <2>2. n \in rows /\ n # g BY <2>1 DEF IInv, ReferencesHold
  <2>3. PICK i \in 1..Len(Sample) : row = Sample[i] BY <2>1 DEF IInv, Dataset
  <2>4. n \in SampleUsers \cup SampleGames BY <2>3 DEF WellFormed
  <2>5. g \notin Needs[n]
    <3>1. CASE n \in SampleUsers BY <3>1 DEF WellFormed
    <3>2. CASE n \in SampleGames BY <3>2, <2>2 DEF RemoveGame
    <3> QED BY <2>4, <3>1, <3>2
  <2> QED BY <1>1, <2>2, <2>5
<1> QED BY <1>1, <1>2 DEF IInv, ReferencesHold

\* However the dataset is run, games are deleted and people sign up, nothing
\* of the dataset refers to what is not there.
THEOREM References ==
    ASSUME WellFormed
    PROVE  Spec => []ReferencesHold
<1>1. Init => IInv BY DEF Init, IInv, ReferencesHold
<1>2. IInv /\ [Next]_vars => IInv'
  <2> SUFFICES ASSUME IInv, [Next]_vars PROVE IInv' OBVIOUS
  <2>1. CASE Seed BY <2>1, SeedKeeps
  <2>2. ASSUME NEW g \in SampleGames, RemoveGame(g) PROVE IInv' BY <2>2, RemoveGameKeeps
  <2>3. ASSUME NEW a \in Addresses, NEW p \in Typed, SignUp(a, p) \/ Login(a, p) PROVE IInv'
    BY <2>3 DEF SignUp, Login, IInv, ReferencesHold
  <2>4. CASE UNCHANGED vars BY <2>4 DEF vars, IInv, ReferencesHold
  <2> QED BY <2>1, <2>2, <2>3, <2>4 DEF Next
<1>3. IInv => ReferencesHold BY DEF IInv
<1> QED BY <1>1, <1>2, <1>3, PTL DEF Spec
=============================================================================
