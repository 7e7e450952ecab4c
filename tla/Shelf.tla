-------------------------------- MODULE Shelf --------------------------------
(***************************************************************************)
(* The library's shelf as its readers are promised it: a game is published *)
(* or withdrawn in one step, and a variant appears only beside a published *)
(* original that is no variant itself.                                     *)
(***************************************************************************)
CONSTANTS Games, Parts, None

VARIABLES publishState, original, parts

Init ==
    /\ publishState = [g \in Games |-> "none"]
    /\ original = [g \in Games |-> None]
    /\ parts = [g \in Games |-> {}]

Appear(g, o, given) ==
    /\ publishState[g] = "none"
    /\ publishState' = [publishState EXCEPT ![g] = "draft"]
    /\ original' = [original EXCEPT ![g] = o]
    /\ parts' = [parts EXCEPT ![g] = given]

Draft(g, given) == Appear(g, None, given)

Vary(g, o, given) ==
    /\ publishState[o] = "published"
    /\ original[o] = None
    /\ Appear(g, o, given)

Edit(g, given) ==
    /\ publishState[g] # "none"
    /\ parts' = [parts EXCEPT ![g] = given]
    /\ UNCHANGED <<publishState, original>>

Publish(g) ==
    /\ publishState[g] = "draft"
    /\ publishState' = [publishState EXCEPT ![g] = "published"]
    /\ UNCHANGED <<original, parts>>

\* An original stays as long as a variant refers to it.
Withdraw(g) ==
    /\ publishState[g] = "published"
    /\ \A v \in Games : original[v] # g
    /\ publishState' = [publishState EXCEPT ![g] = "draft"]
    /\ UNCHANGED <<original, parts>>

Next ==
    \/ \E g \in Games, given \in SUBSET Parts : Draft(g, given) \/ Edit(g, given)
    \/ \E g, o \in Games, given \in SUBSET Parts : Vary(g, o, given)
    \/ \E g \in Games : Publish(g) \/ Withdraw(g)

Spec == Init /\ [][Next]_<<publishState, original, parts>>
=============================================================================
