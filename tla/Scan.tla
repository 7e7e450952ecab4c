-------------------------------- MODULE Scan ---------------------------------
(***************************************************************************)
(* What a client that asks for page after page is promised of a list that  *)
(* changes meanwhile: no game comes twice, and when it is told that there  *)
(* is nothing more, every game that was in the list all the time has come. *)
(***************************************************************************)
CONSTANT Games

VARIABLES
    phase,          \* idle, paging, or told that there is nothing more
    listed,         \* the games the whole list would have now
    shown,          \* the games that came so far
    throughout      \* the games that were listed all the time

Init ==
    /\ phase = "idle"
    /\ listed = {}
    /\ shown = {}
    /\ throughout = {}

Start ==
    /\ phase = "idle"
    /\ phase' = "paging"
    /\ listed' \in SUBSET Games
    /\ shown' = {}
    /\ throughout' = listed'

\* Games appear, change and go.
Change ==
    /\ phase # "idle"
    /\ listed' \in SUBSET Games
    /\ throughout' = throughout \cap listed'
    /\ UNCHANGED <<phase, shown>>

Show(page) ==
    /\ phase = "paging"
    /\ page \cap shown = {}
    /\ shown' = shown \cup page
    /\ UNCHANGED <<phase, listed, throughout>>

ShowLast(page) ==
    /\ phase = "paging"
    /\ page \cap shown = {}
    /\ throughout \subseteq shown \cup page
    /\ shown' = shown \cup page
    /\ phase' = "complete"
    /\ UNCHANGED <<listed, throughout>>

Leave ==
    /\ phase # "idle"
    /\ phase' = "idle"
    /\ listed' = {}
    /\ shown' = {}
    /\ throughout' = {}

Next ==
    \/ Start \/ Change \/ Leave
    \/ \E page \in SUBSET listed : Show(page) \/ ShowLast(page)

Spec == Init /\ [][Next]_<<phase, listed, shown, throughout>>
=============================================================================
