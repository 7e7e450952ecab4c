------------------------------- MODULE MCSeed -------------------------------
(***************************************************************************)
(* The accounts, the first three games of seed_data.go and their authors.  *)
(***************************************************************************)
EXTENDS Seed

MCSample == <<"ana", "bruno", "knot", "large", "maze",
              "ana of knot", "ana of large", "bruno of maze", "ana of maze", "knot of maze">>

MCNeeds ==
    [row \in {MCSample[i] : i \in 1..Len(MCSample)} |->
        CASE row = "large"         -> {"knot"}
          [] row = "ana of knot"   -> {"ana", "knot"}
          [] row = "ana of large"  -> {"ana", "large"}
          [] row = "bruno of maze" -> {"bruno", "maze"}
          [] row = "ana of maze"   -> {"ana", "maze"}
          [] row = "knot of maze"  -> {"knot", "maze"}
          [] OTHER                 -> {}]

MCAddressOf == [u \in {"ana", "bruno"} |-> u]
=============================================================================
