----------------------------- MODULE MCRegistry -----------------------------
(* Three servers, two of which have the same hash.                           *)
EXTENDS Registry

MCHash == [info \in Infos |-> IF info = "c" THEN "id2" ELSE "id1"]
=============================================================================
