--------------------------- MODULE MCCryptChannel ---------------------------
(* Bytes of six values.                                                      *)
EXTENDS CryptChannel

(* The last IV whose second byte is 0 and the first where it is 1.           *)
MCNonces == {5, 6}

(* Under the second key the low byte makes a whole turn.                     *)
MCSent == <<1, 7>>
=============================================================================
