------------------------- MODULE MCInetdiagerStater -------------------------
(***************************************************************************)
(* Two workers for one family and one for the other, or one for each.      *)
(***************************************************************************)
EXTENDS InetdiagerStater

BothFamilies == {"v4", "v6"}
TwoAndOne == [af \in BothFamilies |-> IF af = "v4" THEN 2 ELSE 1]
OneEach == [af \in BothFamilies |-> 1]
=============================================================================
