--------------------------- MODULE MCPollerStater ---------------------------
(***************************************************************************)
(* Both address families over a channel shorter than what they may send.   *)
(***************************************************************************)
EXTENDS PollerStater

BothFamilies == {"v4", "v6"}
=============================================================================
