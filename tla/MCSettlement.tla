---------------------------- MODULE MCSettlement ----------------------------
(***************************************************************************)
(* Instances of Settlement for TLC.                                        *)
(***************************************************************************)
EXTENDS Settlement

OneMedia == <<"media">>
TwoMedia == <<"media", "media">>
PriceTwo == [s \in Steps |-> 2]
=============================================================================
