---------------------------- MODULE MCExecution ----------------------------
(***************************************************************************)
(* Instances of Execution for TLC: constants a .cfg cannot write.          *)
(***************************************************************************)
EXTENDS LeaseRefinement, TLC

\* Plans.
OneMedia == <<"media">>
TwoMedia == <<"media", "media">>
MediaVoiceover == <<"media", "voiceover">>
TextLocalMedia == <<"text", "local", "media", "media">>

\* Every step is planned at 2.
PriceTwo == [s \in Steps |-> 2]

\* Job ids and workers are interchangeable; callers are not, one may be inline.
Symmetry == Permutations(Jobs) \cup Permutations(Workers)
=============================================================================
