------------------------------- MODULE MCUpload -------------------------------
(* TLC instance of Upload: a small upload beside one that fills the windows. *)
EXTENDS Upload, TLC

CONSTANTS a, b

MCBody == a :> 3 @@ b :> 1
=============================================================================
