------------------------------ MODULE MCAdmission ------------------------------
(* A small instance of AdmissionLoop over AdmissionSync. *)
EXTENDS AdmissionLoop

TwoStreams  == {"s1", "s2"}
OneOrTwo   == 1..2
=============================================================================
