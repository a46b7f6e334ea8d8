----------------------------- MODULE MCPublisher ------------------------------
(* Instances of Publisher for TLC. *)
EXTENDS Publisher
CONSTANTS c1, c2
=============================================================================
