------------------------------ MODULE MCSweeps ------------------------------
(* Instances of Sweeps for TLC. *)
EXTENDS Sweeps

\* Two sources carry the endpoint e: one with the protocol p, one without.
LabelledAndBulk == Labels

\* Only sources that name the protocol carry anything.
LabelledOnly == Endpoints \X Protocols

=============================================================================
