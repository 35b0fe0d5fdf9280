----------------------------- MODULE MCFirehose -----------------------------
(* Instances of Firehose for TLC. *)
EXTENDS Firehose
CONSTANTS e1, e2, r1, r2, refUpdate, memberUpdate
=============================================================================
