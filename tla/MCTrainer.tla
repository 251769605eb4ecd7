----------------------------- MODULE MCTrainer -----------------------------
(***************************************************************************)
(* Small instances of Trainer.                                             *)
(***************************************************************************)
EXTENDS Trainer

CONSTANTS s1, s2, s3

MCShards == <<s1, s2, s3>>

=============================================================================
