---------------------------- MODULE MCActivation ----------------------------
(* Instances of Activation: every constant is given in the .cfg files.         *)
EXTENDS Activation
=============================================================================
