-------------------------- MODULE MCRequestCreation --------------------------
(* Request creation on a few calls and names.                               *)
EXTENDS RequestCreation
==============================================================================
