---------------------------- MODULE MCTestProgram ----------------------------
(* TestProgram has only the team size as a parameter. *)
EXTENDS TestProgram
=============================================================================
