----------------------------- MODULE MCArraySizes -----------------------------
(* ArraySizes with ints of a few bits. *)
EXTENDS ArraySizes
=============================================================================
