------------------------------- MODULE MCPlugin -------------------------------
(* Three presses of the button: one that fails, its repetition, and a double
   click. *)
EXTENDS Plugin
=============================================================================
