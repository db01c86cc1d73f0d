------------------------------- MODULE Parts --------------------------------
(***************************************************************************)
(* The components around the runtime share no state with each other, except *)
(* for what a module names as an input, and are composed side by side: a    *)
(* behaviour belongs to one part and leaves the variables of the others     *)
(* unused.  A variable of the same name in several parts is the one of the  *)
(* part whose behaviour it is.                                              *)
(***************************************************************************)

VARIABLE part

Unused == "unused"
=============================================================================
