------------------------------ MODULE MCServer ------------------------------
(***************************************************************************)
(* Two primary clients that lock each other out; or one primary whose      *)
(* frames a secondary carries, while one thing may fail.                   *)
(***************************************************************************)
EXTENDS Server

CONSTANTS p1, p2, s1

TwoWorlds ==
  {[clients |-> {p1, p2}, locks |-> 2, faults |-> 0],
   [clients |-> {p1, s1}, locks |-> 1, faults |-> 1]}
=============================================================================
