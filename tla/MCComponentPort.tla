-------------------------- MODULE MCComponentPort --------------------------
(***************************************************************************)
(* Two streams on one port, one of each limited policy, with one buffer    *)
(* each: every frame meets a full queue sooner or later.                   *)
(***************************************************************************)
EXTENDS ComponentPort

CONSTANTS s1, s2

PolicyOf == [s \in Streams |-> IF s = s1 THEN Overwrite ELSE Discard]
=============================================================================
