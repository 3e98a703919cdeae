--------------------------- MODULE MCPropertyLock ---------------------------
(***************************************************************************)
(* A property with one part, and another property.  Their full keys are    *)
(* ordered as std::string orders "a", "a[ch=1]" and "b".                   *)
(***************************************************************************)
EXTENDS PropertyLock, TLC

A  == [property |-> "a", append |-> ""]
A1 == [property |-> "a", append |-> "ch=1"]
B  == [property |-> "b", append |-> ""]

KeysOf == {A, A1, B}
\* Threads and streams are interchangeable; keys are not, they are ordered.
Symmetry == Permutations(Threads) \cup Permutations(Streams)

RankOf == [k \in KeysOf |-> IF k = A THEN 1 ELSE IF k = A1 THEN 2 ELSE 3]
=============================================================================
