------------------------------- MODULE MCCore -------------------------------
(***************************************************************************)
(* Two stream keys and two ports.  The first configuration has a port for  *)
(* each key; the second has both keys on one port.                         *)
(***************************************************************************)
EXTENDS Core, TLC

P == "p"
Q == "q"
PortsOf == {P, Q}
KeysOf == {"k", "l"}

Separate == [k \in KeysOf |-> IF k = "k" THEN P ELSE Q]
Same     == [k \in KeysOf |-> Q]

OneConfig == {Separate}
OnePort == {Same}

\* Every function; and one more call of those that open and close streams.
OpenAndClose == {"Init", "Exit", "OpenStream", "CloseStream"}
Everything   == [functions |-> AllFunctions, calls |-> 5]
ManyCloses   == [functions |-> OpenAndClose, calls |-> 6]
OneCloser    == [functions |-> OpenAndClose \cup {"StreamFunction"}, calls |-> 5]
AnyUsage == {Everything, ManyCloses}
OneUsage == {OneCloser}

\* Threads and addresses are interchangeable.
Symmetry == Permutations(Threads) \cup Permutations(Addresses)
=============================================================================
