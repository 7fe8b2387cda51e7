----------------------------- MODULE MCPackages -----------------------------
(***************************************************************************)
(* Model-checking instance of Packages: one name and two symbols of it,   *)
(* the fewest that can conflict, and three packages, so that two can be   *)
(* used by a third.                                                        *)
(***************************************************************************)
EXTENDS Packages, TLC

CONSTANTS P1, P2, P3, KW, N1, S1, S2

MCPackages == {P1, P2, P3}
MCNames == {N1}
MCSymbols == {S1, S2}
MCSymbolName == [s \in MCSymbols |-> N1]

MCSymmetry == Permutations(MCPackages)

\* A closed package blocks the calls that name it, and only those, so one
\* closed package at a time reaches every closed-package path; the
\* constraint is symmetric in the packages, which keeps symmetry sound.
AtMostOneClosed == \A p, q \in Packages : closed[p] /\ closed[q] => p = q

=============================================================================
