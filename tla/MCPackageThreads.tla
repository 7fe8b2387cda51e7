-------------------------- MODULE MCPackageThreads --------------------------
(***************************************************************************)
(* Constants of PackageThreads for TLC.  Packages, names, symbols and     *)
(* threads are model values; which operations each thread calls is chosen *)
(* per run in the .cfg files.                                              *)
(***************************************************************************)
EXTENDS PackageThreads, TLC

CONSTANTS P1, P2, P3, KW, N1, S1, S2, T1, T2

MCNames == {N1}
MCSymbols == {S1, S2}
MCSymbolName == [s \in MCSymbols |-> N1]
MCPackages1 == {P1}
MCPackages2 == {P1, P2}
MCPackages3 == {P1, P2, P3}
MCThreads1 == {T1}
MCThreads2 == {T1, T2}

\* Packages are interchangeable: no operation names one in particular.
MCSymmetry2 == Permutations(MCPackages2)
MCSymmetry3 == Permutations(MCPackages3)

\* The two-lock operations on one thread, every single-lock one on the other.
SplitKinds ==
  (T1 :> PackageKinds) @@ (T2 :> (NameKinds \cup {"unintern", "export", "import"}))

\* Both threads call use-package only.
UseKinds == [t \in MCThreads2 |-> {"use"}]

\* Both threads intern, use and export.
ExportRaceKinds == [t \in MCThreads2 |-> {"intern", "use", "export"}]

\* One thread interning and uninterning.
InternKinds == T1 :> {"intern", "unintern"}

\* One thread calling the single-lock mutators with a pre-lock closed check.
ClosedKinds == T1 :> {"shadow", "export", "import"}

====
