-------------------------- MODULE MCPackageSystem --------------------------
(***************************************************************************)
(* Constants of PackageSystem for TLC.  Package objects, package names,    *)
(* symbol names and symbols are model values; the boot registry and the    *)
(* calls made are chosen per run in the .cfg files.                        *)
(***************************************************************************)
EXTENDS PackageSystem, TLC

CONSTANTS P1, P2, P3, KW, A, B, C, N1, S1, S2

MCObjects == {P1, P2, P3}
MCPackageNames == {A, B}

\* A third name, so that a third package can be made to use two others.
MCPackageNames3 == {A, B, C}
MCNames == {N1}
MCSymbols == {S1, S2}
MCSymbolName == [s \in MCSymbols |-> N1]

NoNicks == {<<>>}
OneNick == {<<>>, <<B>>}

\* An empty registry: every package is made during the run.
EmptyLive == <<>>
EmptyPending == <<>>
EmptyName == <<>>
EmptyEdges == {}

\* P2, named B, is live and uses P1, a forward reference still waiting on
\* the pending-creation list under the name A.
WaitLive == <<P2>>
WaitPending == <<[name |-> A, pkg |-> P1]>>
WaitName == (P1 :> A) @@ (P2 :> B)
WaitEdges == {<<P2, P1>>}

\* Registry calls, with the package operations that change use edges,
\* tables and the closed flag between them.
RegistryCalls == {"make", "rename", "delete", "intern", "export", "use", "unuse",
                  "close", "reopen"}

\* make-package, rename-package and delete-package against a waiting
\* forward reference, with use-package and unuse-package between them.
PendingCalls == {"make", "rename", "delete", "use", "unuse"}

\* make-package between the calls that fill a package's external table.
ExportCalls == {"make", "intern", "export"}

\* make-package, rename-package and delete-package only.
NamingCalls == {"make", "rename", "delete"}
====
