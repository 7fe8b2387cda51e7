--------------------------- MODULE MCRegistryRace ---------------------------
EXTENDS RegistryRace, MCPackageSystem

\* Two live packages A (P1) and B (P2), no use edges.
TwoLive == <<P2, P1>>
TwoName == (P1 :> A) @@ (P2 :> B)

\* make-package and use-package only.
RaceCalls == {"make", "use"}
=============================================================================
