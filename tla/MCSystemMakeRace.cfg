\* Packages A and B live; make-package (using A) runs while use-package
\* makes B use A.  make-package and use-package calls only.
CONSTANTS
  P1 = P1  P2 = P2  P3 = P3  KW = KW  A = A  B = B  C = C  N1 = N1  S1 = S1  S2 = S2
  PkgObjects <- MCObjects
  PackageNames <- MCPackageNames3
  NoName = NoName
  Keyword = KW
  Names <- MCNames
  Symbols <- MCSymbols
  SymbolName <- MCSymbolName
  NoSymbol = NoSymbol
  NoPackage = NoPackage
  Continued = {}
  MakeNicks <- NoNicks
  RenameNicks <- NoNicks
  Calls <- RaceCalls
  BootLive <- TwoLive
  BootName <- TwoName
  BootPending <- EmptyPending
  BootEdges <- EmptyEdges
SPECIFICATION RaceSpec
INVARIANT UseMutual
