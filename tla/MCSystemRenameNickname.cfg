\* rename-package with a nickname that another live package owns.
CONSTANTS
  P1 = P1  P2 = P2  P3 = P3  KW = KW  A = A  B = B  C = C  N1 = N1  S1 = S1  S2 = S2
  PkgObjects <- MCObjects
  PackageNames <- MCPackageNames
  NoName = NoName
  Keyword = KW
  Names <- MCNames
  Symbols <- MCSymbols
  SymbolName <- MCSymbolName
  NoSymbol = NoSymbol
  NoPackage = NoPackage
  Continued = {"closed", "exists", "used"}
  MakeNicks <- NoNicks
  RenameNicks <- OneNick
  Calls <- NamingCalls
  BootLive <- EmptyLive
  BootName <- EmptyName
  BootPending <- EmptyPending
  BootEdges <- EmptyEdges
SPECIFICATION Spec
INVARIANT NameUniqueness
