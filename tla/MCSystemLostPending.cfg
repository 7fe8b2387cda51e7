\* make-package of a waiting forward reference with a nickname that is
\* taken, the "already exists" restart continued.
CONSTANTS
  P1 = P1  P2 = P2  P3 = P3  KW = KW  A = A  B = B  C = C  N1 = N1  S1 = S1  S2 = S2
  PkgObjects <- MCObjects
  PackageNames <- MCPackageNames
  NoName = NoName
  Keyword = KW
  Names <- MCNames
  Symbols <- MCSymbols
  SymbolName <- MCSymbolName
  NoSymbol = NoSymbol
  NoPackage = NoPackage
  Continued = {"closed", "exists", "used"}
  MakeNicks <- OneNick
  RenameNicks <- NoNicks
  Calls <- PendingCalls
  BootLive <- WaitLive
  BootName <- WaitName
  BootPending <- WaitPending
  BootEdges <- WaitEdges
SPECIFICATION Spec
INVARIANT UsesResolvable
