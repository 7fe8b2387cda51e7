\* Three package objects made, renamed (without nicknames), deleted, used
\* and closed from an empty registry; closed errors abort, the other
\* restarts are continued.
CONSTANTS
  P1 = P1  P2 = P2  P3 = P3  KW = KW  A = A  B = B  C = C  N1 = N1  S1 = S1  S2 = S2
  PkgObjects <- MCObjects
  PackageNames <- MCPackageNames
  NoName = NoName
  Keyword = KW
  Names <- MCNames
  Symbols <- MCSymbols
  SymbolName <- MCSymbolName
  NoSymbol = NoSymbol
  NoPackage = NoPackage
  Continued = {"exists", "used"}
  MakeNicks <- OneNick
  RenameNicks <- NoNicks
  Calls <- RegistryCalls
  BootLive <- EmptyLive
  BootName <- EmptyName
  BootPending <- EmptyPending
  BootEdges <- EmptyEdges
SPECIFICATION Spec
INVARIANT TypeOK NameUniqueness UsesResolvable
PROPERTY NamingSpec
