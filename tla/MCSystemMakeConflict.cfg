\* Three packages made from an empty registry under three names, symbols
\* interned and exported between the makes; no error is continued.
CONSTANTS
  P1 = P1  P2 = P2  P3 = P3  KW = KW  A = A  B = B  C = C  N1 = N1  S1 = S1  S2 = S2
  PkgObjects <- MCObjects
  PackageNames <- MCPackageNames3
  NoName = NoName
  Keyword = KW
  Names <- MCNames
  Symbols <- MCSymbols
  SymbolName <- MCSymbolName
  NoSymbol = NoSymbol
  NoPackage = NoPackage
  Continued = {}
  MakeNicks <- NoNicks
  RenameNicks <- NoNicks
  Calls <- ExportCalls
  BootLive <- EmptyLive
  BootName <- EmptyName
  BootPending <- EmptyPending
  BootEdges <- EmptyEdges
SPECIFICATION Spec
INVARIANT InheritedUnambiguous
