CONSTANTS
  P1 = P1  P2 = P2  P3 = P3  KW = KW  N1 = N1  S1 = S1  S2 = S2  T1 = T1  T2 = T2
  Keyword = KW
  Names <- MCNames
  Symbols <- MCSymbols
  SymbolName <- MCSymbolName
  NoSymbol = NoSymbol
  NoPackage = NoPackage
  NoThread = NoThread
  Packages <- MCPackages2
  Threads <- MCThreads2
  OpKinds <- SplitKinds
  Continued = {"closed"}
SPECIFICATION Spec
INVARIANT TypeOK
PROPERTY AtomicSpec
SYMMETRY MCSymmetry2
