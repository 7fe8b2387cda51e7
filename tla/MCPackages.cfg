\* The atomic operations with aborting handlers for closed-package errors
\* and import name conflicts; any one package closed at a time.
CONSTANTS
  P1 = P1
  P2 = P2
  P3 = P3
  KW = KW
  N1 = N1
  S1 = S1
  S2 = S2
  NoSymbol = NoSymbol
  NoPackage = NoPackage
  Packages <- MCPackages
  Keyword = KW
  Names <- MCNames
  Symbols <- MCSymbols
  SymbolName <- MCSymbolName
  Continued = {}
SPECIFICATION Spec
INVARIANT TypeOK
INVARIANT Exclusivity
INVARIANT HomeConsistency
INVARIANT NoNameConflict
SYMMETRY MCSymmetry
CONSTRAINT AtMostOneClosed
