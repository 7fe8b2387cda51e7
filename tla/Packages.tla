------------------------------ MODULE Packages ------------------------------
(***************************************************************************)
(* The symbol tables of a fixed set of live packages and the operations of *)
(* src/src/c/package.c that change them: intern, unintern, export,         *)
(* unexport, import, shadowing-import, shadow, use-package, unuse-package, *)
(* close and reopen.  Each operation is one atomic step: in the code every *)
(* one of them runs under its package's lock (two locks for use/unuse),    *)
(* so this module is the specification of what each handler does when it  *)
(* runs alone.  The interleaved, lock-by-lock version is PackageThreads.   *)
(*                                                                         *)
(* A continuable error (mkcl_CEpackage_error) either unwinds, leaving the  *)
(* state as it was, or returns through the "continue" restart.  Which      *)
(* restarts the caller's handler takes is the constant Continued.  A fatal *)
(* error (mkcl_FEpackage_error) always unwinds; no step is taken.          *)
(* Operations that find nothing to do (already external, not present, ...) *)
(* are stuttering steps and are not written as actions.                    *)
(***************************************************************************)
EXTENDS Naturals, FiniteSets, Sequences, SequencesExt

CONSTANTS
  Packages,     \* the live packages (mkcl_core.packages)
  Keyword,      \* mkcl_core.keyword_package; may lie outside Packages
  Names,        \* symbol names (strings), as model values
  Symbols,      \* every symbol object that can ever be made
  SymbolName,   \* SymbolName[s]: the immutable name of symbol s
  NoSymbol,     \* MKCL_OBJNULL returned by mkcl_gethash_safe
  NoPackage,    \* mk_cl_Cnil in the symbol.hpack field (homeless)
  Continued     \* restarts the handler continues: a subset of
                \* {"closed", "conflict"}

ASSUME SymbolName \in [Symbols -> Names]
ASSUME NoSymbol \notin Symbols /\ NoPackage \notin Packages
ASSUME Continued \subseteq {"closed", "conflict"}

VARIABLES
  external,     \* p->pack.external : name -> symbol hash table
  internal,     \* p->pack.internal
  uses,         \* p->pack.uses     : list of packages, newest first
  usedby,       \* p->pack.usedby
  shadowings,   \* p->pack.shadowings, as a set (see README)
  closed,       \* p->pack.closed
  hpack,        \* s->symbol.hpack  : home package or NoPackage
  made          \* symbols made so far by mk_cl_make_symbol

vars == <<external, internal, uses, usedby, shadowings, closed, hpack, made>>

Table == [Names -> Symbols \cup {NoSymbol}]

TypeOK ==
  /\ external \in [Packages -> Table]
  /\ internal \in [Packages -> Table]
  /\ uses \in [Packages -> Seq(Packages)]
  /\ usedby \in [Packages -> Seq(Packages)]
  /\ shadowings \in [Packages -> SUBSET Symbols]
  /\ closed \in [Packages -> BOOLEAN]
  /\ hpack \in [Symbols -> Packages \cup {NoPackage}]
  /\ made \subseteq Symbols

-----------------------------------------------------------------------------
(***************************************************************************)
(* Helpers                                                                 *)
(***************************************************************************)

\* mkcl_find_symbol_nolock: the external table, then (except in the keyword
\* package) the internal table, then the external tables of the used
\* packages in list order; the first hit wins.
FindSymbolNolock(name, p) ==
  LET hits == {i \in DOMAIN uses[p] : external[uses[p][i]][name] # NoSymbol}
      inUse == IF hits = {} THEN 0 ELSE Min(hits)
  IN  IF external[p][name] # NoSymbol
        THEN [sym |-> external[p][name], flag |-> "external"]
      ELSE IF p # Keyword /\ internal[p][name] # NoSymbol
        THEN [sym |-> internal[p][name], flag |-> "internal"]
      ELSE IF p # Keyword /\ inUse # 0
        THEN [sym |-> external[uses[p][inUse]][name], flag |-> "inherited"]
      ELSE [sym |-> NoSymbol, flag |-> "none"]

\* A continuable error of the given kind lets the operation go on.
Proceeds(kind) == kind \in Continued

\* The closed-package check made before the lock is taken.
ClosedCheck(p) == ~closed[p] \/ Proceeds("closed")

\* mk_cl_make_symbol: a symbol never made before.  Symbols of one name are
\* interchangeable, so the choice is fixed.
CanMake(name) == \E s \in Symbols \ made : SymbolName[s] = name
NewSymbol(name) == CHOOSE s \in Symbols \ made : SymbolName[s] = name

\* make_resident_symbol_homeless and set_symbol_home_if_homeless
\* h is the hpack function the update applies to.
Homeless(h, s, p) == [h EXCEPT ![s] = IF @ = p THEN NoPackage ELSE @]
HomeIfHomeless(h, s, p) == [h EXCEPT ![s] = IF @ = NoPackage THEN p ELSE @]

-----------------------------------------------------------------------------
(***************************************************************************)
(* Operations.  Each operation that checks the closed flag (or anything   *)
(* else) before taking the package lock is written Checks /\ ...Locked;   *)
(* the ...Locked part is what runs under the lock, and PackageThreads     *)
(* reuses it.                                                             *)
(***************************************************************************)

\* mkcl_intern, all of it under p's lock, when the name is accessible
\* nowhere: a new symbol homed in p, external in the keyword package and
\* internal elsewhere.  In a closed package the "continue" restart jumps
\* back to TRY_AGAIN_LABEL, where the package is still closed: no symbol is
\* made by this call (PackageThreads models the loop).
Intern(name, p) ==
  LET s == NewSymbol(name) IN
  /\ FindSymbolNolock(name, p).flag = "none"
  /\ ~closed[p]
  /\ CanMake(name)
  /\ made' = made \cup {s}
  /\ hpack' = [hpack EXCEPT ![s] = p]
  /\ IF p = Keyword
       THEN /\ external' = [external EXCEPT ![p][name] = s]
            /\ UNCHANGED internal
       ELSE /\ internal' = [internal EXCEPT ![p][name] = s]
            /\ UNCHANGED external
  /\ UNCHANGED <<uses, usedby, shadowings, closed>>

\* The distinct symbols named `name` that the used packages of p export.
Inherited(name, p) ==
  {external[u][name] : u \in ToSet(uses[p])} \ {NoSymbol}

\* Mutant: the home of the removed symbol is left pointing at p.
UninternKeepHome(s, p) ==
  LET name == SymbolName[s]
      inInternal == internal[p][name] = s
  IN
  /\ inInternal \/ external[p][name] = s
  /\ ~closed[p]
  /\ s \in shadowings[p] => Cardinality(Inherited(name, p)) <= 1
  /\ shadowings' = [shadowings EXCEPT ![p] = @ \ {s}]
  /\ IF inInternal
       THEN /\ internal' = [internal EXCEPT ![p][name] = NoSymbol]
            /\ UNCHANGED external
       ELSE /\ external' = [external EXCEPT ![p][name] = NoSymbol]
            /\ UNCHANGED internal
  /\ UNCHANGED <<uses, usedby, closed, hpack, made>>

\* mkcl_unintern, all of it under p's lock, of a symbol present in p.  A
\* shadowing symbol is dropped from the shadowing list only if at most one
\* symbol would then be inherited under its name.  The closed package
\* restart loops like intern's.
Unintern(s, p) ==
  LET name == SymbolName[s]
      inInternal == internal[p][name] = s
  IN
  /\ inInternal \/ external[p][name] = s
  /\ ~closed[p]
  /\ s \in shadowings[p] => Cardinality(Inherited(name, p)) <= 1
  /\ shadowings' = [shadowings EXCEPT ![p] = @ \ {s}]
  /\ IF inInternal
       THEN /\ internal' = [internal EXCEPT ![p][name] = NoSymbol]
            /\ UNCHANGED external
       ELSE /\ external' = [external EXCEPT ![p][name] = NoSymbol]
            /\ UNCHANGED internal
  /\ hpack' = Homeless(hpack, s, p)
  /\ UNCHANGED <<uses, usedby, closed, made>>

\* The used-by scan of mkcl_export2: some package using p sees a
\* different, non-shadowing symbol under the name of s.
ExportConflict(s, p) ==
  \E q \in ToSet(usedby[p]) :
    LET there == FindSymbolNolock(SymbolName[s], q)
    IN  there.flag # "none" /\ there.sym # s /\ there.sym \notin shadowings[q]

\* Mutant: the internal entry is not removed when it is promoted.
ExportCommitKeepInternal(s, p, wasInternal) ==
  /\ external' = [external EXCEPT ![p][SymbolName[s]] = s]
  /\ UNCHANGED <<internal, uses, usedby, shadowings, closed, hpack, made>>

\* The commit of mkcl_export2: remhash from the internal table if the
\* symbol was found there, then sethash into the external table.
ExportCommit(s, p, wasInternal) ==
  /\ IF wasInternal
       THEN internal' = [internal EXCEPT ![p][SymbolName[s]] = NoSymbol]
       ELSE UNCHANGED internal
  /\ external' = [external EXCEPT ![p][SymbolName[s]] = s]
  /\ UNCHANGED <<uses, usedby, shadowings, closed, hpack, made>>

\* mkcl_export2 under the lock, for a symbol internal in p or inherited by
\* p.  A "not accessible" error, even continued, ends in the fatal x != s
\* error; an external symbol is left alone.
ExportLocked(s, p) ==
  LET found == FindSymbolNolock(SymbolName[s], p) IN
  /\ found.sym = s
  /\ found.flag \in {"internal", "inherited"}
  /\ ~ExportConflict(s, p)
  /\ ExportCommit(s, p, found.flag = "internal")

Export(s, p) == ClosedCheck(p) /\ ExportLocked(s, p)

\* mkcl_unexport2 of a symbol external in p: moved to the internal table.
\* Refused outright in the keyword package.
UnexportLocked(s, p) ==
  LET name == SymbolName[s] IN
  /\ FindSymbolNolock(name, p) = [sym |-> s, flag |-> "external"]
  /\ external' = [external EXCEPT ![p][name] = NoSymbol]
  /\ internal' = [internal EXCEPT ![p][name] = s]
  /\ UNCHANGED <<uses, usedby, shadowings, closed, hpack, made>>

Unexport(s, p) == p # Keyword /\ ClosedCheck(p) /\ UnexportLocked(s, p)

\* mkcl_import2: s goes into the internal table when the name is not
\* accessible, or only inherited.  An inherited *different* symbol raises
\* the continuable conflict error, and continuing imports s all the same;
\* a present different symbol ends the operation after the error.
ImportLocked(s, p) ==
  LET name == SymbolName[s]
      found == FindSymbolNolock(name, p)
  IN
  /\ \/ found.flag = "none"
     \/ found.flag = "inherited" /\ (found.sym = s \/ Proceeds("conflict"))
  /\ internal' = [internal EXCEPT ![p][name] = s]
  /\ hpack' = HomeIfHomeless(hpack, s, p)
  /\ UNCHANGED <<external, uses, usedby, shadowings, closed, made>>

Import(s, p) == ClosedCheck(p) /\ ImportLocked(s, p)

\* mkcl_shadowing_import: a different present symbol is removed (and made
\* homeless if homed here), s becomes internal and shadowing.  When s is
\* already present it is only added to the shadowing list.
ShadowingImportLocked(s, p) ==
  LET name == SymbolName[s]
      found == FindSymbolNolock(name, p)
      x == found.sym
      present == found.flag \in {"internal", "external"}
  IN
  IF present /\ x = s
    THEN /\ s \notin shadowings[p]
         /\ shadowings' = [shadowings EXCEPT ![p] = @ \cup {s}]
         /\ UNCHANGED <<external, internal, uses, usedby, closed, hpack, made>>
    ELSE LET hp == IF present THEN Homeless(hpack, x, p) ELSE hpack IN
         /\ shadowings' = [shadowings EXCEPT ![p] =
                             (@ \ (IF present THEN {x} ELSE {})) \cup {s}]
         /\ external' = IF found.flag = "external"
                          THEN [external EXCEPT ![p][name] = NoSymbol]
                          ELSE external
         /\ internal' = [internal EXCEPT ![p][name] = s]
         /\ hpack' = HomeIfHomeless(hp, s, p)
         /\ UNCHANGED <<uses, usedby, closed, made>>

ShadowingImport(s, p) == ClosedCheck(p) /\ ShadowingImportLocked(s, p)

\* Mutant: the make-symbol branch forgotten; the resolver's NIL is pushed.
ShadowLockedNoMake(name, p) ==
  LET found == FindSymbolNolock(name, p) IN
  /\ found.sym \notin shadowings[p]
  /\ shadowings' = [shadowings EXCEPT ![p] = @ \cup {found.sym}]
  /\ UNCHANGED <<external, internal, uses, usedby, closed, hpack, made>>

\* mkcl_shadow of a name: unless a symbol of that name is present (as the
\* resolver sees it), a new internal symbol homed in p is made; the present
\* or new symbol is pushed on the shadowing list.
ShadowLocked(name, p) ==
  LET found == FindSymbolNolock(name, p)
      present == found.flag \in {"internal", "external"}
      s == IF present THEN found.sym ELSE NewSymbol(name)
  IN
  /\ present \/ CanMake(name)
  /\ s \notin shadowings[p]
  /\ shadowings' = [shadowings EXCEPT ![p] = @ \cup {s}]
  /\ IF present
       THEN UNCHANGED <<internal, hpack, made>>
       ELSE /\ internal' = [internal EXCEPT ![p][name] = s]
            /\ hpack' = [hpack EXCEPT ![s] = p]
            /\ made' = made \cup {s}
  /\ UNCHANGED <<external, uses, usedby, closed>>

Shadow(name, p) == ClosedCheck(p) /\ ShadowLocked(name, p)

\* Mutant: the scan compares only with symbols present in p, as if the
\* resolver did not look into p's own use list.
UseConflictPresentOnly(x, p) ==
  \E name \in Names :
    LET here == external[x][name]
        there == IF external[p][name] # NoSymbol THEN external[p][name]
                 ELSE internal[p][name]
    IN  /\ here # NoSymbol
        /\ there # NoSymbol
        /\ here # there
        /\ there \notin shadowings[p]

\* The scan of mkcl_use_package: an external symbol of x whose name
\* resolves in p to a different symbol that is not shadowing in p.
UseConflict(x, p) ==
  \E name \in Names :
    LET here == external[x][name]
        there == FindSymbolNolock(name, p)
    IN  /\ here # NoSymbol
        /\ there.flag # "none"
        /\ here # there.sym
        /\ there.sym \notin shadowings[p]

\* The checks mkcl_use_package makes before locking: the keyword package on
\* either side is refused, x = p or x already used is a no-op.
UseChecks(x, p) ==
  /\ x # Keyword
  /\ ClosedCheck(p)
  /\ p # Keyword
  /\ p # x
  /\ ~Contains(uses[p], x)

\* Under the locks of x and p: the scan, then both edges consed on.
UseLocked(x, p) ==
  /\ ~UseConflict(x, p)
  /\ uses' = [uses EXCEPT ![p] = Cons(x, @)]
  /\ usedby' = [usedby EXCEPT ![x] = Cons(p, @)]
  /\ UNCHANGED <<external, internal, shadowings, closed, hpack, made>>

UsePackage(x, p) == UseChecks(x, p) /\ UseLocked(x, p)

\* mkcl_unuse_package(x, p) under both locks: every occurrence of both
\* edges removed (mkcl_remove_eq).
UnuseLocked(x, p) ==
  /\ uses' = [uses EXCEPT ![p] = Remove(@, x)]
  /\ usedby' = [usedby EXCEPT ![x] = Remove(@, p)]
  /\ UNCHANGED <<external, internal, shadowings, closed, hpack, made>>

UnusePackage(x, p) ==
  /\ ClosedCheck(p)
  /\ Contains(uses[p], x)
  /\ UnuseLocked(x, p)

\* mk_si_close_package and mk_si_reopen_package
ClosePackage(p) ==
  /\ ~closed[p]
  /\ closed' = [closed EXCEPT ![p] = TRUE]
  /\ UNCHANGED <<external, internal, uses, usedby, shadowings, hpack, made>>

ReopenPackage(p) ==
  /\ closed[p]
  /\ closed' = [closed EXCEPT ![p] = FALSE]
  /\ UNCHANGED <<external, internal, uses, usedby, shadowings, hpack, made>>

-----------------------------------------------------------------------------
(***************************************************************************)
(* Specification                                                           *)
(***************************************************************************)

\* Fresh packages as _mkcl_alloc_sized_package leaves them; no symbol made.
Init ==
  /\ external = [p \in Packages |-> [n \in Names |-> NoSymbol]]
  /\ internal = [p \in Packages |-> [n \in Names |-> NoSymbol]]
  /\ uses = [p \in Packages |-> <<>>]
  /\ usedby = [p \in Packages |-> <<>>]
  /\ shadowings = [p \in Packages |-> {}]
  /\ closed = [p \in Packages |-> FALSE]
  /\ hpack = [s \in Symbols |-> NoPackage]
  /\ made = {}

\* The Lisp entry points below take a designator, or a list of them, and
\* call the operation once per element (coercing each to a symbol or a
\* package); a list is a sequence of these steps, an error on one element
\* leaving the earlier ones done.

\* mk_cl_unintern, mk_cl_export, mk_cl_unexport, mk_cl_import and
\* mk_cl_shadowing_import on an existing symbol.
SymbolCalls(p) ==
  \E s \in made :
    \/ Unintern(s, p) \/ Export(s, p) \/ Unexport(s, p)
    \/ Import(s, p) \/ ShadowingImport(s, p)

\* mk_cl_shadow on a name.
ShadowCalls(p) == \E n \in Names : Shadow(n, p)

\* mk_cl_use_package and mk_cl_unuse_package: p uses, or stops using, x.
UseCalls(p) == \E x \in Packages : UsePackage(x, p) \/ UnusePackage(x, p)

\* mk_cl_intern, then the other entry points, and close and reopen.
Next ==
  \E p \in Packages :
    \/ \E n \in Names : Intern(n, p)
    \/ ShadowCalls(p) \/ SymbolCalls(p) \/ UseCalls(p)
    \/ ClosePackage(p) \/ ReopenPackage(p)

Spec == Init /\ [][Next]_vars

-----------------------------------------------------------------------------
(***************************************************************************)
(* Properties                                                              *)
(***************************************************************************)

\* The symbol present in p under name, if any.
Present(name, p) ==
  IF external[p][name] # NoSymbol THEN external[p][name] ELSE internal[p][name]

\* I1: no name is in both the external and the internal table of a package.
\* Export must remove the internal entry it promotes, unexport the external
\* one it demotes, and import/shadow must only fill an empty slot.
Exclusivity ==
  \A p \in Packages, n \in Names :
    external[p][n] = NoSymbol \/ internal[p][n] = NoSymbol

\* I2: a symbol whose home is p is present in p.  Every path that removes a
\* symbol (unintern, the replaced symbol of shadowing-import) must clear a
\* home that points at the package it is removed from.
HomeConsistency ==
  \A s \in made :
    hpack[s] # NoPackage => Present(SymbolName[s], hpack[s]) = s

\* I7: whenever two different symbols are candidates for one name in a
\* package (the present one and those exported by used packages), one of
\* them is present there and on its shadowing list.  Intern, import,
\* export (scan of the used-by list), use-package (scan of the external
\* table) and unintern (scan of the use list) must each refuse the step
\* that would break it.
NoNameConflict ==
  \A p \in Packages, n \in Names :
    LET candidates == Inherited(n, p) \cup ({Present(n, p)} \ {NoSymbol})
    IN  Cardinality(candidates) > 1 =>
          /\ Present(n, p) # NoSymbol
          /\ Present(n, p) \in shadowings[p]

=============================================================================
