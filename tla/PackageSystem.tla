---------------------------- MODULE PackageSystem ----------------------------
(***************************************************************************)
(* The package registry of src/src/c/package.c composed with the package   *)
(* operations of Packages.  The registry is the list of live packages      *)
(* (mkcl_core.packages), each package object's name and nicknames, and the *)
(* pending-creation list (mkcl_core.packages_to_be_created).  make-package *)
(* adopts a pending package or allocates a fresh one and sets its use      *)
(* edges; rename-package renames; delete-package unuses and unlinks.  Each *)
(* handler is one step, as it is when it runs alone; the package           *)
(* operations are those of Packages over every package object, applied to *)
(* live packages.                                                          *)
(***************************************************************************)
EXTENDS Naturals, FiniteSets, Sequences, SequencesExt

CONSTANTS
  PkgObjects,   \* every package object that can ever be allocated
  PackageNames, \* package names and nicknames (strings), as model values
  NoName,       \* mk_cl_Cnil in pack.name: a deleted package
  Keyword, Names, Symbols, SymbolName, NoSymbol, NoPackage,
  Continued,    \* continued restarts: "closed", "conflict", "exists", "used"
  MakeNicks,    \* nickname lists passed to make-package
  RenameNicks,  \* nickname lists passed to rename-package
  Calls,        \* the calls made in a run
  BootLive,     \* the live packages at start, newest first
  BootName,     \* BootName[p]: the name of a package object allocated at start
  BootPending,  \* the pending-creation list at start: <<[name, pkg], ...>>
  BootEdges     \* use edges <<p, y>> at start: p uses y

ASSUME Continued \subseteq {"closed", "conflict", "exists", "used"}
ASSUME MakeNicks \cup RenameNicks \subseteq Seq(PackageNames)
ASSUME Calls \subseteq {"make", "rename", "delete", "intern", "export",
                        "use", "unuse", "close", "reopen"}

VARIABLES
  external, internal, uses, usedby, shadowings, closed, hpack, made,
  live,         \* mkcl_core.packages, newest first
  pname,        \* p->pack.name, or NoName once deleted
  nicks,        \* p->pack.nicknames, as a set
  pending,      \* mkcl_core.packages_to_be_created, in list order
  allocated,    \* package objects allocated so far
  ret           \* what the last make-package call returned

Atomic == INSTANCE Packages
            WITH Packages <- PkgObjects,
                 Continued <- Continued \cap {"closed", "conflict"}

pkgVars == <<external, internal, uses, usedby, shadowings, closed, hpack, made>>
regVars == <<live, pname, nicks, pending, allocated>>
vars == <<pkgVars, regVars, ret>>

NoRet == [call |-> "none", name |-> NoName, pkg |-> NoPackage]

TypeOK ==
  /\ Atomic!TypeOK
  /\ live \in Seq(PkgObjects)
  /\ pname \in [PkgObjects -> PackageNames \cup {NoName}]
  /\ nicks \in [PkgObjects -> SUBSET PackageNames]
  /\ pending \in Seq([name : PackageNames, pkg : PkgObjects])
  /\ allocated \subseteq PkgObjects
  /\ ret \in {NoRet} \cup [call : {"make"}, name : PackageNames,
                           pkg : PkgObjects]

-----------------------------------------------------------------------------
(***************************************************************************)
(* Helpers                                                                 *)
(***************************************************************************)

Live == ToSet(live)

Proceeds(kind) == kind \in Continued

\* The name or one of the nicknames of p is n (mkcl_string_E and
\* member_string_E).
Matches(p, n) == pname[p] = n \/ n \in nicks[p]

\* mkcl_find_package_nolock of a string: the first live package, in list
\* order, named or nicknamed n.
FindPackage(n) ==
  LET hits == {i \in DOMAIN live : Matches(live[i], n)}
  IN  IF hits = {} THEN NoPackage ELSE live[Min(hits)]

\* The smallest index of a set of indices; 0 for none (the loop ran off
\* the end of the list).
FirstOf(hits) == IF hits = {} THEN 0 ELSE Min(hits)

\* Step 1) of mkcl_make_sized_package: the first pending entry whose name
\* is `name' (mkcl_equal) or one of the nicknames (member :test string=).
PendingMatch(name, nicknames) ==
  FirstOf({i \in DOMAIN pending : pending[i].name \in {name} \cup ToSet(nicknames)})

\* The INTERN loop of mkcl_make_sized_package: the first nickname that
\* mkcl_find_package_nolock finds.
NickTaken(nicknames) ==
  FirstOf({i \in DOMAIN nicknames : FindPackage(nicknames[i]) # NoPackage})

\* The package objects _mkcl_alloc_sized_package may return: never
\* allocated, or a deleted package the collector has reclaimed because
\* nothing the registry or a symbol's home refers to it any more.
Free ==
  (PkgObjects \ allocated)
  \cup {o \in allocated \ (Live \cup {e.pkg : e \in ToSet(pending)}) :
         /\ \A q \in Live : o \notin ToSet(uses[q]) \cup ToSet(usedby[q])
         /\ \A s \in made : hpack[s] # o}

\* The use lists make-package may be given: distinct live packages.
UseLists == {<<>>} \cup {<<y>> : y \in Live}
              \cup {<<y, z>> \in Live \X Live : y # z}

-----------------------------------------------------------------------------
(***************************************************************************)
(* Registry handlers                                                       *)
(***************************************************************************)

\* The continuable "A package with the name ~A already exists." error of
\* mkcl_make_sized_package after it unlocks: continued, the call returns
\* `other'; aborted, it unwinds and returns nothing.
AlreadyExists(n, other) ==
  ret' = IF Proceeds("exists") THEN [call |-> "make", name |-> n, pkg |-> other]
                               ELSE NoRet

\* Mutant: the nickname error looks the existing package up by the
\* requested name.
NickErrorLookupName(name, nick) == AlreadyExists(name, FindPackage(name))

\* A nickname that names a live package: `name = nick; goto _MKCL_ERROR',
\* then the "already exists" error with the package found for it.
NickError(name, nick) == AlreadyExists(nick, FindPackage(nick))

\* "3) Finally, add it to the list of packages": consed at the front.
Enlist(x) == live' = <<x>> \o live

\* mkcl_make_sized_package(name, nicknames, use_list), under the package list
\* lock.  1) The first pending entry whose name is `name' or one of the
\* nicknames is unlinked and its package x adopted, under its pending name.
\* 2) Otherwise a package named `name' is an error, and a fresh x is
\* allocated.  INTERN: a nickname that names a live package is an error (the
\* unlinked pending entry stays unlinked); else x gets the nicknames, the use
\* edges of use_list (no lock of y, no conflict scan), and is consed onto
\* the live list.  `seen' is the used-by list of each y as line 213 reads
\* it: y->pack.usedby is read and written back in one statement, under the
\* package list lock but not y's lock.
MakeWith(name, nicknames, useList, seen) ==
  LET k        == PendingMatch(name, nicknames)
      adopt    == k # 0
      canAlloc == FindPackage(name) = NoPackage /\ Free # {}
      x        == IF adopt THEN pending[k].pkg ELSE CHOOSE o \in Free : TRUE
      j        == NickTaken(nicknames)
      pending1 == IF adopt THEN RemoveAt(pending, k) ELSE pending
      \* x's own state before INTERN: kept if adopted, fresh if allocated
      Own(f, fresh) == IF adopt THEN f ELSE [f EXCEPT ![x] = fresh]
  IN  \/ /\ ~adopt
         /\ FindPackage(name) # NoPackage
         /\ AlreadyExists(name, FindPackage(name))
         /\ UNCHANGED <<pkgVars, regVars>>
      \/ /\ adopt \/ canAlloc
         /\ j # 0
         /\ NickError(name, nicknames[j])
         /\ pending' = pending1
         /\ UNCHANGED <<pkgVars, live, pname, nicks, allocated>>
      \/ /\ adopt \/ canAlloc
         /\ j = 0
         /\ pending' = pending1
         /\ allocated' = allocated \cup {x}
         /\ pname' = Own(pname, name)
         /\ nicks' = [nicks EXCEPT ![x] = ToSet(nicknames)]
         /\ uses' = [Own(uses, <<>>) EXCEPT ![x] = Reverse(useList) \o @]
         /\ usedby' = [y \in PkgObjects |->
                         IF y \in ToSet(useList) THEN <<x>> \o seen[y]
                                                 ELSE Own(usedby, <<>>)[y]]
         /\ external' = Own(external, [n \in Names |-> NoSymbol])
         /\ internal' = Own(internal, [n \in Names |-> NoSymbol])
         /\ shadowings' = Own(shadowings, {})
         /\ closed' = Own(closed, FALSE)
         /\ Enlist(x)
         /\ ret' = [call |-> "make", name |-> name, pkg |-> x]
         /\ UNCHANGED <<hpack, made>>

\* make-package run alone: the cons reads the current used-by lists.
MakePackage(name, nicknames, useList) == MakeWith(name, nicknames, useList, usedby)

\* Mutant: rename-package does not check who owns the new name.
RenamePackageAnyOwner(x, name, nicknames) ==
  /\ Atomic!ClosedCheck(x)
  /\ pname' = [pname EXCEPT ![x] = name]
  /\ nicks' = [nicks EXCEPT ![x] = ToSet(nicknames) \ {name}]
  /\ ret' = NoRet
  /\ UNCHANGED <<pkgVars, live, pending, allocated>>

\* mkcl_rename_package(x, name, nicknames).  The closed check comes before
\* the lock.  Under the lock, a package other than x found under `name' is
\* an error (raised after the unlock).  Otherwise x takes `name', its
\* nicknames are cleared, and each nickname is kept unless
\* find_package_nolock returns x for it; with x's nicknames cleared and the
\* check on `name' passed, that is exactly the nickname equal to `name'.
RenamePackage(x, name, nicknames) ==
  /\ Atomic!ClosedCheck(x)
  /\ FindPackage(name) \in {NoPackage, x}
  /\ pname' = [pname EXCEPT ![x] = name]
  /\ nicks' = [nicks EXCEPT ![x] = ToSet(nicknames) \ {name}]
  /\ ret' = NoRet
  /\ UNCHANGED <<pkgVars, live, pending, allocated>>

\* Mutant: delete-package unlinks p without unusing it from its users.
DeletePackageIgnoreUsers(p) ==
  /\ p # Keyword
  /\ Atomic!ClosedCheck(p)
  /\ uses' = [uses EXCEPT ![p] = <<>>]
  /\ usedby' = [y \in PkgObjects |->
                  IF y \in ToSet(uses[p]) THEN Remove(usedby[y], p) ELSE usedby[y]]
  /\ live' = Remove(live, p)
  /\ pname' = [pname EXCEPT ![p] = NoName]
  /\ ret' = NoRet
  /\ UNCHANGED <<external, internal, shadowings, closed, hpack, made,
                 nicks, pending, allocated>>

\* Mutant: the head of the live list is unlinked, as step 1) unlinks the
\* head of the pending list, instead of p.
UnlinkHead(p) ==
  /\ live' = Tail(live)
  /\ pname' = [pname EXCEPT ![p] = NoName]

\* "3) Only at the end, remove the package from the list of packages":
\* under the package list lock, remove_eq from the live list and set the
\* name to nil.
Unlink(p) ==
  /\ live' = Remove(live, p)
  /\ pname' = [pname EXCEPT ![p] = NoName]

\* mk_cl_delete_package(p) of a live package other than the keyword package.
\* After the closed check: unuse every package p uses (each unuse checks p,
\* which has passed); if p has users, the continuable "used by these other
\* packages" error: aborted, the call unwinds with p's uses already gone;
\* continued, unuse p from each user in turn, which stops at the first
\* closed user whose closed error is not continued.  Only a call that gets
\* through all of them unlinks p and sets its name to nil.
DeletePackage(p) ==
  LET users    == usedby[p]
      \* the first user whose unuse-package stops at its closed check
      stop     == FirstOf({i \in DOMAIN users : ~Atomic!ClosedCheck(users[i])})
      reached  == IF users = <<>> \/ ~Proceeds("used") THEN {}
                  ELSE IF stop = 0 THEN ToSet(users)
                  ELSE ToSet(SubSeq(users, 1, stop - 1))
      complete == users = <<>> \/ (Proceeds("used") /\ stop = 0)
  IN  /\ p # Keyword
      /\ Atomic!ClosedCheck(p)
      /\ uses' = [q \in PkgObjects |->
                    IF q = p THEN <<>>
                    ELSE IF q \in reached THEN Remove(uses[q], p)
                    ELSE uses[q]]
      /\ usedby' = [y \in PkgObjects |->
                      IF y = p THEN SelectSeq(users, LAMBDA q : q \notin reached)
                      ELSE IF y \in ToSet(uses[p]) THEN Remove(usedby[y], p)
                      ELSE usedby[y]]
      /\ IF complete THEN Unlink(p) ELSE UNCHANGED <<live, pname>>
      /\ ret' = NoRet
      /\ UNCHANGED <<external, internal, shadowings, closed, hpack, made,
                     nicks, pending, allocated>>

-----------------------------------------------------------------------------
(***************************************************************************)
(* Specification                                                           *)
(***************************************************************************)

\* A package operation of Packages on a live package; the registry is left
\* alone.
PackageStep(p) ==
  /\ \/ "intern" \in Calls /\ \E n \in Names : Atomic!Intern(n, p)
     \/ "export" \in Calls /\ \E s \in made : Atomic!Export(s, p)
     \/ "use" \in Calls /\ \E x \in Live : Atomic!UsePackage(x, p)
     \/ "unuse" \in Calls /\ \E x \in Live : Atomic!UnusePackage(x, p)
     \/ "close" \in Calls /\ Atomic!ClosePackage(p)
     \/ "reopen" \in Calls /\ Atomic!ReopenPackage(p)
  /\ ret' = NoRet
  /\ UNCHANGED regVars

\* The registry as bootstrap code outside package.c leaves it: the live
\* packages, the pending forward references and the use edges to them;
\* tables empty and nothing closed.

Init ==
  /\ live = BootLive
  /\ pending = BootPending
  /\ allocated = ToSet(BootLive) \cup {e.pkg : e \in ToSet(BootPending)}
  /\ pname = [p \in PkgObjects |-> IF p \in DOMAIN BootName THEN BootName[p]
                                                           ELSE NoName]
  /\ nicks = [p \in PkgObjects |-> {}]
  /\ uses = [p \in PkgObjects |-> SetToSeq({y \in PkgObjects : <<p, y>> \in BootEdges})]
  /\ usedby = [y \in PkgObjects |-> SetToSeq({p \in PkgObjects : <<p, y>> \in BootEdges})]
  /\ external = [p \in PkgObjects |-> [n \in Names |-> NoSymbol]]
  /\ internal = [p \in PkgObjects |-> [n \in Names |-> NoSymbol]]
  /\ shadowings = [p \in PkgObjects |-> {}]
  /\ closed = [p \in PkgObjects |-> FALSE]
  /\ hpack = [s \in Symbols |-> NoPackage]
  /\ made = {}
  /\ ret = NoRet

Next ==
  \/ "make" \in Calls /\ \E name \in PackageNames, nl \in MakeNicks, ul \in UseLists :
                           MakePackage(name, nl, ul)
  \/ "rename" \in Calls /\ \E x \in Live, name \in PackageNames, nl \in RenameNicks :
                             RenamePackage(x, name, nl)
  \/ "delete" \in Calls /\ \E p \in Live : DeletePackage(p)
  \/ \E p \in Live : PackageStep(p)

Spec == Init /\ [][Next]_vars

-----------------------------------------------------------------------------
(***************************************************************************)
(* Properties                                                              *)
(***************************************************************************)

Pending == {e.pkg : e \in ToSet(pending)}

\* I5: no two live packages share a name or a nickname.  make-package checks
\* the name (unless it adopts a pending package) and each nickname;
\* rename-package checks the name and keeps every nickname find_package
\* does not resolve to the renamed package itself.
NameUniqueness ==
  \A p, q \in Live :
    p # q => ({pname[p]} \cup nicks[p]) \cap ({pname[q]} \cup nicks[q]) = {}

\* Every package a live package uses, or is used by, is live or still
\* waiting on the pending-creation list: delete-package unlinks a package
\* only once it has unused its uses and its users, and make-package turns
\* the pending package it unlinks into a live one.
UsesResolvable ==
  \A p \in Live :
    ToSet(uses[p]) \cup ToSet(usedby[p]) \subseteq Live \cup Pending

\* The registry implements PackageNaming: the package find-package returns
\* for each name changes only as a make-package binding fresh names to an
\* unnamed package, a rename-package replacing one package's names, or a
\* delete-package unbinding them, whatever the lookup order of the live
\* list, the pending entries and the partial paths of delete.
Naming == INSTANCE PackageNaming
            WITH Objects <- PkgObjects, PkgNames <- PackageNames,
                 None <- NoPackage,
                 byName <- [n \in PackageNames |-> FindPackage(n)]

NamingSpec == Naming!Spec

\* I7 for packages made with a use list: no live package inherits one name
\* as two different symbols it does not shadow.  use-package scans U's
\* external symbols against P before it records an edge, but make-package
\* conses every package of its :use list onto the new package's uses with
\* no scan, so two used packages that export different symbols under one
\* name give the new package a conflict no call rejected.
InheritedUnambiguous ==
  \A p \in Live, n \in Names :
    Cardinality(Atomic!Inherited(n, p) \cup ({Atomic!Present(n, p)} \ {NoSymbol})) > 1 =>
      Atomic!Present(n, p) \in shadowings[p] \ {NoSymbol}

====
