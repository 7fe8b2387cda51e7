---------------------------- MODULE PackageNaming ----------------------------
(***************************************************************************)
(* What the package registry promises (spec.md 4.1, I5), with no lists, no *)
(* lookup order and no pending entries: a partial map from package names   *)
(* and nicknames to packages.  make-package binds fresh names to a package *)
(* no name is bound to; rename-package replaces a package's names by names *)
(* that are free or already its own; delete-package unbinds them all.      *)
(* Every other call leaves the map alone.  PackageSystem implements it     *)
(* with byName the result of find-package for each name.                  *)
(***************************************************************************)
EXTENDS Functions

CONSTANTS
  Objects,   \* package objects
  PkgNames,  \* package names and nicknames
  None       \* no package

VARIABLE byName

TypeOK == byName \in [PkgNames -> Objects \cup {None}]

Bound == Range(byName) \ {None}

\* register: a package with no name yet gets names no package answers to.
Bind(p, names) ==
  /\ p \notin Bound
  /\ \A n \in names : byName[n] = None
  /\ byName' = [n \in PkgNames |-> IF n \in names THEN p ELSE byName[n]]

\* rename: a live package's names become `names', each free or its own.
Rebind(p, names) ==
  /\ p \in Bound
  /\ \A n \in names : byName[n] \in {None, p}
  /\ byName' = [n \in PkgNames |-> IF n \in names THEN p
                                   ELSE IF byName[n] = p THEN None
                                   ELSE byName[n]]

\* delete: a live package answers to no name any more.
Unbind(p) ==
  /\ p \in Bound
  /\ byName' = [n \in PkgNames |-> IF byName[n] = p THEN None ELSE byName[n]]

Init == TypeOK

Next ==
  \E p \in Objects :
    \/ \E names \in SUBSET PkgNames \ {{}} : Bind(p, names) \/ Rebind(p, names)
    \/ Unbind(p)

Spec == Init /\ [][Next]_byName

====
