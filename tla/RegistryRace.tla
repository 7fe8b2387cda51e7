---------------------------- MODULE RegistryRace ----------------------------
(***************************************************************************)
(* make-package (package.c 143-233) holds only the package list lock while *)
(* it links the new package to its used packages: line 213 reads          *)
(* y->pack.usedby and writes it back without y's lock.  use-package        *)
(* (836-902) takes x's and p's locks but not the package list lock, so it  *)
(* can run between that read and that write.  This module splits the      *)
(* make-package call in two: MakeRead, where the call has read the used-by *)
(* lists, and MakeWrite, where it installs the package on what it read.    *)
(* While a make-package call is in flight the other registry calls wait on *)
(* the package list lock; the package calls (PackageStep) do not take it. *)
(***************************************************************************)
EXTENDS PackageSystem

VARIABLE making  \* the make-package call in flight, or NoMake

NoMake == [name |-> NoName]

raceVars == <<vars, making>>

RaceInit == Init /\ making = NoMake

\* make-package has taken the package list lock and read the used-by lists
\* of the packages it will use (line 213, the read of y->pack.usedby).
MakeRead ==
  /\ "make" \in Calls
  /\ making = NoMake
  /\ \E name \in PackageNames, nl \in MakeNicks, ul \in UseLists :
       making' = [name |-> name, nicknames |-> nl, useList |-> ul, seen |-> usedby]
  /\ UNCHANGED vars

\* make-package finishes on the used-by lists it read (line 213, the write)
\* and releases the package list lock.
MakeWrite ==
  /\ making # NoMake
  /\ MakeWith(making.name, making.nicknames, making.useList, making.seen)
  /\ making' = NoMake

\* With no make-package in flight, any registry or package call runs whole.
Idle == making = NoMake /\ Next /\ UNCHANGED making

\* While make-package holds the package list lock, only calls that do not
\* take it run: the package operations on a live package.
Concurrent == making # NoMake /\ \E p \in Live : PackageStep(p) /\ UNCHANGED making

RaceNext == MakeRead \/ MakeWrite \/ Idle \/ Concurrent

RaceSpec == RaceInit /\ [][RaceNext]_raceVars

\* The use and used-by lists of live packages describe the same edges: p
\* uses q exactly when q's used-by list holds p.  use-package conses onto
\* both under both locks (894-895); make-package conses onto usedby at 213.
UseMutual ==
  \A p, q \in Live : q \in ToSet(uses[p]) <=> p \in ToSet(usedby[q])

=============================================================================
