# TLA+ models of the MKCL package system

This directory holds TLA+ specifications of the package (namespace) manager
of MKCL, `src/src/c/package.c`, with the TLC configurations that check them.
`spec.md` at the root of the repository is the design text the code is
compared with. Every definition is translated from the C source, and
`PROJECT.json` ("map") gives the lines each one stands for.

## 1. Inventory

### Components

| Component | Source | State it keeps | Operations that change state |
|---|---|---|---|
| Package entity | `package.c` 103-134 (`_mkcl_alloc_sized_package`) | `external`, `internal` hash tables; `nicknames`, `uses`, `usedby`, `shadowings` lists; `closed`; one mutex | created by make-package |
| Symbol home field | `package.c` 84-100 | `symbol.hpack`, a weak back reference | set/cleared by intern, import, shadow, shadowing-import, unintern |
| Name resolver | `mkcl_find_symbol_nolock` 419-449, `mkcl_find_symbol` 451-465 | none (reads) | none |
| Interner | `mkcl_intern` 354-416 | — | intern, with a retry loop for closed packages |
| Visibility mutators | `mkcl_unintern` 467-538, `mkcl_export2` 540-617, `mkcl_unexport2` 675-718, `mkcl_import2` 720-763, `mkcl_shadowing_import` 765-804, `mkcl_shadow` 806-834 | — | move a symbol between absent / internal / external / shadowing |
| Use-graph manager | `mkcl_use_package` 836-902, `mkcl_unuse_package` 904-927 | `uses` and `usedby` lists | add or remove an edge, with a conflict scan before adding one |
| Registry / lifecycle | `mkcl_make_sized_package` 143-233, `mkcl_rename_package` 241-278, `mkcl_find_package_nolock` 291-317, `mk_cl_delete_package` 619-673, `mk_cl_list_all_packages` 1048-1063, `mk_si_packages_in_waiting` 1357-1371 | `mkcl_core.packages`, `mkcl_core.packages_to_be_created`, the global package-list lock | make, rename, delete |
| Close / reopen | `mk_si_close_package` 1022-1046 | `closed` | close, reopen. No lock is taken. |
| Lisp entry points | `mk_cl_*` 929-1355 | — | coerce their arguments, then loop over lists, calling the above |
| GC allocator lock | `gc/include/private/gc_locks.h` | `MK_GC_allocate_lock`, `MK_GC_need_to_lock` | LOCK / UNLOCK |
| Atomic primitives (x86_64) | `gc/libatomic_ops/.../sunc/x86_64.h` | one memory word | fetch-and-add, test-and-set, CAS |
| GC odds and ends | `gc/include/javaxfc.h`, `gc/libatomic_ops/src/atomic_ops_malloc.h`, `gc/tests/leak_test.c` | declarations and a test program | none |

### How they interact

Every entry point first turns its package argument into a package object.
It does so by scanning the global package list without the global lock
(`mkcl_find_package_nolock`, NOTE 1 of the source).

Operations on one package take that package's mutex. Resolution looks into
the used packages' external tables without taking their locks.
- `use-package` and `unuse-package` take two package locks, in argument order.
- `export` holds only its own package's lock. It then resolves the name in
  every package on its used-by list, reading their tables unlocked.
- make, rename, find and delete hold the global lock. `make-package` also
  writes the used packages' `usedby` lists under the global lock alone,
  without those packages' locks.
- `close` and `reopen` write `closed` with no lock. Most mutators read
  `closed` before taking the package lock.

Errors are conditions. A fatal error (`mkcl_FEpackage_error`) unwinds. A
continuable one (`mkcl_CEpackage_error`) calls arbitrary handler code with the
package lock released. The handler either unwinds or continues through the
restart, and execution goes on after the signalling point.

### What makes it hard

- **Lock order.** `use-package(A,B)` locks A then B, while `use-package(B,A)`
  locks B then A: a circular wait. The source itself says so ("This has
  *deadlock* written all over it!").
- **Unlocked reads of other packages.** The used-by scan of export and the
  resolution through used packages can go stale before the commit.
- **Check-then-act.** The closed flag and the use-list membership are
  checked before the lock is taken.
- **Unlocked writes.** make-package writes `usedby` while other threads
  update the same list under its lock.
- **Restart loops.** intern and unintern retry from the top after a
  continued closed-package error, and the package is still closed.
- **Global conflict freedom.** Whether a name is ambiguous in a package
  depends on the tables of every package it uses. A conflict can be
  created by an operation on a different package, several steps earlier.

### What makes each component correct

- Tables: I1 (a name is not both internal and external), I2 (a symbol's home
  package holds it), I4 (keyword package: external only, no use edges).
- Use graph: I3 (P in Q.uses iff Q in P.usedby), and no circular wait.
- Visibility: I7 (no unshadowed name conflict: two different candidate
  symbols for one name in a package require a present shadowing symbol).
- Registry: I5 (names and nicknames unique among live packages). Also,
  after make-package a package can be found by the name it was made with.
- Closed packages: I6 (nothing changes a closed package unless the caller
  continued the closed-package error).
- Interner: a call returns (no endless restart loop).

## 2. Plan

Modules, in the order they are written (most important behaviour first):

1. `Packages` (done): the tables, use graph, shadowing lists and home fields
   of a fixed set of live packages. Every mutator is one atomic action, as it
   is when it runs alone under its lock. Checks I1, I2 and I7, with I4 in a
   separate run. This is the abstract specification for module 2.
2. `PackageThreads` (done): threads running the same operations step by
   step, with per-package mutexes, the lock order of the code, export's
   unlocked scan, the pre-lock closed check and the intern restart loop.
   `INSTANCE Packages` is its refinement target. Checks the refinement,
   no circular wait, distinct use lists, I7 under concurrency, I6, and
   that intern returns. Still to do: import's conflict error as an unlocked
   window, and intern's resolution and creation as separate steps.
3. `PackageSystem` and `PackageNaming` (done): the registry (the live list, names, nicknames,
   the pending-creation list, allocation) composed with `Packages` through
   `INSTANCE Packages WITH Packages <- PkgObjects, ...`. make-package,
   rename-package and delete-package are one step each. Checks I5, that no
   use edge leads to a deleted package, and that make-package returns the
   package find-package finds. `RegistryRace` (done) splits make-package at
   its unlocked `usedby` write (line 213) so use-package can run inside it.
   Still to do: delete-package as a thread, against a use-package of the
   package being deleted.
4. `GcLock`: dropped. `gc_locks.h` holds only the LOCK and UNLOCK macros.
   Their slow path `MK_GC_lock`, and every write of `MK_GC_need_to_lock`,
   are in GC sources that this repository does not contain (see "Not
   modelled").

Bounds: one name is enough for every per-name property, because names never
interact. Three packages are the fewest that give two used packages plus a
user. Two symbols of the name are the fewest that can conflict. Packages are
a symmetry set; symbols are chosen deterministically (`NewSymbol`), since
symbols of one name are interchangeable.

## 3. Modules and runs

### Packages

State: `external`, `internal` (name -> symbol or `NoSymbol`), `uses`,
`usedby` (sequences, newest first, as the code conses), `shadowings` (a set),
`closed`, `hpack` (symbol -> package or `NoPackage`), and `made`, the symbols
`mk_cl_make_symbol` has produced.
- `FindSymbolNolock` is `mkcl_find_symbol_nolock`.
- Each action is one C function, with the guard taken from its early returns
  and errors. A fatal error is no step at all.
- A continuable error goes on only if its restart kind is in the constant
  `Continued`. The kinds are "closed" (closed-package errors) and "conflict"
  (import's name conflict).
- intern and unintern never act on a closed package. Continuing their error
  jumps back to `TRY_AGAIN_LABEL`, which finds the package still closed.
- `Next` follows the Lisp entry points. `mk_cl_intern` is its first
  disjunct. `SymbolCalls` stands for the entry points that take symbols
  (unintern, export, unexport, import, shadowing-import), `ShadowCalls`
  for `mk_cl_shadow`, and `UseCalls` for use-package and unuse-package.
  Given a list, these entry points call the operation once per element, so
  a list is a run of steps, and an error on one element leaves the earlier
  ones done.

Abstractions:
- `shadowings` is a set. `mkcl_shadow` pushes without testing membership, so
  the C list can hold duplicates. Only `package-shadowing-symbols` can tell.
- Symbols can only be made by intern and shadow. A symbol becomes homeless
  by being uninterned, which is how import meets homeless symbols.

Runs:
- `packages_atomic` (pass): three packages. I1, I2, I7 and the type
  invariant. Closed-package errors and import conflicts abort. Any package
  can be closed and reopened, but at most one is closed at a time
  (`CONSTRAINT AtMostOneClosed`). The constraint is symmetric in the
  packages, so symmetry reduction stays sound, and it keeps the run within
  the time budget. Closing with closed-package errors continued is checked
  on two packages by `threads_refinement` (below). That run's `AtomicSpec`
  makes every step a `Packages` step.

Two disagreements the atomic model reaches are not kept as runs (section 4).

### PackageThreads

`PackageThreads` declares the constants and variables of `Packages` and
takes it as `Atomic == INSTANCE Packages`, so the refinement mapping is the
identity on the package variables. It adds:
- `owner[p]`: the thread holding `p->pack.lock`, or `NoThread`;
- `pc[t]`, `op[t]`: where thread `t` is, and the call it is making (kind,
  argument, package);
- `seen[t]`: the `hash` local of `mkcl_export2`, carried from the scan to
  the commit.

Each step is the code between two points where another thread can act.
- `Start` picks a call from `OpKinds[t]`. This is the Lisp entry points.
- `PreCheck` holds the checks made before the lock: the closed flag, the
  keyword refusals, and use-package's `p == x` and membership returns.
- `Lock` and `Lock2` are `MKCL_PACKAGE_LOCK`, the first lock and (for
  use/unuse) the second, taken in argument order.
- `InternTry` and `UninternTry` are `TRY_AGAIN_LABEL`. On a closed package
  they release the lock (`SignalClosed`). `Relock` is the inner
  `UNWIND_PROTECT` exit: it retakes the lock and goes back to
  `TRY_AGAIN_LABEL` when the handler continues (allowed when "closed" is
  in `Continued`), or to `Unwind` (the outer exit) when it aborts. A
  handler may always abort, so `Unwind` is possible in every run.
- `ExportScan` is the accessibility test and the used-by scan. `Commit`
  is the remhash/sethash, in a later step.
- `UseScan` is use-package's scan and conses, with both locks held.
- `Body` is the locked body of unexport, import, shadowing-import, shadow
  and unuse. These read only `p`'s own tables, under `p`'s lock.
- `Close` and `Reopen` are unlocked steps any thread may take.

A fatal error inside the lock unlocks, signals, relocks, and then the outer
exit unlocks. Nothing changes in between, so it is one releasing step.

Bounds. The symbol bound is a guard at `Start`: an intern or shadow starts
only while a fresh symbol is left for it and for every such call in
progress. `unuse(P, P)` is not started (see section 4).

Fairness. `FairSpec` gives each thread weak fairness: a runnable thread is
scheduled. Close and reopen get none, because a user may never call them.
Mutexes are not fair, so no run asks for progress of two threads contending
for one lock. With one thread and no continued error, every call returns
by construction: its only loop is the closed-error retry, which only a
continued error enters. So the one liveness run is the one where the
handler continues (`threads_intern_livelock`).

Runs (`MCPackageThreads`, with two symbols of one name):
- `threads_refinement` (pass). Two packages. T1 calls use/unuse; T2 calls
  intern, shadow, unintern, export and import; close and reopen happen at any time; closed
  errors are continued. `AtomicSpec` (`Atomic!Spec`) holds: every
  state-changing step is a whole `Packages` operation. With two packages,
  every table that export's scan reads belongs to a package whose lock a
  writer would also need, so no read goes stale. This is what the runs
  below break. unexport and shadowing-import are not started: their
  locked bodies, like import's, read and write only `p`'s tables under
  `p`'s lock, and adding them would double the state space.
- `threads_deadlock` (violation). Both threads call use-package. T1 holds
  A and waits for B, and T2 holds B and waits for A (`NoCircularWait`).
- `threads_use_duplicate` (violation). Both threads call use-package(A,B).
  Both pass the unlocked membership test, and `uses[B]` becomes
  `<<A, A>>` (`UsesDistinct`).
- `threads_export_race` (violation). Three packages; threads intern, use
  and export. P2 uses P1. T2 scans P1's used-by list for an export of S1
  and finds no conflict. T1 then interns N1 into P2, holding only P2's
  lock, and makes S2. T2 commits. P2 now has S2 internal and inherits S1,
  unshadowed (`NoNameConflict`, I7).
- `threads_intern_livelock` (violation). One thread; closed errors are
  continued. After `close`, intern loops `try -> relock -> try` for as
  long as the package stays closed, although the restart is offered as
  "Ignore package closing and proceed" (`Termination`).
- `threads_closed_stale` (violation). One thread calling shadow, export
  and import; no closed error is continued. The thread reads the flag
  unlocked, `close` runs, and the locked body then changes the closed
  package (`ClosedImmutable`, I6).

### PackageSystem

`PackageSystem` declares the variables of `Packages` and takes
`Atomic == INSTANCE Packages WITH Packages <- PkgObjects, Continued <-
Continued \cap {"closed", "conflict"}`: the package operations of
`Packages` act on every package object that can be allocated, and are
applied to live ones (`PackageStep`, standing for `mk_si_coerce_to_package`
of a name). Added state:
- `live`: `mkcl_core.packages`, newest first (find-package returns the
  first match);
- `pname`, `nicks`: `p->pack.name` (`NoName` once deleted) and the
  nicknames;
- `pending`: `mkcl_core.packages_to_be_created`, a sequence of
  `[name, pkg]`;
- `allocated`: objects allocated so far. `Free` is what
  `_mkcl_alloc_sized_package` can return: a never-allocated object, or a
  deleted one nothing refers to any more (the collector reclaims it); make
  gives it fresh tables, as allocation does;
- `ret`: what the last make-package returned.

Actions, one step each as when the call runs alone:
- `MakePackage(name, nicknames, useList)`: the pending scan (first entry
  matching the name or a nickname, unlinked and adopted under its own
  name); the uniqueness check of a fresh package; the nickname loop, whose
  error leaves the unlinked entry unlinked (`NickError`); the use edges,
  with no lock and no conflict scan; the cons onto `live` (`Enlist`); the
  continuable "already exists" error after the unlock (`AlreadyExists`).
- `RenamePackage(x, name, nicknames)`: closed check, the other-owner check
  on the name, then the nickname loop. With x's nicknames cleared first,
  `find_package_nolock(nick) != x` keeps every nickname except the new
  name, including nicknames other packages own.
- `DeletePackage(p)`: closed check, unuse of everything p uses, the
  continuable "used by" error, unuse of p from each user (stopping at the
  first closed user whose error aborts), and only then the unlink and
  tombstone.

`Init` is the registry that bootstrap code outside `src/` leaves (the
constants `BootLive`, `BootName`, `BootPending`, `BootEdges`), with fresh
tables. `Calls` chooses the calls a run makes; `MakeNicks` and
`RenameNicks` the nickname lists.

Refinement. `PackageNaming` is what the registry promises, without lists,
lookup order or pending entries: a map `byName` from names to packages,
changed only by `Bind` (make: fresh names to a package with none),
`Rebind` (rename: a package's names replaced by names free or its own) and
`Unbind` (delete). `PackageSystem` instantiates it with
`byName <- [n \in PackageNames |-> FindPackage(n)]`, and `NamingSpec`
(`Naming!Spec`) is checked as a property: every step of make, rename,
delete and the package operations changes find-package's answers only as
one of these abstract steps, whichever partial path delete takes.

Runs (`MCPackageSystem`: three package objects, names A and B (and C for
`system_make_conflict`), one symbol
name, two symbols):
- `system_registry` (pass). Empty boot registry; make (nickname lists
  `()` and `(B)`), rename (no nicknames), delete, intern, export, use,
  unuse, close, reopen. Closed errors abort; "already exists" and "used
  by" are continued, so delete's abort and partial paths both occur.
  `NameUniqueness` (I5), `UsesResolvable` (no live package uses, or is
  used by, a package that is neither live nor pending) hold, and so does
  the refinement `NamingSpec` above.
- `system_rename_nickname` (violation). rename-package(P1, A, (B)) while
  P2 is named B: both live packages answer to B (`NameUniqueness`).
- `system_lost_pending` (violation). Boot: P2 (named B) uses P1, which
  waits as A. make-package(A, (B)) unlinks P1's entry, fails on the
  nickname B and returns P2; P1 is neither pending nor live, yet P2 uses
  it (`UsesResolvable`).
- `system_make_conflict` (violation). Names A, B and C, with make, intern
  and export only, and no error continued. P1 (A) exports S1 and P2 (B)
  exports S2, both named N1. Then make-package(C, (), (P1, P2)) records
  both use edges without use-package's conflict scan. P3 inherits N1 as
  two symbols and shadows neither (`InheritedUnambiguous`, I7; spec.md
  4.1 says register sets each edge as use does).

### RegistryRace

`RegistryRace` extends `PackageSystem` with one variable, `making`: the
make-package call in flight, or `NoMake`. make-package holds the package
list lock (line 154) for its whole body, but line 213,
`y->pack.usedby = MKCL_CONS(env, x, y->pack.usedby)`, reads and writes a
used package's list without y's lock. use-package takes the locks of x and
p (line 861) and not the package list lock, so it can cons onto the same
list between that read and that write. `MakePackage` is `MakeWith(..,
usedby)`, and `MakeWith` takes `seen`, the used-by lists the cons reads:
- `MakeRead`: the call picks its arguments and reads the used-by lists;
- `MakeWrite`: `MakeWith` on what it read, the rest of the call unchanged;
- `Idle`: with no make in flight, any `PackageSystem` step;
- `Concurrent`: with a make in flight, only `PackageStep`, the package
  operations that do not take the package list lock.

The read is taken at the start of the call, not at line 213 itself, so the
model also lets use-package run before the code's read. The run's trace
does not depend on that: its use-package could equally run between the
read and the write of line 213, while `MKCL_CONS` allocates.

`UseMutual` (I3): for live p and q, p's use list holds q exactly when q's
used-by list holds p. It holds in `PackageSystem`, where every call is one
step (40335 states, registry calls of `system_registry`).

Run (`MCRegistryRace`, names A, B, C):
- `system_make_race` (violation). Boot: P1 (A) and P2 (B) live, no edges.
  make-package(C, (), (P1)) reads P1's used-by list `()`. use-package(P1,
  P2) makes it `(P2)`. The write makes it `(P3)`. P2 uses P1, but P1's
  used-by list omits P2, so delete-package of P1 never unuses it.

## 4. Not modelled

- The reader, printer, string coercion and hash-table implementation. Names
  are model values, and a table is a function from names.
- `MKCL_RELATIVE_PACKAGE_NAMES` (compiled out by default).
- Query functions (`package-name`, `package-use-list`, `find-symbol`,
  `list-all-packages`, `package-hash-tables`, `packages-in-waiting`). They
  copy state and change none. The code never changes a list in place
  (`package.c:29-30`), so their unlocked copies (lines 1005-1019) cannot
  see a torn list either. The entry points' argument coercion and
  type-error restarts are also left out: every argument is a valid
  designator.
- The garbage-collector headers and the atomic primitives. They are
  hardware instructions and declarations, and out of the spec's scope.
  The allocator lock cannot be modelled faithfully from this repository.
  LOCK() calls UNCOND_LOCK() only when `MK_GC_need_to_lock` is set, and
  UNLOCK() tests the flag again (`gc_locks.h:205-206`). So whether a thread
  can release a lock it never took depends on when the flag changes. The
  code that sets the flag is not here, and neither is `MK_GC_lock`, the
  blocking slow path. A model would have to invent both.
- `unuse-package(P, P)` locks P twice. Whether the second lock blocks
  depends on `mkcl_normal_mutexattr`, which is defined outside `src/`, so
  the thread runs do not start that call.
- Registry calls as threads, apart from the make-package split of
  `RegistryRace`. `PackageSystem` runs rename and delete as single steps,
  so a use-package of a package being deleted (line 652) is listed as a
  hazard without a property.
- How entries get onto the pending-creation list: bootstrap code outside
  `src/` adds them, so they appear only in `Init`.
- rename-package's name collision is a fatal error in the code (line 277)
  and continuable in spec.md 4.1; the model takes no step either way.
- Disagreements the models reach that no run keeps:
  - continuing import's conflict error imports a symbol over a different
    inherited one without shadowing it (line 754; I7, spec.md 4.4);
  - shadow, import and shadowing-import put symbols in the keyword
    package's internal table (line 827; I4);
  - a pending package is adopted without a uniqueness check (line 168), and
    by a nickname, under its own name (line 165; I5, spec.md 4.1).
