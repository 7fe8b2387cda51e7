--------------------------- MODULE PackageThreads ---------------------------
(***************************************************************************)
(* Threads running the operations of src/src/c/package.c step by step, as *)
(* the code takes and releases the per-package mutexes (MKCL_PACKAGE_LOCK) *)
(* and raises its errors.  The package state and the locked bodies are     *)
(* those of Packages; this module adds who holds which lock, where every   *)
(* thread is in its operation, and the unlocked windows between steps:     *)
(*   - the closed flag (and, for use-package, the use list) is checked     *)
(*     before the lock is taken, and close/reopen take no lock at all;     *)
(*   - export scans the packages that use it with only its own lock held,  *)
(*     and commits in a later step;                                        *)
(*   - use/unuse lock their two packages in argument order;                *)
(*   - intern and unintern release the lock around the closed-package      *)
(*     error, take it again, and jump back to TRY_AGAIN_LABEL.             *)
(* A fatal error releases and retakes the lock before the outer unwind     *)
(* releases it; nothing changes in between, so it is one releasing step.   *)
(***************************************************************************)
EXTENDS Naturals, FiniteSets, Sequences, SequencesExt

CONSTANTS
  Packages, Keyword, Names, Symbols, SymbolName, NoSymbol, NoPackage,
  Continued,
  Threads,      \* the Lisp threads calling into package.c
  NoThread,     \* the owner of a free mutex
  OpKinds       \* OpKinds[t]: the operations thread t calls

VARIABLES
  external, internal, uses, usedby, shadowings, closed, hpack, made,
  owner,        \* owner[p]: the thread holding p->pack.lock
  pc,           \* pc[t]: where thread t is in its operation
  op,           \* op[t]: the operation and its arguments
  seen          \* seen[t]: export's intern_flag == INTERNAL, kept from scan
                \* to commit (the local variable hash)

Atomic == INSTANCE Packages

pkgVars == <<external, internal, uses, usedby, shadowings, closed, hpack, made>>
threadVars == <<owner, pc, op, seen>>
vars == <<pkgVars, threadVars>>

NameKinds == {"intern", "shadow"}
SymbolKinds == {"unintern", "export", "unexport", "import", "shadowing_import"}
PackageKinds == {"use", "unuse"}

\* An operation: its kind, its argument a (a name, a symbol, or the package
\* x of use/unuse) and the package p it acts on.
Ops == [kind : NameKinds, a : Names, p : Packages]
       \cup [kind : SymbolKinds, a : Symbols, p : Packages]
       \cup [kind : PackageKinds, a : Packages, p : Packages]
NoOp == [kind |-> "none", a |-> NoPackage, p |-> NoPackage]

ASSUME OpKinds \in [Threads -> SUBSET (NameKinds \cup SymbolKinds \cup PackageKinds)]
ASSUME NoThread \notin Threads

Pcs == {"idle", "pre", "lock", "lock2", "try", "relock", "unwind",
        "scan", "commit", "body"}

TypeOK ==
  /\ Atomic!TypeOK
  /\ owner \in [Packages -> Threads \cup {NoThread}]
  /\ pc \in [Threads -> Pcs]
  /\ op \in [Threads -> Ops \cup {NoOp}]
  /\ seen \in [Threads -> BOOLEAN]

-----------------------------------------------------------------------------
(***************************************************************************)
(* Helpers                                                                 *)
(***************************************************************************)

Goto(t, l) == pc' = [pc EXCEPT ![t] = l]

\* Threads inside an operation that may call mk_cl_make_symbol for name.
Making(name) ==
  {t \in Threads : pc[t] # "idle" /\ op[t].kind \in NameKinds /\ op[t].a = name}

\* The bound on symbols: an intern or shadow starts only while a fresh
\* symbol of its name is left for it and for every such call in progress.
\* A symbol argument is a symbol that exists.  unuse(p, p) is left out: it
\* locks p twice (see README).
Startable(o) ==
  /\ o.kind \in NameKinds =>
       Cardinality({s \in Symbols \ made : SymbolName[s] = o.a})
         > Cardinality(Making(o.a))
  /\ o.kind \in SymbolKinds => o.a \in made
  /\ o.kind = "unuse" => o.a # o.p

\* The package locked first: x for use/unuse(x, p), else p.
FirstLock(o) == IF o.kind \in PackageKinds THEN o.a ELSE o.p

\* Mutant: the mutex taken without waiting for it to be free.
AcquireNoWait(t, q) == owner' = [owner EXCEPT ![q] = t]

\* MKCL_PACKAGE_LOCK: blocks until the mutex is free.
Acquire(t, q) ==
  /\ owner[q] = NoThread
  /\ owner' = [owner EXCEPT ![q] = t]

\* The end of an operation: the UNWIND_PROTECT exit releases the locks
\* the thread holds (none when it returns before locking).
Finish(t) ==
  /\ owner' = [q \in Packages |-> IF owner[q] = t THEN NoThread ELSE owner[q]]
  /\ pc' = [pc EXCEPT ![t] = "idle"]
  /\ op' = [op EXCEPT ![t] = NoOp]
  /\ seen' = [seen EXCEPT ![t] = FALSE]

\* The closed-package error inside the lock: unlock, then the handler runs.
SignalClosed(t) ==
  /\ owner' = [owner EXCEPT ![op[t].p] = NoThread]
  /\ Goto(t, "relock")
  /\ UNCHANGED <<pkgVars, op, seen>>

\* The single-lock locked bodies that read and write p's own tables only.
BodyStep(o) ==
  CASE o.kind = "unexport"         -> Atomic!UnexportLocked(o.a, o.p)
    [] o.kind = "import"           -> Atomic!ImportLocked(o.a, o.p)
    [] o.kind = "shadowing_import" -> Atomic!ShadowingImportLocked(o.a, o.p)
    [] o.kind = "shadow"           -> Atomic!ShadowLocked(o.a, o.p)
    [] o.kind = "unuse"            -> Atomic!UnuseLocked(o.a, o.p)

-----------------------------------------------------------------------------
(***************************************************************************)
(* Steps of a thread                                                       *)
(***************************************************************************)

\* A call begins: intern and unintern lock at once, the others first make
\* their unlocked checks.
Start(t) ==
  /\ pc[t] = "idle"
  /\ \E o \in Ops :
       /\ o.kind \in OpKinds[t]
       /\ Startable(o)
       /\ op' = [op EXCEPT ![t] = o]
       /\ Goto(t, IF o.kind \in {"intern", "unintern"} THEN "lock" ELSE "pre")
  /\ UNCHANGED <<pkgVars, owner, seen>>

\* The checks before MKCL_PACKAGE_LOCK: the closed flag, read unlocked (a
\* continuable error the handler may continue), the keyword package
\* refusals of unexport and use, and use-package's early returns.
PreCheck(t) ==
  LET o == op[t]
      pass == CASE o.kind = "use"      -> Atomic!UseChecks(o.a, o.p)
                [] o.kind = "unexport" -> o.p # Keyword /\ Atomic!ClosedCheck(o.p)
                [] OTHER               -> Atomic!ClosedCheck(o.p)
  IN
  /\ pc[t] = "pre"
  /\ IF pass
       THEN /\ Goto(t, "lock") /\ UNCHANGED <<op, owner, seen>>
       ELSE Finish(t)
  /\ UNCHANGED pkgVars

\* The first MKCL_PACKAGE_LOCK.
Lock(t) ==
  LET k == op[t].kind IN
  /\ pc[t] = "lock"
  /\ Acquire(t, FirstLock(op[t]))
  /\ Goto(t, CASE k \in {"intern", "unintern"} -> "try"
               [] k \in PackageKinds           -> "lock2"
               [] k = "export"                 -> "scan"
               [] OTHER                        -> "body")
  /\ UNCHANGED <<pkgVars, op, seen>>

\* use/unuse(x, p): the second lock, p's, taken while x's is held.
Lock2(t) ==
  /\ pc[t] = "lock2"
  /\ Acquire(t, op[t].p)
  /\ Goto(t, IF op[t].kind = "use" THEN "scan" ELSE "body")
  /\ UNCHANGED <<pkgVars, op, seen>>

\* TRY_AGAIN_LABEL of mkcl_intern: found anywhere, done; otherwise the
\* closed-package error, or the new symbol.
InternTry(t) ==
  LET name == op[t].a
      p == op[t].p
      none == Atomic!FindSymbolNolock(name, p).flag = "none"
  IN
  /\ pc[t] = "try"
  /\ op[t].kind = "intern"
  /\ \/ ~none /\ Finish(t) /\ UNCHANGED pkgVars
     \/ none /\ closed[p] /\ SignalClosed(t)
     \/ Atomic!Intern(name, p) /\ Finish(t)

\* TRY_AGAIN_LABEL of mkcl_unintern: not present, done; closed, the error;
\* a shadowing symbol whose removal would expose two inherited symbols,
\* the fatal error; otherwise removed.
UninternTry(t) ==
  LET s == op[t].a
      p == op[t].p
      name == SymbolName[s]
      present == internal[p][name] = s \/ external[p][name] = s
  IN
  /\ pc[t] = "try"
  /\ op[t].kind = "unintern"
  /\ \/ /\ \/ ~present
           \/ /\ present /\ ~closed[p] /\ s \in shadowings[p]
              /\ Cardinality(Atomic!Inherited(name, p)) > 1
        /\ Finish(t) /\ UNCHANGED pkgVars
     \/ present /\ closed[p] /\ SignalClosed(t)
     \/ Atomic!Unintern(s, p) /\ Finish(t)

\* The inner UNWIND_PROTECT exit takes the lock again; the handler either
\* continued (goto TRY_AGAIN_LABEL), which it may when "closed" is in
\* Continued, or is unwinding past the outer exit, which a handler may
\* always do.
Relock(t) ==
  /\ pc[t] = "relock"
  /\ Acquire(t, op[t].p)
  /\ \/ Atomic!Proceeds("closed") /\ Goto(t, "try")
     \/ Goto(t, "unwind")
  /\ UNCHANGED <<pkgVars, op, seen>>

\* The outer UNWIND_PROTECT exit of an aborted intern/unintern.
Unwind(t) ==
  /\ pc[t] = "unwind"
  /\ Finish(t)
  /\ UNCHANGED pkgVars

\* mkcl_export2 with p locked: the accessibility test and the scan of the
\* packages using p, whose tables are read without their locks.
ExportScan(t) ==
  LET s == op[t].a
      p == op[t].p
      found == Atomic!FindSymbolNolock(SymbolName[s], p)
      ok == /\ found.sym = s
            /\ found.flag \in {"internal", "inherited"}
            /\ ~Atomic!ExportConflict(s, p)
  IN
  /\ pc[t] = "scan"
  /\ op[t].kind = "export"
  /\ IF ok
       THEN /\ seen' = [seen EXCEPT ![t] = found.flag = "internal"]
            /\ Goto(t, "commit")
            /\ UNCHANGED <<owner, op>>
       ELSE Finish(t)
  /\ UNCHANGED pkgVars

\* mkcl_export2's remhash and sethash, then the unlock.
Commit(t) ==
  /\ pc[t] = "commit"
  /\ Atomic!ExportCommit(op[t].a, op[t].p, seen[t])
  /\ Finish(t)

\* mkcl_use_package with x and p locked: the scan, then the two conses; a
\* conflict is the fatal error.
UseScan(t) ==
  LET x == op[t].a
      p == op[t].p
  IN
  /\ pc[t] = "scan"
  /\ op[t].kind = "use"
  /\ \/ Atomic!UseConflict(x, p) /\ UNCHANGED pkgVars
     \/ Atomic!UseLocked(x, p)
  /\ Finish(t)

\* The locked body of unexport, import, shadowing-import, shadow and
\* unuse; an operation with nothing to do, or a fatal error, changes
\* nothing.
Body(t) ==
  /\ pc[t] = "body"
  /\ \/ BodyStep(op[t])
     \/ ~ENABLED BodyStep(op[t]) /\ UNCHANGED pkgVars
  /\ Finish(t)

\* mk_si_close_package / mk_si_reopen_package: no lock, any thread.
Close(p) == Atomic!ClosePackage(p) /\ UNCHANGED threadVars
Reopen(p) == Atomic!ReopenPackage(p) /\ UNCHANGED threadVars

Thread(t) ==
  \/ Start(t) \/ PreCheck(t) \/ Lock(t) \/ Lock2(t)
  \/ InternTry(t) \/ UninternTry(t) \/ Relock(t) \/ Unwind(t)
  \/ ExportScan(t) \/ Commit(t) \/ UseScan(t) \/ Body(t)

Init ==
  /\ Atomic!Init
  /\ owner = [p \in Packages |-> NoThread]
  /\ pc = [t \in Threads |-> "idle"]
  /\ op = [t \in Threads |-> NoOp]
  /\ seen = [t \in Threads |-> FALSE]

Next ==
  \/ \E t \in Threads : Thread(t)
  \/ \E p \in Packages : Close(p) \/ Reopen(p)

Spec == Init /\ [][Next]_vars

\* Every thread that can take its next step eventually takes it (the OS
\* schedules every runnable thread).  close/reopen are calls a user may
\* never make: no fairness.
FairSpec == Spec /\ \A t \in Threads : WF_vars(Thread(t))

-----------------------------------------------------------------------------
(***************************************************************************)
(* Properties                                                              *)
(***************************************************************************)

\* Refinement: every step of the threads that changes package state is one
\* whole operation of Packages, taken in a state where that operation's
\* guards hold; the lock protocol, the error unwinds with their unlock and
\* relock, and the restart loops add nothing else.  The mapping is the
\* identity on the package variables.
AtomicSpec == Atomic!Spec

\* I7 of Packages under concurrency: no name of a package has two different
\* candidate symbols unless a present shadowing symbol decides between
\* them.  export scans the packages that use it without their locks, and
\* commits later.
NoNameConflict == Atomic!NoNameConflict

\* The package whose lock t is blocked on, if any.
WaitsFor(t) ==
  CASE pc[t] = "lock"   -> FirstLock(op[t])
    [] pc[t] = "lock2"  -> op[t].p
    [] pc[t] = "relock" -> op[t].p
    [] OTHER            -> NoPackage

\* No two threads each wait for a lock the other holds: use-package and
\* unuse-package take their two locks in argument order (package.c,
\* "This has *deadlock* written all over it!"), and spec.md section 5
\* requires a total lock order instead.
NoCircularWait ==
  ~\E t, u \in Threads :
     /\ t # u
     /\ WaitsFor(t) # NoPackage /\ owner[WaitsFor(t)] = u
     /\ WaitsFor(u) # NoPackage /\ owner[WaitsFor(u)] = t

\* A package's use list, and its used-by list, never name a package twice:
\* mkcl_use_package tests membership before it locks and conses after.
UsesDistinct ==
  \A p \in Packages : IsInjective(uses[p]) /\ IsInjective(usedby[p])

\* Every call returns: the retry loops of intern and unintern, the waits
\* for locks and the error unwinds all end.
Termination ==
  \A t \in Threads : pc[t] # "idle" ~> pc[t] = "idle"

\* Nothing changes the tables, use list or shadowing list of a package that
\* is closed (spec.md I6), when no handler continues a closed-package
\* error.  The mutators read the closed flag before they lock, and close
\* takes no lock.
ClosedImmutable ==
  [][\A p \in Packages :
       closed[p] =>
         /\ external'[p] = external[p]
         /\ internal'[p] = internal[p]
         /\ uses'[p] = uses[p]
         /\ shadowings'[p] = shadowings[p]]_vars

====
