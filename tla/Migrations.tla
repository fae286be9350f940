----------------------------- MODULE Migrations -----------------------------
(***************************************************************************)
(* Schema convergence at start (cb_core/migrations.ensure_schema): every   *)
(* service compares the schema's revision with the one its code ships and, *)
(* when it is behind, upgrades it under a session-level advisory lock.     *)
(* Alembic runs in a thread with a connection of its own, in one           *)
(* transaction, so it goes on when the process that started it is          *)
(* cancelled or loses the session that holds the lock.  A migration job    *)
(* runs the alembic command line, which takes no lock.                     *)
(***************************************************************************)
EXTENDS Naturals

CONSTANTS Procs,       \* processes that start with CB_AUTO_MIGRATE=true
          Jobs,        \* runs of `alembic upgrade head`
          HeadOf,      \* the revision the code of each ships
          First,       \* the revision before any of them starts, 0 if empty
          Nothing

Runs == Procs \cup Jobs

MigrationAssumption ==
  /\ Procs \cap Jobs = {} /\ Nothing \notin Runs \cup Nat
  /\ HeadOf \in [Runs -> Nat \ {0}] /\ First \in Nat

VARIABLES revision, \* alembic_version
          holder,   \* whose session holds the advisory lock
          pc,       \* where each process is in ensure_schema
          begun,    \* the revision each running upgrade began at, or Nothing
          astray    \* history: processes whose upgrade went on without the lock

vars == <<revision, holder, pc, begun, astray>>

Stages == {"off", "waiting", "locked", "upgrading", "applied", "serving", "failed"}

TypeOK ==
  /\ revision \in Nat
  /\ holder \in Procs \cup {Nothing}
  /\ pc \in [Procs -> Stages]
  /\ begun \in [Runs -> Nat \cup {Nothing}]
  /\ astray \subseteq Procs

Init ==
  /\ revision = First
  /\ holder = Nothing
  /\ pc = [p \in Procs |-> "off"]
  /\ begun = [r \in Runs |-> Nothing]
  /\ astray = {}

To(p, stage) == pc' = [pc EXCEPT ![p] = stage]
LetGo(p) == holder' = IF holder = p THEN Nothing ELSE holder

-----------------------------------------------------------------------------
\* One query without the lock: the common case.
Start(p) ==
  /\ pc[p] = "off"
  /\ To(p, IF revision = HeadOf[p] THEN "serving" ELSE "waiting")
  /\ UNCHANGED <<revision, holder, begun, astray>>

\* Each service has a lock key of its own.
Lock_OwnKey(p) ==
  /\ pc[p] = "waiting"
  /\ holder' = p
  /\ To(p, "locked")
  /\ UNCHANGED <<revision, begun, astray>>

Lock(p) ==
  /\ pc[p] = "waiting" /\ holder = Nothing
  /\ holder' = p
  /\ To(p, "locked")
  /\ UNCHANGED <<revision, begun, astray>>

\* A process that waited in vain carries on.
LockTimeout_Serves(p) ==
  /\ pc[p] = "waiting"
  /\ To(p, "serving")
  /\ UNCHANGED <<revision, holder, begun, astray>>

\* migrate_lock_timeout is fatal.
LockTimeout(p) ==
  /\ pc[p] = "waiting"
  /\ To(p, "failed")
  /\ UNCHANGED <<revision, holder, begun, astray>>

\* A peer did the work while this process waited.
Converged(p) ==
  /\ pc[p] = "locked" /\ holder = p /\ revision = HeadOf[p]
  /\ To(p, "serving")
  /\ LetGo(p)
  /\ UNCHANGED <<revision, begun, astray>>

\* Alembic reads the revision in its own transaction.
Upgrade(p) ==
  /\ pc[p] = "locked" /\ holder = p /\ revision # HeadOf[p]
  /\ begun' = [begun EXCEPT ![p] = revision]
  /\ To(p, "upgrading")
  /\ UNCHANGED <<revision, holder, astray>>

\* The transaction commits if the revision is one this code knows and is still
\* the one it began at: the update of alembic_version names it.
Commit(r) ==
  /\ begun[r] # Nothing
  /\ begun[r] <= HeadOf[r] /\ revision = begun[r]
  /\ revision' = HeadOf[r]
  /\ begun' = [begun EXCEPT ![r] = Nothing]
  /\ pc' = [p \in Procs |-> IF p = r /\ pc[p] = "upgrading" THEN "applied" ELSE pc[p]]
  /\ UNCHANGED <<holder, astray>>

\* ... and is rolled back otherwise, or when the database fails.
RollBack(r) ==
  /\ begun[r] # Nothing
  /\ begun' = [begun EXCEPT ![r] = Nothing]
  /\ pc' = [p \in Procs |-> IF p = r /\ pc[p] = "upgrading" THEN "failed" ELSE pc[p]]
  /\ LetGo(r)
  /\ astray' = astray \ {r}
  /\ UNCHANGED revision

\* What was applied is read back, over the session that holds the lock.
Verify(p) ==
  /\ pc[p] = "applied" /\ holder = p
  /\ To(p, IF revision = HeadOf[p] THEN "serving" ELSE "failed")
  /\ LetGo(p)
  /\ UNCHANGED <<revision, begun, astray>>

\* The coroutine is cancelled, or raises as it does without its session; the thread, if any, goes on.
Cancel(p) ==
  /\ pc[p] \in {"waiting", "locked", "upgrading", "applied"}
  /\ To(p, "failed")
  /\ LetGo(p)
  /\ astray' = astray \cup {p}
  /\ UNCHANGED <<revision, begun>>

\* The session is lost: the lock goes with it, at once.
SessionLost(p) ==
  /\ holder = p
  /\ holder' = Nothing
  /\ astray' = astray \cup {p}
  /\ UNCHANGED <<revision, pc, begun>>

\* The process dies, with its thread; it may be started again.
Crash(p) ==
  /\ pc[p] # "off"
  /\ To(p, "off")
  /\ LetGo(p)
  /\ begun' = [begun EXCEPT ![p] = Nothing]
  /\ astray' = astray \ {p}
  /\ UNCHANGED revision

\* `alembic upgrade head` from the command line or a job.
RunJob(j) ==
  /\ begun[j] = Nothing
  /\ begun' = [begun EXCEPT ![j] = revision]
  /\ UNCHANGED <<revision, holder, pc, astray>>

Next ==
  \/ \E p \in Procs :
       \/ Start(p) \/ Lock(p) \/ LockTimeout(p) \/ Converged(p) \/ Upgrade(p)
       \/ Verify(p) \/ Cancel(p) \/ SessionLost(p) \/ Crash(p)
  \/ \E r \in Runs : Commit(r) \/ RollBack(r)
  \/ \E j \in Jobs : RunJob(j)

Spec == Init /\ [][Next]_vars

-----------------------------------------------------------------------------
\* A process never serves on a schema older than its code, whatever raced it
\* to the upgrade and whoever died on the way (migrations.py).
ServesAtHead == \A p \in Procs : pc[p] = "serving" => revision >= HeadOf[p]

\* Two processes never run the upgrade at once, unless one of them was cancelled
\* or lost its session while its thread went on (migrations.py, "Safe with N
\* replicas").
OneLockedUpgrade ==
  \A p, q \in Procs \ astray : begun[p] # Nothing /\ begun[q] # Nothing => p = q

\* The same without that condition, and of the jobs too.
OneUpgrade == \A r, s \in Runs : begun[r] # Nothing /\ begun[s] # Nothing => r = s
=============================================================================
