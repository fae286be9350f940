------------------------------ MODULE Breaker -------------------------------
(***************************************************************************)
(* The circuit breaker of cb_core/breaker.py as the LLM router uses it     *)
(* (llm/router.py): any number of calls of one process share one object,   *)
(* ask it before they start and tell it how they ended, with the time they *)
(* started at.  Every method is synchronous, so each is one step; the      *)
(* calls in between are not.                                               *)
(***************************************************************************)
EXTENDS Naturals

CONSTANTS Calls,       \* calls of the process
          Threshold,   \* consecutive failures that open it (5)
          Cooldown,    \* time until an open breaker is tried (30 s)
          MaxTime      \* bound: the last tick that is looked at

VARIABLES now,        \* time.monotonic()
          failures,   \* _failures
          openedAt,   \* _opened_at
          busy,       \* the calls at the provider
          began,      \* when each call started
          streak      \* history: failures recorded since the last success

breakerVars == <<now, failures, openedAt, busy, began, streak>>

BreakerTypeOK ==
  /\ now \in Nat /\ failures \in Nat /\ openedAt \in Nat /\ streak \in Nat
  /\ busy \subseteq Calls /\ began \in [Calls -> Nat]

BreakerInit ==
  /\ now = 0 /\ failures = 0 /\ openedAt = 0 /\ streak = 0
  /\ busy = {} /\ began = [c \in Calls |-> 0]

Open == failures >= Threshold
Cooled == now - openedAt >= Cooldown

Admit(c) == busy' = busy \cup {c} /\ began' = [began EXCEPT ![c] = now]
End(c) == busy' = busy \ {c} /\ UNCHANGED began

(* allow(): closed, or open long enough.  Half-open is a count just below  *)
(* the threshold, so whoever asks before the next answer passes as well.   *)
Allow(c) ==
  /\ c \notin busy
  /\ Open => Cooled
  /\ failures' = IF Open THEN Threshold - 1 ELSE failures
  /\ Admit(c)
  /\ UNCHANGED <<now, openedAt, streak>>

\* Mutant of Success: the count is left as it is.
Success_KeepsCount(c) ==
  /\ c \in busy
  /\ failures' = failures /\ streak' = 0
  /\ End(c)
  /\ UNCHANGED <<now, openedAt>>

Success(c) ==
  /\ c \in busy
  /\ failures' = 0 /\ streak' = 0
  /\ End(c)
  /\ UNCHANGED <<now, openedAt>>

(* record(False, now): complete() passes the now of the call's start.      *)
Failure(c) ==
  /\ c \in busy
  /\ failures' = failures + 1 /\ streak' = streak + 1
  /\ openedAt' = IF failures' >= Threshold THEN began[c] ELSE openedAt
  /\ End(c)
  /\ UNCHANGED now

Tick == now < MaxTime /\ now' = now + 1 /\ UNCHANGED <<failures, openedAt, busy, began, streak>>

BreakerNext ==
  \/ \E c \in Calls : Allow(c) \/ Success(c) \/ Failure(c)
  \/ Tick

BreakerSpec == BreakerInit /\ [][BreakerNext]_breakerVars

-----------------------------------------------------------------------------
(* An open breaker was earned: it counts no more failures than really came *)
(* in a row, however many calls were let through half-open and whichever   *)
(* order they end in.                                                      *)
Earned == failures <= streak

(* An open breaker is never waited on for longer than the cooldown: the    *)
(* time it opened at has passed.                                           *)
NotAhead ==
  /\ openedAt <= now
  /\ \A c \in busy : began[c] <= now
=============================================================================
