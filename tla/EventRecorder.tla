--------------------------- MODULE EventRecorder ---------------------------
(***************************************************************************)
(* The analytics buffer of one process (cb_core/events.py): record()       *)
(* appends, the timer and every full buffer start a flush, flushes take    *)
(* turns on a lock, stop() cancels the timer's and flushes once more.      *)
(* Events are told apart by nothing but their number.                      *)
(***************************************************************************)
EXTENDS Naturals, FiniteSets

CONSTANTS Flushes,   \* flushes that may be started by a full buffer at once
          Timer,     \* the flush of _run
          Last,      \* the flush of stop()
          MaxBatch,
          MaxRecorded

RecorderAssumption == Timer # Last /\ Last \notin Flushes

Flushers == Flushes \cup {Timer, Last}

VARIABLES buffer,    \* _buf
          stage,     \* where each flush is
          batch,     \* the events the one that holds the lock has taken
          stopping,
          recorded, written, dropped, \* events so far; dropped ones are logged
          cut        \* history: events a stop or a kill took from a flush or the buffer

recorderVars == <<buffer, stage, batch, stopping, recorded, written, dropped, cut>>

RecorderTyped ==
  /\ stage \in [Flushers -> {"off", "lock", "write"}]
  /\ stopping \in BOOLEAN
  /\ buffer \in Nat /\ batch \in Nat /\ cut \in Nat
  /\ recorded \in Nat /\ written \in Nat /\ dropped \in Nat

RecorderInit ==
  /\ buffer = 0 /\ batch = 0 /\ stopping = FALSE
  /\ stage = [f \in Flushers |-> "off"]
  /\ recorded = 0 /\ written = 0 /\ dropped = 0 /\ cut = 0

-----------------------------------------------------------------------------
StartFlush(f) == stage' = [stage EXCEPT ![f] = "lock"]

\* Never waits and never fails; handlers still run while the process stops.
Record ==
  /\ recorded < MaxRecorded
  /\ recorded' = recorded + 1 /\ buffer' = buffer + 1
  /\ IF buffer' >= MaxBatch THEN \E f \in Flushes : stage[f] = "off" /\ StartFlush(f) ELSE UNCHANGED stage
  /\ UNCHANGED <<batch, stopping, written, dropped, cut>>

Wake ==
  /\ ~stopping /\ stage[Timer] = "off"
  /\ StartFlush(Timer)
  /\ UNCHANGED <<buffer, batch, stopping, recorded, written, dropped, cut>>

\* Mutant of Taken: the flush copies the buffer and does not empty it.
Taken_Kept == buffer

\* Under the lock: nothing to do, or the whole buffer is taken before the
\* INSERT, so that what is recorded meanwhile waits for the next flush.
Taken == 0
Acquire(f) ==
  /\ stage[f] = "lock" /\ \A g \in Flushers : stage[g] # "write"
  /\ stage' = [stage EXCEPT ![f] = IF buffer = 0 THEN "off" ELSE "write"]
  /\ batch' = buffer /\ buffer' = Taken
  /\ UNCHANGED <<stopping, recorded, written, dropped, cut>>

\* The flush ends, with its rows written or counted in the log.
Ends(f) ==
  /\ stage[f] = "write"
  /\ stage' = [stage EXCEPT ![f] = "off"] /\ batch' = 0
  /\ \/ written' = written + batch /\ UNCHANGED dropped
     \/ dropped' = dropped + batch /\ UNCHANGED written
  /\ UNCHANGED <<buffer, stopping, recorded, cut>>

\* Cancelling the timer's task reaches into its flush, which has an except for
\* errors and none for that: its batch is in the table or it is nowhere.
Stop ==
  /\ ~stopping /\ stopping' = TRUE
  /\ stage' = [stage EXCEPT ![Timer] = "off", ![Last] = "lock"]
  /\ IF stage[Timer] = "write"
     THEN /\ batch' = 0
          /\ \/ written' = written + batch /\ UNCHANGED cut
             \/ cut' = cut + batch /\ UNCHANGED written
     ELSE UNCHANGED <<batch, written, cut>>
  /\ UNCHANGED <<buffer, recorded, dropped>>

\* The process is killed, and another starts in its place.
Kill ==
  /\ cut' = cut + buffer + batch
  /\ buffer' = 0 /\ batch' = 0 /\ stopping' = FALSE
  /\ stage' = [f \in Flushers |-> "off"]
  /\ UNCHANGED <<recorded, written, dropped>>

RecorderNext == Record \/ Wake \/ Stop \/ Kill \/ \E f \in Flushers : Acquire(f) \/ Ends(f)

RecorderSpec == RecorderInit /\ [][RecorderNext]_recorderVars

-----------------------------------------------------------------------------
\* Every event that was recorded is in the table, in the log's count of dropped
\* ones, still waiting, or was taken by a stop or a kill: overlapping flushes
\* neither lose one nor write it twice.
EventsAddUp == recorded = written + dropped + cut + buffer + batch
=============================================================================
