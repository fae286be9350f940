---------------------------- MODULE ConfigCache ----------------------------
(***************************************************************************)
(* The configuration of one group as every service sees it:                *)
(* cb_core/group_config.py over Valkey and Postgres.  A configuration is   *)
(* the number of changes that made it, DEFAULTS none.  Its callers read it *)
(* (updates, jobs, endpoints) or change it, and read it first, as the      *)
(* /config menu and PATCH /groups/{id}/config do.                          *)
(*                                                                         *)
(* L1 is a dictionary in each process, L2 one Valkey key, and group_configs*)
(* the truth.  A read falls through the three; a write upserts the row,    *)
(* drops L1 here, deletes L2 and publishes, and every process that listens *)
(* drops its L1 when the message reaches it.  Every await is a place where *)
(* the other tasks run.  The 30 s and 900 s of the two layers are only     *)
(* that a copy may expire at any moment.                                   *)
(***************************************************************************)
EXTENDS Naturals, FiniteSets

CONSTANTS
  Processes,   \* gateway replicas, the worker, the API
  Listeners,   \* those that run start_invalidation_listener: the gateways
  Tasks,       \* requests, updates and jobs using the configuration at once
  None,        \* no copy
  MaxWrites    \* bound: set_config calls

ASSUME ConfigAssumptions ==
  /\ Listeners \subseteq Processes
  /\ MaxWrites \in Nat
ASSUME TasksAreFinite == IsFiniteSet(Tasks)

VARIABLES
  db,         \* the row of group_configs
  l2,         \* the copy under cb:groupconfig:<id>
  l1,         \* the copy in each process
  inbox,      \* invalidations published and not yet seen by each process
  listening,  \* processes whose subscription is alive
  task,       \* what each task is doing, in which process, with which copies
  misread,    \* ghost: has a set_config returned something older than its write
  calm        \* ghost: nothing has failed and no change has met another task

store  == <<db, l2, l1, inbox, listening>>
vars   == <<store, task, misread, calm>>

-----------------------------------------------------------------------------
Config == 0 .. MaxWrites

ASSUME NoneIsNoConfig == None \notin Config

DEFAULTS == 0

Idle == [pc |-> "idle"]

Labels == {"lookup", "l2", "hit", "db", "fill", "put", "save", "drop", "clear", "publish"}

(* writer: it is there to change the configuration; wrote: the row this    *)
(* task upserted, None before that.                                        *)
Task == {Idle} \cup
  [pc : Labels, at : Processes, got : Config \cup {None}, writer : BOOLEAN,
   wrote : Config \cup {None}]

TypeOK ==
  /\ db \in Config
  /\ l2 \in Config \cup {None}
  /\ l1 \in [Processes -> Config \cup {None}]
  /\ inbox \in [Processes -> 0 .. MaxWrites]
  /\ listening \subseteq Listeners
  /\ task \in [Tasks -> Task]
  /\ misread \in BOOLEAN
  /\ calm \in BOOLEAN

Init ==
  /\ db = DEFAULTS
  /\ l2 = None
  /\ l1 = [p \in Processes |-> None]
  /\ inbox = [p \in Processes |-> 0]
  /\ listening = Listeners
  /\ task = [t \in Tasks |-> Idle]
  /\ misread = FALSE
  /\ calm = TRUE

Busy(t) == task[t] # Idle

Writer(t) == Busy(t) /\ task[t].writer

At(t, l) == task[t].pc = l

Goto(t, l) == task' = [task EXCEPT ![t].pc = l]

\* A call succeeds; or it raises, which is caught, and the calm is over.
Works == UNCHANGED calm
Fails == calm' = FALSE

-----------------------------------------------------------------------------
(* A handler, a job or an endpoint calls get_config; or the menu or the    *)
(* API begins a change, whose first step is the same read.                 *)
Begin(t, p, w) ==
  /\ ~ Busy(t)
  /\ task' = [task EXCEPT ![t] =
       [pc |-> "lookup", at |-> p, got |-> None, writer |-> w, wrote |-> None]]
  /\ calm' = (calm /\ \A k \in Tasks : ~ (IF w THEN Busy(k) ELSE Writer(k)))
  /\ UNCHANGED <<store, misread>>

(* get_config returns c: to a mere reader; to a change about to be saved;  *)
(* or as the result of set_config.                                         *)
Return(t, c) ==
  LET me == task[t] IN
  /\ task' = [task EXCEPT ![t] =
       IF me.writer /\ me.wrote = None THEN [me EXCEPT !.pc = "save", !.got = None]
       ELSE Idle]
  /\ misread' = (misread \/ (me.wrote # None /\ c < me.wrote))

LookupL1(t) ==
  /\ At(t, "lookup")
  /\ LET copy == l1[task[t].at] IN
       IF copy # None THEN Return(t, copy)
       ELSE Goto(t, "l2") /\ UNCHANGED misread
  /\ UNCHANGED <<store, calm>>

(* _l2_get: an outage is a miss.                                           *)
ReadL2(t) ==
  /\ At(t, "l2")
  /\ \E c \in {l2, None} :
       /\ task' = [task EXCEPT ![t].got = c, ![t].pc = IF c = None THEN "db" ELSE "hit"]
       /\ IF c = l2 THEN Works ELSE Fails
  /\ UNCHANGED <<store, misread>>

(* The row is read and merged over the defaults.                           *)
ReadRow(t) ==
  /\ At(t, "db")
  /\ task' = [task EXCEPT ![t].got = db, ![t].pc = "fill"]
  /\ UNCHANGED <<store, misread, calm>>

(* The database failed: DEFAULTS is served and nothing is cached.          *)
FallBack(t) ==
  /\ At(t, "db")
  /\ Return(t, DEFAULTS)
  /\ Fails
  /\ UNCHANGED store

(* The answer reaches the task: L1 is filled with it; a copy of the row is *)
(* then written to L2 as well.                                             *)
FillL1(t) ==
  /\ task[t].pc \in {"hit", "fill"}
  /\ l1' = [l1 EXCEPT ![task[t].at] = task[t].got]
  /\ IF At(t, "hit") THEN Return(t, task[t].got)
     ELSE Goto(t, "put") /\ UNCHANGED misread
  /\ UNCHANGED <<db, l2, inbox, listening, calm>>

FillL2(t) ==
  /\ At(t, "put")
  /\ \/ l2' = task[t].got /\ Works
     \/ UNCHANGED l2 /\ Fails
  /\ Return(t, task[t].got)
  /\ UNCHANGED <<db, l1, inbox, listening>>

-----------------------------------------------------------------------------
(* set_config's upsert, with groups.ensure and its retry in it.            *)
Save(t) ==
  /\ At(t, "save")
  /\ db < MaxWrites
  /\ db' = db + 1
  /\ task' = [task EXCEPT ![t].pc = "drop", ![t].wrote = db']
  /\ UNCHANGED <<l2, l1, inbox, listening, misread, calm>>

(* The upsert raises, and with it set_config: nothing is written.          *)
SaveFails(t) ==
  /\ At(t, "save")
  /\ task' = [task EXCEPT ![t] = Idle]
  /\ UNCHANGED <<store, misread, calm>>

(* An invalidate() that leaves its own L1 to the subscription.             *)
DropL1_LeftToPubsub(t) ==
  /\ At(t, "drop")
  /\ Goto(t, "clear")
  /\ UNCHANGED <<store, misread, calm>>

(* invalidate: L1 here, ...                                                *)
DropL1(t) ==
  /\ At(t, "drop")
  /\ l1' = [l1 EXCEPT ![task[t].at] = None]
  /\ Goto(t, "clear")
  /\ UNCHANGED <<db, l2, inbox, listening, misread, calm>>

(* ... L2, ...                                                             *)
ClearL2(t) ==
  /\ At(t, "clear")
  /\ \/ l2' = None /\ Works
     \/ UNCHANGED l2 /\ Fails
  /\ Goto(t, "publish")
  /\ UNCHANGED <<db, l1, inbox, listening, misread>>

(* An invalidate() that never publishes.                                   *)
Publish_Silent(t) ==
  /\ At(t, "publish")
  /\ Goto(t, "lookup")
  /\ UNCHANGED <<store, misread, calm>>

(* One message from invalidate() and another from its caller.              *)
Publish_Twice(t) ==
  /\ At(t, "publish")
  /\ inbox' = [p \in Processes |-> inbox[p] + (IF p \in listening THEN 2 ELSE 0)]
  /\ Goto(t, "lookup")
  /\ UNCHANGED <<db, l2, l1, listening, misread, calm>>

(* ... and every process that is subscribed.                               *)
Publish(t) ==
  /\ At(t, "publish")
  /\ \/ inbox' = [p \in Processes |-> inbox[p] + (IF p \in listening THEN 1 ELSE 0)] /\ Works
     \/ UNCHANGED inbox /\ Fails
  /\ Goto(t, "lookup")
  /\ UNCHANGED <<db, l2, l1, listening, misread>>

(* _pump hands a message to _on_invalidate_key.                            *)
Deliver(p) ==
  /\ inbox[p] > 0
  /\ inbox' = [inbox EXCEPT ![p] = @ - 1]
  /\ l1' = [l1 EXCEPT ![p] = None]
  /\ UNCHANGED <<db, l2, listening, task, misread, calm>>

-----------------------------------------------------------------------------
(* An L1 that trusts the subscription and keeps its copy for ever.         *)
ExpireL1_Never(p) == FALSE /\ UNCHANGED vars

(* A copy outlives its TTL: _l1_get drops it; Valkey drops the key.        *)
ExpireL1(p) ==
  /\ l1[p] # None
  /\ l1' = [l1 EXCEPT ![p] = None]
  /\ UNCHANGED <<db, l2, inbox, listening, task, misread, calm>>

ExpireL2 ==
  /\ l2 # None
  /\ l2' = None
  /\ UNCHANGED <<db, l1, inbox, listening, task, misread, calm>>

(* _pump ends on an exception and is not started again: TTL only.          *)
PumpDies(p) ==
  /\ Fails
  /\ p \in listening
  /\ listening' = listening \ {p}
  /\ inbox' = [inbox EXCEPT ![p] = 0]
  /\ UNCHANGED <<db, l2, l1, task, misread>>

(* A process dies with the tasks it was serving, and comes back empty.     *)
Restart(p) ==
  /\ Fails
  /\ l1' = [l1 EXCEPT ![p] = None]
  /\ inbox' = [inbox EXCEPT ![p] = 0]
  /\ listening' = listening \cup (Listeners \cap {p})
  /\ task' = [t \in Tasks |-> IF Busy(t) /\ task[t].at = p THEN Idle ELSE task[t]]
  /\ UNCHANGED <<db, l2, misread>>

Step(t) ==
  \/ LookupL1(t) \/ ReadL2(t) \/ ReadRow(t) \/ FallBack(t) \/ FillL1(t) \/ FillL2(t)
  \/ Save(t) \/ SaveFails(t) \/ DropL1(t) \/ ClearL2(t) \/ Publish(t)

Next ==
  \/ \E t \in Tasks, p \in Processes, w \in BOOLEAN : Begin(t, p, w)
  \/ \E t \in Tasks : Step(t)
  \/ \E p \in Processes : Deliver(p) \/ ExpireL1(p) \/ PumpDies(p) \/ Restart(p)
  \/ ExpireL2

Spec == Init /\ [][Next]_vars

(* Every await ends in an answer or an exception, a live subscription is   *)
(* pumped, and clocks run.                                                 *)
Fairness ==
  /\ \A t \in Tasks : WF_vars(Step(t))
  /\ \A p \in Processes : WF_vars(Deliver(p)) /\ WF_vars(ExpireL1(p))
  /\ WF_vars(ExpireL2)

FairSpec == Spec /\ Fairness

-----------------------------------------------------------------------------
Current(copy) == copy \in {None, db}

\* No task is at work and every published invalidation has been handled.
Quiet == (\A t \in Tasks : ~ Busy(t)) /\ (\A p \in Processes : inbox[p] = 0)

(* "A write goes through set_config, which upserts then invalidates L2 and *)
(* publishes" (group_config.py:15-17): once a change has run its course,   *)
(* neither Valkey nor a listening replica still holds an older copy.  Only *)
(* a failure, or a read that is between the row and the caches when the    *)
(* change commits, leaves the old copy behind.  Processes that never       *)
(* listen (the worker, the API) are not promised anything here.            *)
InvalidateReaches ==
  calm /\ Quiet => Current(l2) /\ \A p \in listening : Current(l1[p])

(* What set_config returns, which the menu shows the admin and the audit   *)
(* row quotes, is never older than what it has just written, again unless  *)
(* something fails or another task meets the change.                       *)
OwnWriteReturned == calm => ~ misread

(* Read your writes, and let the others read them (group_config.py).       *)
WriteIsSeen == TypeOK /\ InvalidateReaches /\ OwnWriteReturned

(* "Bounded staleness even with no invalidation message"                   *)
(* (docs/contracts/group-config.md:185): when the writes have stopped,     *)
(* whatever was lost or raced, every copy is eventually and for good the   *)
(* current one.                                                            *)
Coherent == <>[](Current(l2) /\ \A p \in Processes : Current(l1[p]))

=============================================================================
