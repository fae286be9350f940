-------------------------- MODULE ConfigCacheProofs -------------------------
(***************************************************************************)
(* Proofs about ConfigCache, for any processes, tasks and changes.         *)
(***************************************************************************)
EXTENDS ConfigCache, FiniteSetTheorems, TLAPS

(* The inductive invariant.  What a task holds and where it stands:        *)
Changing    == {"drop", "clear", "publish"}
Unpublished == {t \in Tasks : task[t].pc \in Changing}

Sound(r) ==
  /\ r.wrote # None => r.writer
  /\ r.pc \in {"save", "drop", "clear", "publish"} => r.writer /\ r.got = None
  /\ r.pc \in Changing => r.wrote # None
  /\ r.pc = "save" => r.wrote = None
  /\ r.pc \in {"hit", "fill", "put"} => r.got # None

TasksSound == \A t \in Tasks : Busy(t) => Sound(task[t])

\* Each change is published once at most.
Counted == \A p \in Processes : inbox[p] + Cardinality(Unpublished) <= db

\* As long as nothing has failed and no change has met another task, a change
\* runs alone, nobody holds an old copy to put into a cache, and an old copy is
\* in a cache only while the change that clears it, or its message, is under way.
Alone    == \A t, k \in Tasks : Writer(t) /\ Busy(k) => t = k
Fresh(t) ==
  /\ task[t].got \in {None, db} /\ task[t].wrote \in {None, db}
  /\ task[t].wrote # None /\ ~At(t, "drop") => Current(l1[task[t].at])
L2Fresh  == Current(l2) \/ \E t \in Tasks : task[t].pc \in {"drop", "clear"}
L1Fresh  ==
  \A p \in listening : Current(l1[p]) \/ inbox[p] > 0 \/ \E t \in Tasks : task[t].pc \in Changing

AllFresh == Alone /\ (\A t \in Tasks : Busy(t) => Fresh(t)) /\ L2Fresh /\ L1Fresh /\ ~misread

Inv == TypeOK /\ TasksSound /\ Counted /\ (calm => AllFresh)

-----------------------------------------------------------------------------
(* The tasks.                                                              *)
Doing ==
  [pc : Labels, at : Processes, got : Config \cup {None}, writer : BOOLEAN,
   wrote : Config \cup {None}]

LEMMA TaskShape ==
  ASSUME TypeOK, NEW t \in Tasks
  PROVE  /\ Busy(t) <=> task[t] \in Doing
         /\ Busy(t) <=> task[t].pc # "idle"
         /\ ~Busy(t) => task[t].pc = "idle"
<1>1. task[t] \in {Idle} \cup Doing
  BY DEF TypeOK, Task, Doing
<1>2. QED
  BY <1>1 DEF Busy, Idle, Doing, Labels

\* A task goes on as r.
LEMMA TaskMoves ==
  ASSUME TypeOK, NEW t \in Tasks, NEW r \in Doing \cup {Idle}, task' = [task EXCEPT ![t] = r]
  PROVE  /\ task' \in [Tasks -> Task]
         /\ task'[t] = r
         /\ \A k \in Tasks \ {t} : task'[k] = task[k] /\ (Busy(k)' <=> Busy(k))
         /\ Busy(t)' <=> r # Idle
BY DEF TypeOK, Task, Doing, Busy

\* A step that only moves a task on from one label to another.
LEMMA GotoMoves ==
  ASSUME TypeOK, NEW t \in Tasks, Busy(t), NEW l \in Labels, Goto(t, l)
  PROVE  \E r \in Doing :
           /\ task' = [task EXCEPT ![t] = r]
           /\ r.pc = l /\ r.at = task[t].at /\ r.got = task[t].got
           /\ r.writer = task[t].writer /\ r.wrote = task[t].wrote
<1> DEFINE r == [task[t] EXCEPT !.pc = l]
<1>1. task[t] \in Doing
  BY TaskShape
<1>2. r \in Doing /\ r.pc = l /\ r.at = task[t].at /\ r.got = task[t].got
      /\ r.writer = task[t].writer /\ r.wrote = task[t].wrote
  BY <1>1 DEF Doing
<1>3. task' = [task EXCEPT ![t] = r]
  BY DEF Goto, TypeOK
<1> HIDE DEF r
<1>4. QED
  BY <1>2, <1>3

\* A read, or a whole set_config, is answered with a configuration.
LEMMA ReturnMoves ==
  ASSUME TypeOK, NEW t \in Tasks, Busy(t), NEW c, Return(t, c)
  PROVE  \E r \in Doing \cup {Idle} :
           /\ task' = [task EXCEPT ![t] = r]
           /\ r # Idle => /\ r.pc = "save" /\ r.at = task[t].at /\ r.got = None
                          /\ r.writer /\ r.wrote = None
                          /\ task[t].writer /\ task[t].wrote = None
<1>1. task[t] \in Doing
  BY TaskShape
<1>2. CASE task[t].writer /\ task[t].wrote = None
  <2> DEFINE r == [[task[t] EXCEPT !.pc = "save"] EXCEPT !.got = None]
  <2>1. [task[t] EXCEPT !.pc = "save"] \in Doing
    BY <1>1 DEF Doing, Labels
  <2>2. r \in Doing /\ r.pc = "save" /\ r.at = task[t].at /\ r.got = None
        /\ r.writer = task[t].writer /\ r.wrote = task[t].wrote
    BY <2>1, <1>1 DEF Doing
  <2>3. task' = [task EXCEPT ![t] = [task[t] EXCEPT !.pc = "save", !.got = None]]
    BY <1>2 DEF Return
  <2>4. [task[t] EXCEPT !.pc = "save", !.got = None] = r
    BY <1>1 DEF Doing
  <2> HIDE DEF r
  <2>5. QED
    BY <1>2, <2>2, <2>3, <2>4
<1>3. CASE ~(task[t].writer /\ task[t].wrote = None)
  <2>1. task' = [task EXCEPT ![t] = Idle]
    BY <1>3 DEF Return
  <2>2. QED
    BY <2>1
<1>4. QED
  BY <1>2, <1>3

-----------------------------------------------------------------------------
(* The changes that are not yet published are finitely many.               *)
LEMMA Countable ==
  /\ IsFiniteSet(Unpublished) /\ Cardinality(Unpublished) \in Nat
  /\ IsFiniteSet(Unpublished)' /\ Cardinality(Unpublished)' \in Nat
<1>1. Unpublished \subseteq Tasks /\ Unpublished' \subseteq Tasks
  BY DEF Unpublished
<1>2. IsFiniteSet(Unpublished) /\ IsFiniteSet(Unpublished')
  BY <1>1, TasksAreFinite, FS_Subset
<1>3. QED
  BY <1>2, FS_CardinalityType

\* The messages of the changes so far are at most as many as they were.
LEMMA InboxTyped ==
  ASSUME db' \in Config, inbox' \in [Processes -> Nat], Counted'
  PROVE  inbox' \in [Processes -> 0 .. MaxWrites]
<1>1. ASSUME NEW p \in Processes PROVE inbox'[p] \in 0 .. MaxWrites
  <2>1. inbox'[p] \in Nat /\ inbox'[p] + Cardinality(Unpublished)' <= db'
    BY <1>1 DEF Counted
  <2>2. db' \in Nat /\ db' <= MaxWrites /\ MaxWrites \in Nat
    BY ConfigAssumptions DEF Config
  <2>3. QED
    BY <2>1, <2>2, Countable
<1>2. QED
  BY <1>1

(* The steps of a read: they put nothing older than the row into a cache   *)
(* and leave the changes where they are.                                   *)
LEMMA ReadStep ==
  ASSUME Inv, NEW t \in Tasks, Busy(t), task[t].pc \notin Changing,
         NEW r \in Doing \cup {Idle}, task' = [task EXCEPT ![t] = r],
         r # Idle => /\ Sound(r) /\ r.pc \notin Changing
                     /\ r.writer = task[t].writer /\ r.at = task[t].at /\ r.wrote = task[t].wrote,
         UNCHANGED <<db, inbox, listening>>,
         l1' \in [Processes -> Config \cup {None}], l2' \in Config \cup {None},
         misread' \in BOOLEAN, calm' \in BOOLEAN, calm' => calm,
         calm' => /\ r # Idle => r.got \in {None, db}
                  /\ \A p \in Processes : l1'[p] \in {l1[p], db}
                  /\ l2' \in {l2, db}
                  /\ ~misread'
  PROVE  Inv'
<1>1. /\ task' \in [Tasks -> Task] /\ task'[t] = r /\ (Busy(t)' <=> r # Idle)
      /\ \A k \in Tasks \ {t} : task'[k] = task[k] /\ (Busy(k)' <=> Busy(k))
  BY TaskMoves DEF Inv
<1>2. task'[t].pc \notin Changing
  BY <1>1 DEF Idle, Changing
<1>3. TypeOK'
  BY <1>1 DEF Inv, TypeOK
<1>4. TasksSound'
  BY <1>1 DEF Inv, TasksSound
<1>5. Counted'
  <2>1. Unpublished' = Unpublished
    BY <1>1, <1>2 DEF Unpublished
  <2>2. QED
    BY <2>1 DEF Inv, Counted
<1>6. ASSUME calm' PROVE AllFresh'
  <2>1. AllFresh
    BY <1>6 DEF Inv
  <2>2. Alone'
    BY <1>1, <2>1 DEF AllFresh, Alone, Writer
  <2>3. ASSUME NEW k \in Tasks, Busy(k)' PROVE Fresh(k)'
    <3>1. Fresh(k) /\ task[k].at \in Processes /\ task'[k].at = task[k].at
          /\ task'[k].wrote = task[k].wrote
      BY <1>1, <2>1, <2>3, TaskShape DEF Inv, AllFresh, Doing
    <3>2. task'[k].got \in {None, db}
      BY <1>1, <1>6, <2>3, <3>1 DEF Fresh
    <3>3. task'[k].wrote # None /\ task'[k].pc # "drop" => Current(l1[task[k].at])
      BY <1>1, <2>3, <3>1 DEF Fresh, At, Changing
    <3>4. QED
      BY <1>6, <3>1, <3>2, <3>3 DEF Fresh, At, Current
  <2>4. L2Fresh'
    BY <1>1, <1>6, <2>1 DEF AllFresh, L2Fresh, Current, Changing
  <2>5. L1Fresh'
    <3>1. listening \subseteq Processes
      BY ConfigAssumptions DEF Inv, TypeOK
    <3>2. QED
      BY <1>1, <1>6, <2>1, <3>1 DEF AllFresh, L1Fresh, Current, Changing
  <2>6. QED
    BY <1>6, <2>2, <2>3, <2>4, <2>5 DEF AllFresh
<1>7. QED
  BY <1>3, <1>4, <1>5, <1>6 DEF Inv

\* A configuration is returned that is not older than the task's own change.
LEMMA NoMisread ==
  ASSUME Inv, NEW t \in Tasks, Busy(t), NEW c \in Config, Return(t, c)
  PROVE  /\ misread' \in BOOLEAN
         /\ calm /\ (task[t].wrote # None => c = db) => ~misread'
<1>1. misread \in BOOLEAN /\ misread' = (misread \/ (task[t].wrote # None /\ c < task[t].wrote))
  BY DEF Return, Inv, TypeOK
<1>2. calm => ~misread /\ task[t].wrote \in {None, db}
  BY DEF Inv, AllFresh, Fresh
<1>3. db \in Nat
  BY DEF Inv, TypeOK, Config
<1>4. QED
  BY <1>1, <1>2, <1>3

LEMMA ReadsInv ==
  ASSUME Inv, NEW t \in Tasks,
         LookupL1(t) \/ ReadL2(t) \/ ReadRow(t) \/ FallBack(t) \/ FillL1(t) \/ FillL2(t) \/ SaveFails(t)
  PROVE  Inv'
<1> USE DEF At
<1>1. Busy(t) /\ task[t].pc \notin Changing
  BY TaskShape DEF Inv, LookupL1, ReadL2, ReadRow, FallBack, FillL1, FillL2, SaveFails, Changing
<1>2. task[t] \in Doing /\ Sound(task[t])
  BY <1>1, TaskShape DEF Inv, TasksSound
<1>3. /\ db \in Config /\ l2 \in Config \cup {None} /\ l1 \in [Processes -> Config \cup {None}]
      /\ misread \in BOOLEAN /\ calm \in BOOLEAN
      /\ calm => AllFresh /\ Fresh(t)
  BY <1>1 DEF Inv, TypeOK, AllFresh
\* What a return does, when the configuration is the row's or none is compared.
<1>4. ASSUME NEW c \in Config, Return(t, c),
             UNCHANGED <<db, inbox, listening>>,
             l1' \in [Processes -> Config \cup {None}], l2' \in Config \cup {None},
             calm' \in BOOLEAN, calm' => calm,
             calm' => /\ \A p \in Processes : l1'[p] \in {l1[p], db}
                      /\ l2' \in {l2, db}
                      /\ task[t].wrote # None => c = db
      PROVE  Inv'
  <2>1. PICK r \in Doing \cup {Idle} :
           /\ task' = [task EXCEPT ![t] = r]
           /\ r # Idle => /\ r.pc = "save" /\ r.at = task[t].at /\ r.got = None
                          /\ r.writer /\ r.wrote = None
                          /\ task[t].writer /\ task[t].wrote = None
    BY <1>1, <1>4, ReturnMoves DEF Inv
  <2>2. r # Idle => Sound(r) /\ r.pc \notin Changing
    BY <2>1 DEF Sound, Changing
  <2>3. r # Idle => r.writer = task[t].writer /\ r.wrote = task[t].wrote
    BY <1>2, <2>1 DEF Doing
  <2>4. misread' \in BOOLEAN /\ (calm' => ~misread')
    BY <1>1, <1>4, NoMisread
  <2>5. QED
    BY <1>1, <1>4, <2>1, <2>2, <2>3, <2>4, ReadStep
<1>5. CASE LookupL1(t)
  <2>1. task[t].at \in Processes
    BY <1>2 DEF Doing
  <2>2. CASE l1[task[t].at] # None
    <3>1. PICK c \in Config : c = l1[task[t].at] /\ Return(t, c)
      BY <1>3, <1>5, <2>1, <2>2 DEF LookupL1
    <3>2. calm /\ task[t].wrote # None => c = db
      BY <1>3, <1>5, <2>2, <3>1 DEF LookupL1, Fresh, Current
    <3>3. UNCHANGED <<db, l1, l2, inbox, listening, calm>>
      BY <1>5 DEF LookupL1, store
    <3>4. QED
      BY <1>3, <1>4, <3>1, <3>2, <3>3
  <2>3. CASE l1[task[t].at] = None
    <3>1. Goto(t, "l2") /\ UNCHANGED <<db, l1, l2, inbox, listening, misread, calm>>
      BY <1>5, <2>3 DEF LookupL1, store
    <3>2. PICK r \in Doing :
           /\ task' = [task EXCEPT ![t] = r]
           /\ r.pc = "l2" /\ r.at = task[t].at /\ r.got = task[t].got
           /\ r.writer = task[t].writer /\ r.wrote = task[t].wrote
      BY <1>1, <3>1, GotoMoves DEF Inv, Labels
    <3>3. Sound(r) /\ r.pc \notin Changing
      BY <1>2, <3>2 DEF Sound, Changing
    <3>4. calm => r.got \in {None, db} /\ ~misread
      BY <1>3, <3>2 DEF Fresh, AllFresh
    <3>5. QED
      BY <1>1, <1>3, <3>1, <3>2, <3>3, <3>4, ReadStep
  <2>4. QED
    BY <2>2, <2>3
<1>6. CASE ReadL2(t)
  <2>1. PICK c \in {l2, None} :
          /\ task' = [task EXCEPT ![t].got = c, ![t].pc = IF c = None THEN "db" ELSE "hit"]
          /\ IF c = l2 THEN Works ELSE Fails
    BY <1>6 DEF ReadL2
  <2>2. PICK l \in {"db", "hit"} : l = (IF c = None THEN "db" ELSE "hit")
    OBVIOUS
  <2> DEFINE r == [[task[t] EXCEPT !.got = c] EXCEPT !.pc = l]
  <2>3. task' = [task EXCEPT ![t] = [task[t] EXCEPT !.got = c, !.pc = l]]
    BY <2>1, <2>2
  <2>4. [task[t] EXCEPT !.got = c] \in Doing
    BY <1>2, <1>3 DEF Doing
  <2>5. /\ r \in Doing /\ r.pc = l /\ r.got = c /\ r.at = task[t].at
        /\ r.writer = task[t].writer /\ r.wrote = task[t].wrote
    BY <1>2, <2>4 DEF Doing, Labels
  <2>6. [task[t] EXCEPT !.got = c, !.pc = l] = r
    BY <1>2 DEF Doing
  <2> HIDE DEF r
  <2>7. UNCHANGED <<db, l1, l2, inbox, listening, misread>> /\ calm' \in BOOLEAN
        /\ (calm' => calm)
    BY <1>3, <1>6, <2>1 DEF ReadL2, store, Works, Fails
  <2>8. Sound(r) /\ r.pc \notin Changing
    BY <1>2, <2>2, <2>5 DEF Sound, Changing
  <2>9. ASSUME calm' PROVE r.got \in {None, db} /\ ~misread
    <3>1. AllFresh /\ \A k \in Tasks : task[k].pc \in {"drop", "clear"} => Writer(k)
      BY <1>3, <2>7, <2>9, TaskShape DEF Inv, TasksSound, Sound, Writer
    <3>2. Current(l2)
      BY <1>1, <1>6, <3>1 DEF AllFresh, L2Fresh, Alone, ReadL2
    <3>3. QED
      BY <2>5, <3>1, <3>2 DEF AllFresh, Current
  <2>10. QED
    BY <1>1, <1>3, <2>3, <2>5, <2>6, <2>7, <2>8, <2>9, ReadStep
<1>7. CASE ReadRow(t)
  <2> DEFINE r == [[task[t] EXCEPT !.got = db] EXCEPT !.pc = "fill"]
  <2>1. /\ task' = [task EXCEPT ![t] = [task[t] EXCEPT !.got = db, !.pc = "fill"]]
        /\ UNCHANGED <<db, l1, l2, inbox, listening, misread, calm>>
    BY <1>7 DEF ReadRow, store
  <2>2. [task[t] EXCEPT !.got = db] \in Doing
    BY <1>2, <1>3 DEF Doing
  <2>3. /\ r \in Doing /\ r.pc = "fill" /\ r.got = db /\ r.at = task[t].at
        /\ r.writer = task[t].writer /\ r.wrote = task[t].wrote
    BY <1>2, <2>2 DEF Doing, Labels
  <2>4. [task[t] EXCEPT !.got = db, !.pc = "fill"] = r
    BY <1>2 DEF Doing
  <2> HIDE DEF r
  <2>5. Sound(r) /\ r.pc \notin Changing
    BY <1>2, <1>3, <2>3, NoneIsNoConfig DEF Sound, Changing
  <2>6. calm => ~misread
    BY <1>3 DEF AllFresh
  <2>7. QED
    BY <1>1, <1>3, <2>1, <2>3, <2>4, <2>5, <2>6, ReadStep
<1>8. CASE FallBack(t)
  <2>1. /\ Return(t, DEFAULTS) /\ calm' = FALSE /\ UNCHANGED <<db, l1, l2, inbox, listening>>
    BY <1>8 DEF FallBack, Fails, store
  <2>2. DEFAULTS \in Config
    BY ConfigAssumptions DEF DEFAULTS, Config
  <2>3. QED
    BY <1>3, <1>4, <2>1, <2>2
<1>9. CASE FillL1(t)
  <2>1. /\ l1' = [l1 EXCEPT ![task[t].at] = task[t].got]
        /\ UNCHANGED <<db, l2, inbox, listening, calm>>
        /\ task[t].got \in Config /\ (calm => task[t].got = db)
    BY <1>2, <1>3, <1>9 DEF FillL1, Doing, Sound, Fresh
  <2>2. /\ l1' \in [Processes -> Config \cup {None}]
        /\ calm => \A p \in Processes : l1'[p] \in {l1[p], db}
    BY <1>3, <2>1
  <2>3. CASE task[t].pc = "hit"
    <3>1. Return(t, task[t].got)
      BY <1>9, <2>3 DEF FillL1
    <3>2. QED
      BY <1>3, <1>4, <2>1, <2>2, <3>1
  <2>4. CASE task[t].pc = "fill"
    <3>1. Goto(t, "put") /\ UNCHANGED misread
      BY <1>9, <2>4 DEF FillL1
    <3>2. PICK r \in Doing :
           /\ task' = [task EXCEPT ![t] = r]
           /\ r.pc = "put" /\ r.at = task[t].at /\ r.got = task[t].got
           /\ r.writer = task[t].writer /\ r.wrote = task[t].wrote
      BY <1>1, <3>1, GotoMoves DEF Inv, Labels
    <3>3. Sound(r) /\ r.pc \notin Changing
      BY <1>2, <2>1, <3>2, NoneIsNoConfig DEF Sound, Changing
    <3>4. calm => ~misread
      BY <1>3 DEF AllFresh
    <3>5. QED
      BY <1>1, <1>3, <2>1, <2>2, <3>1, <3>2, <3>3, <3>4, ReadStep
  <2>5. QED
    BY <1>9, <2>3, <2>4 DEF FillL1
<1>10. CASE FillL2(t)
  <2>1. task[t].got \in Config /\ (calm => task[t].got = db)
    BY <1>2, <1>3, <1>10 DEF FillL2, Doing, Sound, Fresh
  <2>2. /\ Return(t, task[t].got) /\ UNCHANGED <<db, l1, inbox, listening>>
        /\ (l2' = task[t].got /\ calm' = calm) \/ (l2' = l2 /\ calm' = FALSE)
    BY <1>10 DEF FillL2, Works, Fails
  <2>3. l2' \in {l2, task[t].got} /\ calm' \in BOOLEAN
    BY <1>3, <2>2
  <2>4. calm' => calm
    BY <2>2
  <2>5. QED
    BY <1>3, <1>4, <2>1, <2>2, <2>3, <2>4
<1>11. CASE SaveFails(t)
  <2>1. task' = [task EXCEPT ![t] = Idle] /\ UNCHANGED <<db, l1, l2, inbox, listening, misread, calm>>
    BY <1>11 DEF SaveFails, store
  <2>2. calm => ~misread
    BY <1>3 DEF AllFresh
  <2>3. QED
    BY <1>1, <1>3, <2>1, <2>2, ReadStep
<1>12. QED
  BY <1>5, <1>6, <1>7, <1>8, <1>9, <1>10, <1>11

-----------------------------------------------------------------------------
(* The steps of a change.  As long as all is calm nobody else is at work.  *)
LEMMA ByItself ==
  ASSUME Inv, calm, NEW t \in Tasks, Busy(t), task[t].writer
  PROVE  \A k \in Tasks \ {t} : ~Busy(k) /\ task[k].pc = "idle"
BY TaskShape DEF Inv, AllFresh, Alone, Writer

\* Two changes that are not yet published are two members of the count.
LEMMA SaveInv ==
  ASSUME Inv, NEW t \in Tasks, Save(t)
  PROVE  Inv'
<1>1. Busy(t) /\ task[t].pc = "save"
  BY TaskShape DEF Inv, Save, At
<1>2. /\ task[t] \in Doing /\ task[t].writer /\ task[t].got = None
  BY <1>1, TaskShape DEF Inv, TasksSound, Sound
<1>3. /\ db \in Nat /\ db < MaxWrites /\ db' = db + 1 /\ db' \in Config
      /\ UNCHANGED <<l2, l1, inbox, listening, misread, calm>>
  BY ConfigAssumptions DEF Save, Inv, TypeOK, Config
<1> DEFINE r == [[task[t] EXCEPT !.pc = "drop"] EXCEPT !.wrote = db']
<1>4. task' = [task EXCEPT ![t] = [task[t] EXCEPT !.pc = "drop", !.wrote = db']]
  BY DEF Save
<1>5. [task[t] EXCEPT !.pc = "drop"] \in Doing
  BY <1>2 DEF Doing, Labels
<1>6. /\ r \in Doing /\ r.pc = "drop" /\ r.wrote = db' /\ r.got = None /\ r.writer
      /\ r.at = task[t].at
  BY <1>2, <1>3, <1>5 DEF Doing
<1>7. [task[t] EXCEPT !.pc = "drop", !.wrote = db'] = r
  BY <1>2 DEF Doing
<1> HIDE DEF r
<1>8. /\ task' \in [Tasks -> Task] /\ task'[t] = r /\ Busy(t)'
      /\ \A k \in Tasks \ {t} : task'[k] = task[k] /\ (Busy(k)' <=> Busy(k))
  <2>1. r # Idle
    BY <1>6 DEF Idle
  <2>2. QED
    BY <1>4, <1>6, <1>7, <2>1, TaskMoves DEF Inv
<1>9. TypeOK'
  BY <1>3, <1>8, ConfigAssumptions DEF Inv, TypeOK, Config
<1>10. TasksSound'
  BY <1>3, <1>6, <1>8, NoneIsNoConfig DEF Inv, TasksSound, Sound, Changing
<1>11. Counted'
  <2>1. Unpublished' = Unpublished \cup {t} /\ t \notin Unpublished
    BY <1>1, <1>6, <1>8 DEF Unpublished, Changing
  <2>2. Cardinality(Unpublished)' = Cardinality(Unpublished) + 1
    BY <2>1, Countable, FS_AddElement
  <2>3. QED
    BY <1>3, <2>2, Countable DEF Inv, TypeOK, Counted
<1>12. ASSUME calm' PROVE AllFresh'
  <2>1. AllFresh /\ \A k \in Tasks \ {t} : ~Busy(k)
    BY <1>1, <1>2, <1>3, <1>12, ByItself DEF Inv
  <2>2. Alone'
    BY <1>8, <2>1 DEF Alone, Writer
  <2>3. \A k \in Tasks : Busy(k)' => Fresh(k)'
    BY <1>6, <1>8, <2>1 DEF Fresh, At
  <2>4. L2Fresh' /\ L1Fresh'
    BY <1>6, <1>8 DEF L2Fresh, L1Fresh, Changing
  <2>5. QED
    BY <1>3, <2>1, <2>2, <2>3, <2>4 DEF AllFresh
<1>13. QED
  BY <1>9, <1>10, <1>11, <1>12 DEF Inv

\* What follows the upsert: this process's copy, Valkey's, the message.
LEMMA InvalidateInv ==
  ASSUME Inv, NEW t \in Tasks, DropL1(t) \/ ClearL2(t) \/ Publish(t)
  PROVE  Inv'
<1>1. Busy(t) /\ task[t].pc \in Changing
  BY TaskShape DEF Inv, DropL1, ClearL2, Publish, At, Changing
<1>2. /\ task[t] \in Doing /\ task[t].writer /\ task[t].got = None /\ task[t].wrote # None
  BY <1>1, TaskShape DEF Inv, TasksSound, Sound, Changing
<1>3. PICK l \in {"clear", "publish", "lookup"} :
        /\ Goto(t, l)
        /\ l = "clear" <=> task[t].pc = "drop"
        /\ l = "publish" <=> task[t].pc = "clear"
        /\ l = "lookup" <=> task[t].pc = "publish"
  BY DEF DropL1, ClearL2, Publish, At
<1>4. PICK r \in Doing :
        /\ task' = [task EXCEPT ![t] = r]
        /\ r.pc = l /\ r.at = task[t].at /\ r.got = task[t].got
        /\ r.writer = task[t].writer /\ r.wrote = task[t].wrote
  BY <1>1, <1>3, GotoMoves DEF Inv, Labels
<1>5. /\ task' \in [Tasks -> Task] /\ task'[t] = r /\ Busy(t)'
      /\ \A k \in Tasks \ {t} : task'[k] = task[k] /\ (Busy(k)' <=> Busy(k))
  <2>1. r # Idle
    BY <1>3, <1>4 DEF Idle
  <2>2. QED
    BY <1>4, <2>1, TaskMoves DEF Inv
<1>6. /\ db' = db /\ db \in Config /\ listening' = listening /\ misread' = misread
      /\ listening \subseteq Processes
      /\ calm' = calm \/ calm' = FALSE
  BY ConfigAssumptions DEF DropL1, ClearL2, Publish, Works, Fails, Inv, TypeOK
<1>7. /\ l1' = l1 \/ (l1' = [l1 EXCEPT ![task[t].at] = None] /\ l = "clear")
      /\ l = "clear" => l1' = [l1 EXCEPT ![task[t].at] = None]
      /\ l2' = l2 \/ l2' = None
      /\ l = "publish" /\ calm' => l2' = None
  BY <1>3 DEF DropL1, ClearL2, Publish, At, Fails
<1>8. /\ l1' \in [Processes -> Config \cup {None}] /\ l2' \in Config \cup {None}
      /\ \A p \in Processes : l1'[p] \in {l1[p], None}
  BY <1>7 DEF Inv, TypeOK
<1>9. /\ l # "lookup" => inbox' = inbox
      /\ \/ inbox' = inbox
         \/ inbox' = [p \in Processes |-> inbox[p] + (IF p \in listening THEN 1 ELSE 0)]
      /\ l = "lookup" /\ calm' =>
           inbox' = [p \in Processes |-> inbox[p] + (IF p \in listening THEN 1 ELSE 0)]
  BY <1>3 DEF DropL1, ClearL2, Publish, At, Fails
<1>10. /\ inbox' \in [Processes -> Nat]
       /\ \A p \in Processes : inbox[p] \in Nat /\ inbox'[p] <= inbox[p] + 1
  BY <1>9, ConfigAssumptions DEF Inv, TypeOK
<1>11. Counted'
  <2>1. CASE l = "lookup"
    <3>1. Unpublished' = Unpublished \ {t} /\ t \in Unpublished
      BY <1>1, <1>4, <1>5, <2>1 DEF Unpublished, Changing
    <3>2. Cardinality(Unpublished)' = Cardinality(Unpublished) - 1
      BY <3>1, Countable, FS_RemoveElement
    <3>3. QED
      BY <1>6, <1>10, <3>2, Countable DEF Inv, Counted, Config
  <2>2. CASE l # "lookup"
    <3>1. Unpublished' = Unpublished
      BY <1>1, <1>3, <1>4, <1>5, <2>2 DEF Unpublished, Changing
    <3>2. QED
      BY <1>6, <1>9, <2>2, <3>1 DEF Inv, Counted
  <2>3. QED
    BY <2>1, <2>2
<1>12. TypeOK'
  <2>1. inbox' \in [Processes -> 0 .. MaxWrites]
    BY <1>6, <1>10, <1>11, InboxTyped
  <2>2. QED
    BY <1>5, <1>6, <1>8, <2>1 DEF Inv, TypeOK
<1>13. TasksSound'
  BY <1>2, <1>3, <1>4, <1>5 DEF Inv, TasksSound, Sound, Changing
<1>14. ASSUME calm' PROVE AllFresh'
  <2>1. AllFresh /\ \A k \in Tasks \ {t} : ~Busy(k) /\ task[k].pc = "idle"
    BY <1>1, <1>2, <1>6, <1>14, ByItself DEF Inv
  <2>2. Alone'
    BY <1>5, <2>1 DEF Alone, Writer
  <2>3. Fresh(t)'
    <3>1. task[t].at \in Processes /\ Fresh(t)
      BY <1>1, <1>2, <2>1 DEF Doing, AllFresh
    <3>2. Current(l1[task[t].at])'
      <4>1. CASE l = "clear"
        BY <1>4, <1>5, <1>7, <3>1, <4>1 DEF Current, Inv, TypeOK
      <4>2. CASE l # "clear"
        BY <1>2, <1>3, <1>4, <1>5, <1>6, <1>7, <3>1, <4>2 DEF Current, Fresh, At
      <4>3. QED
        BY <4>1, <4>2
    <3>3. QED
      BY <1>2, <1>4, <1>5, <1>6, <3>1, <3>2 DEF Fresh, Current
  <2>4. \A k \in Tasks : Busy(k)' => Fresh(k)'
    BY <1>5, <2>1, <2>3
  <2>5. L2Fresh'
    <3>1. CASE l = "clear"
      BY <1>4, <1>5, <3>1 DEF L2Fresh
    <3>2. CASE l = "publish"
      BY <1>7, <1>14, <3>2 DEF L2Fresh, Current
    <3>3. CASE l = "lookup"
      BY <1>3, <1>6, <1>7, <2>1, <3>3 DEF AllFresh, L2Fresh, Current
    <3>4. QED
      BY <3>1, <3>2, <3>3
  <2>6. L1Fresh'
    <3>1. CASE l = "lookup"
      <4>1. \A p \in listening : inbox'[p] > 0
        BY <1>6, <1>9, <1>10, <1>14, <3>1
      <4>2. QED
        BY <1>6, <4>1 DEF L1Fresh
    <3>2. CASE l # "lookup"
      BY <1>4, <1>5, <3>2 DEF L1Fresh, Changing
    <3>3. QED
      BY <3>1, <3>2
  <2>7. QED
    BY <1>6, <2>1, <2>2, <2>4, <2>5, <2>6 DEF AllFresh
<1>15. QED
  BY <1>11, <1>12, <1>13, <1>14 DEF Inv

-----------------------------------------------------------------------------
(* What comes and what happens around the tasks.                           *)
LEMMA BeginInv ==
  ASSUME Inv, NEW t \in Tasks, NEW p \in Processes, NEW w \in BOOLEAN, Begin(t, p, w)
  PROVE  Inv'
<1> DEFINE r == [pc |-> "lookup", at |-> p, got |-> None, writer |-> w, wrote |-> None]
<1>1. /\ r \in Doing /\ r # Idle /\ Sound(r) /\ r.pc = "lookup"
      /\ r.writer = w /\ r.got = None /\ r.wrote = None
  BY DEF Doing, Labels, Idle, Sound, Changing
<1>2. /\ ~Busy(t) /\ task' = [task EXCEPT ![t] = r]
      /\ calm' = (calm /\ \A k \in Tasks : ~ (IF w THEN Busy(k) ELSE Writer(k)))
      /\ UNCHANGED <<db, l2, l1, inbox, listening, misread>>
  BY DEF Begin, store
<1> HIDE DEF r
<1>3. /\ task' \in [Tasks -> Task] /\ task'[t] = r /\ Busy(t)'
      /\ \A k \in Tasks \ {t} : task'[k] = task[k] /\ (Busy(k)' <=> Busy(k))
      /\ task[t].pc = "idle"
  BY <1>1, <1>2, TaskMoves, TaskShape DEF Inv
<1>4. TypeOK'
  BY <1>2, <1>3 DEF Inv, TypeOK
<1>5. TasksSound'
  BY <1>1, <1>3 DEF Inv, TasksSound
<1>6. Counted'
  <2>1. Unpublished' = Unpublished
    BY <1>1, <1>3 DEF Unpublished, Changing
  <2>2. QED
    BY <1>2, <2>1 DEF Inv, Counted
<1>7. ASSUME calm' PROVE AllFresh'
  <2>1. AllFresh /\ \A k \in Tasks : IF w THEN ~Busy(k) ELSE ~Writer(k)
    BY <1>2, <1>7 DEF Inv
  <2>2. Alone'
    BY <1>1, <1>3, <2>1 DEF AllFresh, Alone, Writer
  <2>3. \A k \in Tasks : Busy(k)' => Fresh(k)'
    BY <1>1, <1>2, <1>3, <2>1 DEF AllFresh, Fresh, At, Current
  <2>4. L2Fresh' /\ L1Fresh'
    BY <1>1, <1>2, <1>3, <2>1 DEF AllFresh, L2Fresh, L1Fresh, Current, Changing
  <2>5. QED
    BY <1>2, <2>1, <2>2, <2>3, <2>4 DEF AllFresh
<1>8. QED
  BY <1>4, <1>5, <1>6, <1>7 DEF Inv

\* Copies are dropped, with a message or for their age.
LEMMA DropsInv ==
  ASSUME Inv, ExpireL2 \/ \E p \in Processes : Deliver(p) \/ ExpireL1(p)
  PROVE  Inv'
<1>1. /\ UNCHANGED <<db, listening, task, misread, calm>>
      /\ l2' \in {l2, None} /\ l1' \in [Processes -> Config \cup {None}]
      /\ inbox' \in [Processes -> Nat]
      /\ \A p \in Processes : /\ inbox[p] \in Nat
                              /\ \/ l1'[p] = None /\ inbox'[p] <= inbox[p]
                                 \/ l1'[p] = l1[p] /\ inbox'[p] = inbox[p]
  <2>1. CASE ExpireL2
    BY <2>1, ConfigAssumptions DEF ExpireL2, Inv, TypeOK
  <2>2. ASSUME NEW p \in Processes, Deliver(p)
        PROVE  /\ inbox' \in [Processes -> Nat] /\ inbox'[p] <= inbox[p] /\ l1'[p] = None
               /\ \A q \in Processes \ {p} : l1'[q] = l1[q] /\ inbox'[q] = inbox[q]
    <3>1. inbox[p] \in Nat /\ inbox[p] > 0
      BY <2>2, ConfigAssumptions DEF Deliver, Inv, TypeOK
    <3>2. QED
      BY <2>2, <3>1, ConfigAssumptions DEF Deliver, Inv, TypeOK
  <2>3. ASSUME NEW p \in Processes, Deliver(p) PROVE l1' \in [Processes -> Config \cup {None}]
    BY <2>3 DEF Deliver, Inv, TypeOK
  <2>4. \A p \in Processes : inbox[p] \in Nat
    BY ConfigAssumptions DEF Inv, TypeOK
  <2>5. ASSUME NEW p \in Processes, Deliver(p)
        PROVE  UNCHANGED <<db, listening, task, misread, calm, l2>>
    BY <2>5 DEF Deliver
  <2>6. CASE \E p \in Processes : Deliver(p)
    BY <2>2, <2>3, <2>4, <2>5, <2>6
  <2>7. CASE \E p \in Processes : ExpireL1(p)
    BY <2>7, ConfigAssumptions DEF ExpireL1, Inv, TypeOK
  <2>8. QED
    BY <2>1, <2>6, <2>7
<1>2. Unpublished' = Unpublished /\ \A k \in Tasks : Busy(k)' <=> Busy(k)
  BY <1>1 DEF Unpublished, Busy
<1>3. Counted'
  BY <1>1, <1>2, Countable DEF Inv, Counted, TypeOK, Config
<1>4. TypeOK'
  <2>1. inbox' \in [Processes -> 0 .. MaxWrites]
    BY <1>1, <1>3, InboxTyped DEF Inv, TypeOK
  <2>2. QED
    BY <1>1, <2>1 DEF Inv, TypeOK
<1>5. TasksSound'
  BY <1>1, <1>2 DEF Inv, TasksSound
<1>6. ASSUME calm' PROVE AllFresh'
  <2>1. AllFresh /\ \A k \in Tasks : Busy(k) => task[k].at \in Processes
    BY <1>1, <1>6, TaskShape DEF Inv, Doing
  <2>2. Alone' /\ L2Fresh'
    BY <1>1, <1>2, <2>1 DEF AllFresh, Alone, Writer, L2Fresh, Current
  <2>3. \A k \in Tasks : Busy(k)' => Fresh(k)'
    BY <1>1, <1>2, <2>1 DEF AllFresh, Fresh, At, Current
  <2>4. L1Fresh'
    <3>1. listening \subseteq Processes
      BY ConfigAssumptions DEF Inv, TypeOK
    <3>2. QED
      BY <1>1, <2>1, <3>1 DEF AllFresh, L1Fresh, Current
  <2>5. QED
    BY <1>1, <2>1, <2>2, <2>3, <2>4 DEF AllFresh
<1>7. QED
  BY <1>3, <1>4, <1>5, <1>6 DEF Inv

\* A subscription or a process dies, and the calm is over.
LEMMA DiesInv ==
  ASSUME Inv, NEW p \in Processes, PumpDies(p) \/ Restart(p)
  PROVE  Inv'
<1>1. calm' = FALSE /\ UNCHANGED <<db, l2, misread>> /\ inbox' = [inbox EXCEPT ![p] = 0]
  BY DEF PumpDies, Restart, Fails
<1>2. \A k \in Tasks : task'[k] \in {task[k], Idle}
  BY DEF PumpDies, Restart
<1>3. TasksSound'
  BY <1>2 DEF Inv, TasksSound, Busy
<1>4. Counted'
  <2>1. Unpublished' \subseteq Unpublished
    BY <1>2 DEF Unpublished, Changing, Idle
  <2>2. Cardinality(Unpublished)' <= Cardinality(Unpublished)
    BY <2>1, Countable, FS_Subset
  <2>3. \A q \in Processes : inbox[q] \in Nat /\ inbox'[q] \in Nat /\ inbox'[q] <= inbox[q]
    BY <1>1, ConfigAssumptions DEF Inv, TypeOK
  <2>4. QED
    BY <1>1, <2>2, <2>3, Countable DEF Inv, Counted, TypeOK, Config
<1>5. TypeOK'
  <2>1. task' \in [Tasks -> Task]
    BY DEF PumpDies, Restart, Inv, TypeOK, Task
  <2>2. l1' \in [Processes -> Config \cup {None}] /\ listening' \subseteq Listeners
    BY DEF PumpDies, Restart, Inv, TypeOK
  <2>3. inbox' \in [Processes -> Nat]
    BY <1>1, ConfigAssumptions DEF Inv, TypeOK
  <2>4. inbox' \in [Processes -> 0 .. MaxWrites]
    BY <1>1, <1>4, <2>3, InboxTyped DEF Inv, TypeOK
  <2>5. QED
    BY <1>1, <2>1, <2>2, <2>4 DEF Inv, TypeOK
<1>6. QED
  BY <1>1, <1>3, <1>4, <1>5 DEF Inv

-----------------------------------------------------------------------------
LEMMA InitInv == Init => Inv
<1> SUFFICES ASSUME Init PROVE Inv
  OBVIOUS
<1>1. TypeOK
  <2>1. 0 \in 0 .. MaxWrites
    BY ConfigAssumptions
  <2>2. task \in [Tasks -> Task]
    BY DEF Init, Task
  <2>3. db \in Config /\ l2 \in Config \cup {None} /\ l1 \in [Processes -> Config \cup {None}]
    BY <2>1 DEF Init, Config, DEFAULTS
  <2>4. inbox \in [Processes -> 0 .. MaxWrites] /\ listening \subseteq Listeners
    BY <2>1 DEF Init
  <2>5. misread \in BOOLEAN /\ calm \in BOOLEAN
    BY DEF Init
  <2>6. QED
    BY <2>2, <2>3, <2>4, <2>5 DEF TypeOK
<1>2. \A t \in Tasks : ~Busy(t) /\ task[t].pc = "idle"
  BY DEF Init, Busy, Idle
<1>3. TasksSound /\ AllFresh
  <2>1. TasksSound /\ Alone /\ L2Fresh
    BY <1>2 DEF Init, TasksSound, Alone, Writer, L2Fresh, Current
  <2>2. L1Fresh
    BY ConfigAssumptions DEF Init, L1Fresh, Current
  <2>3. ~misread
    BY DEF Init
  <2>4. QED
    BY <1>2, <2>1, <2>2, <2>3 DEF AllFresh
<1>4. Counted
  <2>1. Unpublished = {}
    BY <1>2 DEF Unpublished, Changing
  <2>2. QED
    BY <2>1, FS_EmptySet DEF Init, Counted, DEFAULTS
<1>5. QED
  BY <1>1, <1>3, <1>4 DEF Inv

LEMMA NextInv == Inv /\ [Next]_vars => Inv'
<1> SUFFICES ASSUME Inv, [Next]_vars PROVE Inv'
  OBVIOUS
<1>1. CASE UNCHANGED vars
  <2>1. Unpublished' = Unpublished
    BY <1>1 DEF vars, Unpublished
  <2>2. QED
    BY <1>1, <2>1
       DEF vars, store, Inv, TypeOK, TasksSound, Busy, Counted, AllFresh, Alone, Writer, Fresh, At,
           L2Fresh, L1Fresh, Current
<1>2. ASSUME NEW t \in Tasks, Step(t) PROVE Inv'
  BY <1>2, ReadsInv, SaveInv, InvalidateInv DEF Step
<1>3. QED
  BY <1>1, <1>2, BeginInv, DropsInv, DiesInv DEF Next

(* Every reachable state has the invariant.                                *)
THEOREM Invariance == Spec => []Inv
BY InitInv, NextInv, PTL DEF Spec

(* "A write goes through set_config, which upserts then invalidates L2 and *)
(* publishes" (group_config.py:15-17): after a change that nothing failed  *)
(* under and nobody met, no old copy is left where it was promised, and    *)
(* set_config has not answered with one.                                   *)
THEOREM WritesAreSeen == Spec => []WriteIsSeen
<1>1. ASSUME Inv PROVE InvalidateReaches
  <2>1. ASSUME calm, Quiet PROVE Current(l2) /\ \A p \in listening : Current(l1[p])
    <3>1. AllFresh /\ listening \subseteq Processes
      BY <1>1, <2>1, ConfigAssumptions DEF Inv, TypeOK
    <3>2. \A t \in Tasks : task[t].pc = "idle"
      BY <1>1, <2>1, TaskShape DEF Inv, Quiet
    <3>3. QED
      BY <2>1, <3>1, <3>2 DEF AllFresh, L2Fresh, L1Fresh, Quiet, Changing
  <2>2. QED
    BY <2>1 DEF InvalidateReaches
<1>2. ASSUME Inv PROVE TypeOK /\ OwnWriteReturned
  BY <1>2 DEF Inv, AllFresh, OwnWriteReturned
<1>3. QED
  BY <1>1, <1>2, Invariance, PTL DEF WriteIsSeen

=============================================================================
