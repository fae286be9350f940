------------------------------ MODULE JobQueue ------------------------------
(* From a handler's enqueue() to the worker's function: the pool a gateway     *)
(* opens when it first needs one (queue.py), the names on the wire             *)
(* (cb_core/jobs.py), the functions of WorkerSettings (the worker's main.py),  *)
(* and arq between them, which looks a job up by its name, runs again what a   *)
(* worker's end cut short, and nothing else. What the jobs do is told in the   *)
(* modules of their components, as if each were found.                         *)
EXTENDS Integers, FiniteSets

CONSTANTS Calls,    \* calls of enqueue()
          Sent,     \* the constants of jobs.py they may pass
          MaxJobs, MaxTries, \* max_jobs, and arq's default of tries
          MaxKills, \* bound: ends of a worker
          Nothing

\* cb_core/jobs.py: each constant's value.
Wire ==
  [EVERYONE_FANOUT |-> "everyone_fanout", CALLADMS_NOTIFY_ADMINS |-> "notify_admins_of_call",
   YOUTUBE_SEARCH |-> "youtube_search", BIRTHDAY_COLLAGE |-> "birthday_collage",
   NEXT_BIRTHDAYS_FOLLOWUP |-> "next_birthdays_followup",
   PUBLISHER_APPROVE |-> "publisher_approve", REVERSE_SEARCH |-> "reverse_search",
   DISTORT_MEDIA |-> "distort_media", IDENTIFY_MUSIC |-> "identify_music",
   COMPOSE_MEME |-> "compose_meme", BROADCAST_TO_GROUPS |-> "broadcast_to_groups",
   BROADCAST_DELIVER |-> "broadcast_deliver", IMAGE_SEARCH |-> "image_search"]

\* WorkerSettings.functions, which arq names as Python does.
Functions ==
  {"everyone_fanout", "notify_admins_of_call", "search_youtube", "image_search",
   "post_birthday_collage", "next_birthdays_followup", "broadcast_birthdays",
   "publisher_approve", "deliver_scheduled_posts", "search_source", "distort_media",
   "identify_music", "compose_meme", "broadcast_to_groups", "deliver_broadcast",
   "maintain_partitions", "rollup_yesterday", "rollup_llm_costs", "collect_media_garbage",
   "expire_captchas"}

QueueAssumption ==
  /\ Sent \subseteq DOMAIN Wire /\ {MaxJobs, MaxTries} \subseteq Nat \ {0}
  /\ MaxKills \in Nat /\ Nothing \notin Nat

VARIABLES pool,    \* _pool, a number
          live,    \* the pools that are open
          opened,  \* how many have been
          closing, \* how far close() is
          call,    \* each call's stage, and the pool it holds
          job,     \* the jobs on the queue: what they are for and how they fare
          cut,     \* history: how often a worker's end cut each short
          ran,     \* history: how often its function was started
          stray,   \* history: pools whose opening met another's, or close()
          kills
queueVars == <<pool, live, opened, closing, call, job, cut, ran, stray, kills>>

Fates == {"none", "queued", "running", "orphaned", "done", "failed", "unknown", "spent"}
TypeOK ==
  /\ opened \in Nat /\ live \subseteq 1..opened /\ stray \subseteq 1..opened
  /\ pool \in {Nothing} \cup 1..opened /\ closing \in {"no", "begun", "ended"}
  /\ call \in [Calls -> [at : {"idle", "opening", "handing", "accepted", "refused"},
                         name : Sent, pool : {Nothing} \cup 1..opened]]
  /\ job \in [Calls -> [fate : Fates, tries : Nat]]
  /\ cut \in [Calls -> Nat] /\ ran \in [Calls -> Nat] /\ kills \in 0..MaxKills

Init ==
  /\ pool = Nothing /\ live = {} /\ opened = 0 /\ closing = "no" /\ stray = {} /\ kills = 0
  /\ call \in [Calls -> [at : {"idle"}, name : Sent, pool : {Nothing}]]
  /\ job = [c \in Calls |-> [fate |-> "none", tries |-> 0]]
  /\ cut = [c \in Calls |-> 0] /\ ran = [c \in Calls |-> 0]

-----------------------------------------------------------------------------
OnTheWorker == <<cut, ran, kills>>

\* Mutant of Found: every call opens a pool.
Found_Never == FALSE
Found == pool # Nothing

\* The first call opens the pool, and so does every other until it is there.
GetPool(c) ==
  /\ call[c].at = "idle"
  /\ call' = [call EXCEPT ![c].at = IF Found THEN "handing" ELSE "opening",
                          ![c].pool = IF Found THEN pool ELSE Nothing]
  /\ UNCHANGED <<pool, live, opened, closing, job, stray, OnTheWorker>>

\* The last to connect is the one the module keeps.
Connected(c) ==
  LET new == opened + 1
      met == \/ closing # "no"
             \/ \E d \in Calls \ {c} : call[d].at = "opening"
  IN /\ call[c].at = "opening"
     /\ opened' = new /\ pool' = new /\ live' = live \cup {new}
     /\ stray' = stray \cup IF met THEN {new} ELSE {}
     /\ call' = [call EXCEPT ![c].at = "handing", ![c].pool = new]
     /\ UNCHANGED <<closing, job, OnTheWorker>>

\* A connection of a pool that was closed is opened again.
Reopened(c) ==
  /\ live' = live \cup {call[c].pool}
  /\ stray' = stray \cup ({call[c].pool} \ live)

Accept(c) == job' = [job EXCEPT ![c].fate = "queued"]

Hand(c) ==
  /\ call[c].at = "handing" /\ Accept(c) /\ Reopened(c)
  /\ call' = [call EXCEPT ![c].at = "accepted"]
  /\ UNCHANGED <<pool, opened, closing, OnTheWorker>>

\* The handler goes on with a False. The broker may have the job all the same.
Refused(c) ==
  /\ \/ call[c].at = "opening" /\ UNCHANGED <<job, live, stray>>
     \/ call[c].at = "handing" /\ UNCHANGED <<job, live, stray>>
     \/ call[c].at = "handing" /\ Accept(c) /\ Reopened(c)
  /\ call' = [call EXCEPT ![c].at = "refused"]
  /\ UNCHANGED <<pool, opened, closing, OnTheWorker>>

\* close(): the name is kept until the connections are gone.
Close ==
  /\ closing = "no" /\ pool # Nothing
  /\ live' = live \ {pool} /\ closing' = "begun"
  /\ UNCHANGED <<pool, opened, call, job, stray, OnTheWorker>>
Closed ==
  /\ \/ closing = "begun"
     \/ closing = "no" /\ pool = Nothing
  /\ closing' = "ended" /\ pool' = Nothing
  /\ UNCHANGED <<live, opened, call, job, stray, OnTheWorker>>

-----------------------------------------------------------------------------
Running == {c \in Calls : job[c].fate = "running"}
Known(c) == Wire[call[c].name] \in Functions

\* arq looks for the function first, and counts tries next.
Take(c) ==
  LET fate == IF ~Known(c) THEN "unknown"
              ELSE IF job[c].tries = MaxTries THEN "spent" ELSE "running"
  IN /\ job[c].fate = "queued" /\ Cardinality(Running) < MaxJobs
     /\ job' = [job EXCEPT ![c] = [fate |-> fate, tries |-> @.tries + 1]]
     /\ ran' = [ran EXCEPT ![c] = @ + IF fate = "running" THEN 1 ELSE 0]
     /\ UNCHANGED <<pool, live, opened, closing, call, stray, cut, kills>>

\* Mutant of AfterError: what raised is tried again.
AfterError_Again == "queued"
\* What raised, or ran for longer than job_timeout, is not tried again.
AfterError == "failed"

Finish(c) ==
  /\ job[c].fate = "running"
  /\ \E fate \in {"done", AfterError} : job' = [job EXCEPT ![c].fate = fate]
  /\ UNCHANGED <<pool, live, opened, closing, call, stray, OnTheWorker>>

\* A shutdown puts back what it cancels; what a kill leaves waits for arq's mark
\* on the job to lapse.
WorkerEnds ==
  /\ kills < MaxKills /\ kills' = kills + 1
  /\ \E fate \in {"queued", "orphaned"} :
       job' = [c \in Calls |-> IF c \in Running THEN [job[c] EXCEPT !.fate = fate] ELSE job[c]]
  /\ cut' = [c \in Calls |-> cut[c] + IF c \in Running THEN 1 ELSE 0]
  /\ UNCHANGED <<pool, live, opened, closing, call, stray, ran>>
MarkLapses(c) ==
  /\ job[c].fate = "orphaned"
  /\ Accept(c)
  /\ UNCHANGED <<pool, live, opened, closing, call, stray, OnTheWorker>>

Next ==
  \/ \E c \in Calls : \/ GetPool(c) \/ Connected(c) \/ Hand(c) \/ Refused(c)
                      \/ Take(c) \/ Finish(c) \/ MarkLapses(c)
  \/ Close \/ Closed \/ WorkerEnds

Spec == Init /\ [][Next]_queueVars

-----------------------------------------------------------------------------
\* Every pool that is open is the one calls find, or came of two first calls that
\* met, or of one that met close(): nothing leaks from calls apart, and a close
\* that met none leaves nothing open (queue.py, _get_pool, close).
PoolsAccounted == live \subseteq {pool} \cup stray

\* A job runs again only for an end of its worker, and is given up only after as
\* many as its tries (main.py, WorkerSettings).
RunsAccounted ==
  \A c \in Calls : /\ ran[c] <= cut[c] + 1
                   /\ job[c].fate = "spent" => cut[c] = MaxTries
                   /\ call[c].at = "accepted" => job[c].fate # "none"

QueueHolds == PoolsAccounted /\ RunsAccounted

\* "Importing the constant from here [...] is what keeps that impossible": no job
\* is on the queue under a name the worker has no function for (cb_core/jobs.py).
EveryJobIsKnown == \A c \in Calls : job[c].fate # "unknown"
=============================================================================
