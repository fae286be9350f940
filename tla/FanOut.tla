------------------------------- MODULE FanOut -------------------------------
(***************************************************************************)
(* Posts to many groups by the job queue: the daily birthday sweep and the *)
(* /birthday command (jobs/birthday.py), the owner's /broadcast            *)
(* (jobs/broadcast.py, handlers/owner.py).  A sweep is a job that enqueues *)
(* one deferred job per group.  arq runs a job again when its worker is    *)
(* killed, never when the job raised or ran out of time.  That it finds a  *)
(* job by the name it is sent under is the subject of JobQueue.            *)
(***************************************************************************)
EXTENDS Naturals, FiniteSets

CONSTANTS Groups,
          FunOff,     \* groups with functionsFun off
          Sweeps,     \* birthday sweeps of one day (cron)
          Broadcasts, \* /broadcast messages
          Manual,     \* /birthday commands of that day
          ManualIn,   \* the group each is typed in
          Workers,
          MaxKills,
          All         \* the target of the job that sweeps

Campaigns == Sweeps \cup Broadcasts \cup Manual

FanOutAssumption ==
  /\ FunOff \subseteq Groups /\ ManualIn \in [Manual -> Groups]
  /\ Sweeps \cap Broadcasts = {} /\ Manual \cap (Sweeps \cup Broadcasts) = {}
  /\ All \notin Groups /\ MaxKills \in Nat

Jobs == Campaigns \X (Groups \cup {All})

VARIABLES begun,   \* campaigns that were started
          queue,   \* jobs in the queue, deferred ones too: a bag
          at,      \* what each worker does
          pinned,  \* groups whose pinned message is today's birthday post
          posts,   \* how often each campaign has posted in each group
          excused, \* history: <<campaign, group>> given up with a word in the log
          kills

vars == <<begun, queue, at, pinned, posts, excused, kills>>

Idle == [job |-> <<All, All>>, todo |-> {}, step |-> "idle"]
Stages == [job : Jobs, todo : SUBSET Groups, step : {"start", "sweep", "post", "pin", "cake"}]

TypeOK ==
  /\ begun \subseteq Campaigns /\ pinned \subseteq Groups
  /\ queue \in [Jobs -> Nat]
  /\ at \in [Workers -> {Idle} \cup Stages]
  /\ posts \in [Campaigns \X Groups -> Nat]
  /\ excused \subseteq Campaigns \X Groups
  /\ kills \in 0..MaxKills

Init ==
  /\ begun = {} /\ queue = [j \in Jobs |-> 0] /\ at = [w \in Workers |-> Idle]
  /\ pinned = {} /\ posts = [p \in Campaigns \X Groups |-> 0]
  /\ excused = {} /\ kills = 0

-----------------------------------------------------------------------------
Put(job) == queue' = [queue EXCEPT ![job] = @ + 1]
Goto(w, step) == at' = [at EXCEPT ![w].step = step]
Over(w) == at' = [at EXCEPT ![w] = Idle]
Doing(w, step) == at[w].step = step
Of(w) == at[w].job[1]
GroupOf(w) == at[w].job[2]

\* The cron of the day, an owner's message, a command in a group.
Begin(k) ==
  /\ k \notin begun
  /\ begun' = begun \cup {k}
  /\ Put(<<k, IF k \in Manual THEN ManualIn[k] ELSE All>>)
  /\ UNCHANGED <<at, pinned, posts, excused, kills>>

Dequeue(w, job) ==
  /\ Doing(w, "idle") /\ queue[job] > 0
  /\ queue' = [queue EXCEPT ![job] = @ - 1]
  /\ at' = [at EXCEPT ![w] = [job |-> job, todo |-> {},
                              step |-> IF job[2] = All THEN "start" ELSE "post"]]
  /\ UNCHANGED <<begun, pinned, posts, excused, kills>>

\* groups_with_birthdays or all_group_ids, once.
ReadGroups(w) ==
  /\ Doing(w, "start")
  /\ at' = [at EXCEPT ![w] = [@ EXCEPT !.todo = Groups, !.step = "sweep"]]
  /\ UNCHANGED <<begun, queue, pinned, posts, excused, kills>>

\* A group where fun is off, or where today's post is pinned already, is left out
\* of the birthday sweep.
Skip(w, g) ==
  /\ Doing(w, "sweep") /\ g \in at[w].todo
  /\ Of(w) \in Sweeps /\ (g \in FunOff \/ g \in pinned)
  /\ at' = [at EXCEPT ![w].todo = @ \ {g}]
  /\ excused' = excused \cup {<<Of(w), g>>}
  /\ UNCHANGED <<begun, queue, pinned, posts, kills>>

\* The chat may not be readable: then nothing is pinned there.
Enqueue(w, g) ==
  /\ Doing(w, "sweep") /\ g \in at[w].todo
  /\ Of(w) \in Sweeps => g \notin FunOff
  /\ at' = [at EXCEPT ![w].todo = @ \ {g}]
  /\ Put(<<Of(w), g>>)
  /\ UNCHANGED <<begun, pinned, posts, excused, kills>>

\* The first group that cannot be queued ends the sweep.
EnqueueFails_EndsSweep(w, g) ==
  /\ Doing(w, "sweep") /\ g \in at[w].todo
  /\ Of(w) \in Sweeps => g \notin FunOff
  /\ at' = [at EXCEPT ![w].todo = {}]
  /\ excused' = excused \cup {<<Of(w), g>>}
  /\ UNCHANGED <<begun, queue, pinned, posts, kills>>

EnqueueFails(w, g) ==
  /\ Doing(w, "sweep") /\ g \in at[w].todo
  /\ Of(w) \in Sweeps => g \notin FunOff
  /\ at' = [at EXCEPT ![w].todo = @ \ {g}]
  /\ excused' = excused \cup {<<Of(w), g>>}
  /\ UNCHANGED <<begun, queue, pinned, posts, kills>>

SweepDone(w) ==
  /\ Doing(w, "sweep") /\ at[w].todo = {}
  /\ Over(w)
  /\ UNCHANGED <<begun, queue, pinned, posts, excused, kills>>

\* The photo, or the owner's text.
Post(w) ==
  /\ Doing(w, "post")
  /\ posts' = [posts EXCEPT ![at[w].job] = @ + 1]
  /\ IF Of(w) \in Broadcasts THEN Over(w) ELSE Goto(w, "pin")
  /\ UNCHANGED <<begun, queue, pinned, excused, kills>>

\* The pin is best effort.
Pin(w) ==
  /\ Doing(w, "pin")
  /\ pinned' \in {pinned, pinned \cup {GroupOf(w)}}
  /\ Goto(w, "cake")
  /\ UNCHANGED <<begun, queue, posts, excused, kills>>

\* The follow-up is scheduled after it; that it cannot be is no error.
Cake(w) ==
  /\ Doing(w, "cake")
  /\ Over(w)
  /\ UNCHANGED <<begun, queue, pinned, posts, excused, kills>>

\* A job that raises is put back.
Raises_Again(w) ==
  /\ ~Doing(w, "idle")
  /\ Put(at[w].job)
  /\ Over(w)
  /\ excused' = excused \cup {<<Of(w), g>> : g \in Groups}
  /\ UNCHANGED <<begun, pinned, posts, kills>>

\* A job that raises, runs into job_timeout, or finds nobody to show, is over; a
\* broadcast that cannot be sent is counted.
Raises(w) ==
  /\ ~Doing(w, "idle")
  /\ Over(w)
  /\ excused' = excused \cup
       {<<Of(w), g>> : g \in IF GroupOf(w) = All
                             THEN IF Doing(w, "start") THEN Groups ELSE at[w].todo
                             ELSE {GroupOf(w)}}
  /\ UNCHANGED <<begun, queue, pinned, posts, kills>>

\* The worker is killed; the job is run again from its beginning.
Kill(w) ==
  /\ ~Doing(w, "idle") /\ kills < MaxKills
  /\ kills' = kills + 1
  /\ Put(at[w].job)
  /\ Over(w)
  /\ UNCHANGED <<begun, pinned, posts, excused>>

Next ==
  \/ \E k \in Campaigns : Begin(k)
  \/ \E w \in Workers :
       \/ \E job \in Jobs : Dequeue(w, job)
       \/ \E g \in Groups : Skip(w, g) \/ Enqueue(w, g) \/ EnqueueFails(w, g)
       \/ ReadGroups(w) \/ SweepDone(w) \/ Post(w) \/ Pin(w) \/ Cake(w)
       \/ Raises(w) \/ Kill(w)

Spec == Init /\ [][Next]_vars

-----------------------------------------------------------------------------
\* A group gets a post of a campaign once, and once more for each worker that was
\* killed at it: nothing else repeats one, neither an error after the photo nor a
\* sweep whose pins failed.
PostedOnce == \A p \in DOMAIN posts : posts[p] <= 1 + kills

\* When no job is left every group of a campaign that was begun has the post or
\* was given up with a word in the log, whichever groups could not be queued and
\* whoever was killed (broadcast.py: "one group must not end the fan-out").
NobodyForgotten ==
  (\A j \in Jobs : queue[j] = 0) /\ (\A w \in Workers : at[w] = Idle) =>
    \A k \in begun, g \in Groups :
      k \in Manual \/ posts[<<k, g>>] > 0 \/ <<k, g>> \in excused
=============================================================================
