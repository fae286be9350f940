-------------------------- MODULE BirthdayCalendar --------------------------
(* Whose birthday it is: the daily sweep, /birthday and its collage, what is   *)
(* pinned, and the forecast of the next four days (cb_core/birthdays.py,       *)
(* jobs/birthday.py, handlers/{birthday,nextbirthday}.py). A job asks for the   *)
(* date when it runs, be that after midnight. Who sweeps twice, is killed or    *)
(* cannot queue a job is told in FanOut.                                       *)
EXTENDS Integers

CONSTANTS Persons, Groups,
          Born,       \* each person's <<month, day>>
          Starts,     \* the dates a behaviour may begin on
          MaxDays,    \* bound: nights
          MaxEvents   \* bound: comings and goings, commands, failures

Leap(y) == y % 4 = 0 /\ (y % 100 # 0 \/ y % 400 = 0)
MonthLength(y, m) ==
  IF m = 2 THEN IF Leap(y) THEN 29 ELSE 28 ELSE IF m \in {4, 6, 9, 11} THEN 30 ELSE 31
Tomorrow(date) ==
  IF date.d < MonthLength(date.y, date.m) THEN [date EXCEPT !.d = @ + 1]
  ELSE IF date.m < 12 THEN [date EXCEPT !.m = @ + 1, !.d = 1]
  ELSE [y |-> date.y + 1, m |-> 1, d |-> 1]
\* today + timedelta(days=k)
InDays(date, k) ==
  LET on[n \in 0..k] == IF n = 0 THEN date ELSE Tomorrow(on[n - 1]) IN on[k]

CalendarAssumption ==
  /\ Born \in [Persons -> (1..12) \X (1..31)] /\ MaxDays \in Nat /\ MaxEvents \in Nat
  /\ \A s \in Starts : s \in [y : Nat, m : 1..12, d : 1..MonthLength(s.y, s.m)]

VARIABLES today, nights, events,
          swept,    \* the cron of today has run
          present,  \* <<person, group>> of the registry
          moved,    \* history: of them, who came or went today
          queue,    \* jobs, deferred ones too
          pinned,   \* the date in each group's pinned birthday caption
          greeted,  \* history: <<person, group, date>> of the collages
          foretold, \* history: <<person, date>> of the forecasts
          excused   \* history: <<group, date>> the sweep left out because fun was off
                    \* there, nobody could be read for, or whose post failed, with
                    \* a word in the log
calendarVars ==
  <<today, nights, events, swept, present, moved, queue, pinned, greeted, foretold, excused>>

\* A member's /birthday may name people by their tags, or by nothing of use.
Job == [kind : {"collage"}, group : Groups, by : {"sweep", "member", "tags"}] \cup
       [kind : {"forecast"}, group : Groups, by : {"sweep"}]
Never == [y |-> 0, m |-> 0, d |-> 0]

TypeOK ==
  /\ today.m \in 1..12 /\ today.d \in 1..MonthLength(today.y, today.m)
  /\ present \subseteq Persons \X Groups /\ moved \subseteq Persons \X Groups
  /\ queue \subseteq Job /\ DOMAIN pinned = Groups
  /\ nights \in 0..MaxDays /\ events \in 0..MaxEvents /\ swept \in BOOLEAN

Init ==
  /\ today \in Starts /\ nights = 0 /\ events = 0 /\ swept = FALSE
  /\ present \in SUBSET (Persons \X Groups) /\ moved = {} /\ queue = {}
  /\ pinned = [g \in Groups |-> Never]
  /\ greeted = {} /\ foretold = {} /\ excused = {}

-----------------------------------------------------------------------------
BornOn(date) == {p \in Persons : Born[p] = <<date.m, date.d>>}
\* members_with_birthday
Celebrated(g) == {p \in BornOn(today) : <<p, g>> \in present}

\* A query that fails finds nobody.
Event == events < MaxEvents /\ events' = events + 1
Read(failing) == IF failing THEN Event ELSE UNCHANGED events

\* A caption with a marker, of whatever day.
AlreadyPostedToday_AnyDay(g) == pinned[g] # Never
AlreadyPostedToday(g) == pinned[g] = today

\* The cron at 00:10, with the broadcast enabled. A group is left out with fun off,
\* or when its job cannot be queued. A chat that cannot be read has nothing pinned.
Sweep(failing) ==
  /\ ~swept /\ swept' = TRUE
  /\ Read(failing)
  /\ \E unread, out \in SUBSET Groups :
       LET asked == IF failing THEN {} ELSE Groups \ out IN
       /\ queue' = queue \cup
            [kind : {"collage"}, by : {"sweep"},
             group : {g \in asked : Celebrated(g) # {} /\ (g \in unread \/ ~AlreadyPostedToday(g))}]
       /\ excused' = excused \cup ((Groups \ asked) \X {today})
  /\ UNCHANGED <<today, nights, present, moved, pinned, greeted, foretold>>

\* /birthday with a word or more, in a group with fun on.
Birthday(g) ==
  /\ Event
  /\ \E by \in {"member", "tags"} :
       queue' = queue \cup {[kind |-> "collage", group |-> g, by |-> by]}
  /\ UNCHANGED <<today, nights, swept, present, moved, pinned, greeted, foretold, excused>>

\* post_birthday_collage: those of the group whose day it is now, and those whom
\* the command tags; without either there is no post. The pin and the
\* follow-up are best effort.
PostCollage(job, failing) ==
  LET g == job.group
      people == IF failing THEN {} ELSE Celebrated(g)
      followup == [kind |-> "forecast", group |-> g, by |-> "sweep"] IN
  /\ job \in queue /\ job.kind = "collage"
  /\ Read(failing)
  /\ excused' = IF failing THEN excused \cup {<<g, today>>} ELSE excused
  /\ IF people = {} /\ job.by # "tags"
     THEN queue' = queue \ {job} /\ UNCHANGED <<pinned, greeted>>
     ELSE /\ greeted' = greeted \cup (people \X {g} \X {today})
          /\ pinned' \in {pinned, [pinned EXCEPT ![g] = today]}
          /\ queue' \in {queue \ {job}, (queue \ {job}) \cup {followup}}
  /\ UNCHANGED <<today, nights, swept, present, moved, foretold>>

\* The picture cannot be made or sent: the job is over, and arq runs it no second
\* time. Telegram may have posted it all the same.
CollageFails(job) ==
  LET g == job.group IN
  /\ job \in queue /\ job.kind = "collage"
  /\ Celebrated(g) # {} \/ job.by = "tags"
  /\ Event
  /\ queue' = queue \ {job}
  /\ greeted' \in {greeted, greeted \cup (Celebrated(g) \X {g} \X {today})}
  /\ excused' = IF job.by = "sweep" THEN excused \cup {<<g, today>>} ELSE excused
  /\ UNCHANGED <<today, nights, swept, present, moved, pinned, foretold>>

\* next_birthdays_text, a heading for each of the four days to come and, under
\* it, everybody born on that day, of whatever group.
Forecast == UNION {BornOn(InDays(today, k)) \X {InDays(today, k)} : k \in 1..4}

\* /nextbirthday, or the follow-up of a collage a quarter of an hour later.
NextBirthdays ==
  /\ Event
  /\ foretold' = foretold \cup Forecast
  /\ UNCHANGED <<today, nights, swept, present, moved, queue, pinned, greeted, excused>>
Followup(job) ==
  /\ job \in queue /\ job.kind = "forecast"
  /\ queue' = queue \ {job}
  /\ foretold' = foretold \cup Forecast
  /\ UNCHANGED <<today, nights, events, swept, present, moved, pinned, greeted, excused>>

\* Somebody joins or leaves; a message of theirs or the leave itself is what the
\* registry learns it from.
Move(p, g) ==
  /\ Event
  /\ present' = IF <<p, g>> \in present THEN present \ {<<p, g>>} ELSE present \cup {<<p, g>>}
  /\ moved' = moved \cup {<<p, g>>}
  /\ UNCHANGED <<today, nights, swept, queue, pinned, greeted, foretold, excused>>

\* The date changes, whatever waits in the queue.
Midnight ==
  /\ nights < MaxDays /\ nights' = nights + 1
  /\ today' = Tomorrow(today) /\ swept' = FALSE /\ moved' = {}
  /\ UNCHANGED <<events, present, queue, pinned, greeted, foretold, excused>>

Next ==
  \/ \E failing \in BOOLEAN : Sweep(failing) \/ \E job \in queue : PostCollage(job, failing)
  \/ \E g \in Groups : Birthday(g) \/ \E p \in Persons : Move(p, g)
  \/ \E job \in queue : CollageFails(job) \/ Followup(job)
  \/ NextBirthdays \/ Midnight

Spec == Init /\ [][Next]_calendarVars

-----------------------------------------------------------------------------
\* The sweep has been through a group and what it queued is done.
DayDone(g) == swept /\ [kind |-> "collage", group |-> g, by |-> "sweep"] \notin queue
Awaited(p, g) == <<p, g>> \in present \ moved /\ <<g, today>> \notin excused

\* Whoever is born on this day and has been in the group all of it is in a
\* collage there, whatever is pinned from another day and whoever used /birthday,
\* unless the sweep left the group out, the database could not be read or the
\* sweep's own post failed, which nothing tries again; and whom a forecast of the
\* days before named for today is among them, over the end of a month or a year,
\* and for the 29th of February.
NobodyMissed ==
  \A g \in Groups : DayDone(g) =>
    /\ \A p \in BornOn(today) : Awaited(p, g) => <<p, g, today>> \in greeted
    /\ \A p \in Persons : <<p, today>> \in foretold /\ Awaited(p, g) => <<p, g, today>> \in greeted

\* Nobody is congratulated on another day, although the job may run after
\* midnight (the date is the job's own, jobs/birthday.py:198-201).
OnTheDay == \A x \in greeted : Born[x[1]] = <<x[3].m, x[3].d>>

CalendarHolds == NobodyMissed /\ OnTheDay
=============================================================================
